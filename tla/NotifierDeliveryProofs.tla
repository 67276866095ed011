----------------------- MODULE NotifierDeliveryProofs -----------------------
(***************************************************************************)
(* What becomes of claims and alerts: proofs for any subscriptions,        *)
(* events, thresholds and any number of crashes and failures.  In this     *)
(* order:                                                                  *)
(*                                                                         *)
(* A row of notification_log counts as delivered only for an event of      *)
(* which Telegram took a message.  Only Commit marks a row as delivered,   *)
(* so the argument is about what the committing task knows: CommitsPushed, *)
(* that the message of the subscription and event it holds is out.  The    *)
(* other steps are Quiet: they forget no message, deliver no row and let   *)
(* no task commit.                                                         *)
(*                                                                         *)
(* An alert is warranted by an event: the proof follows what the consumer  *)
(* selects through paid_now, free_queue, ZSET and payload.                 *)
(*                                                                         *)
(* The status hash follows the stream until the first crash: InOrder, the  *)
(* entries are dispatched in turn, each once, and what is Done is          *)
(* Followed.                                                               *)
(*                                                                         *)
(* A claim has an owner, who will commit or release it, or its event was   *)
(* given up and left pending: ClaimInv.                                    *)
(*                                                                         *)
(* The limit of alerts holds: LanesApart, a subscription is served by one  *)
(* task at a time, so that QuotaKept, its alerts are counted one by one.   *)
(*                                                                         *)
(* The cooldown holds: CoolInv, a recent alert is in the log for whoever   *)
(* looks before the next one, and what was seen there stays so.            *)
(***************************************************************************)
EXTENDS NotifierProofs

\* A task that is about to commit has sent its message.
CommitsPushed ==
  \A a \in Actors : pc[a] = "commit" => pushes[hand[a]][Epoch(a)] > 0

\* The inductive invariant.
DeliveryInv == TypeOK /\ DeliveredWasPushed /\ CommitsPushed

\* The rows that a step leaves, whatever their age, were there before.
OldDeliveries ==
  \A r \in log' : r.delivered =>
    \E x \in log : x.delivered /\ x.sub = r.sub /\ x.epoch = r.epoch

\* A task that is about to commit was about to before, the same delivery.
OldCommit(a) ==
  pc'[a] = "commit" =>
    pc[a] = "commit" /\ hand'[a] = hand[a] /\ Epoch(a)' = Epoch(a)

\* A step that neither sends nor commits.
Quiet == pushes' = pushes /\ OldDeliveries /\ \A a \in Actors : OldCommit(a)

\* A quiet step preserves the invariant.
LEMMA QuietStep ==
  ASSUME DeliveryInv, TypeOK', Quiet
  PROVE  DeliveryInv'
<1>1. DeliveredWasPushed'
  BY DEF DeliveryInv, DeliveredWasPushed, Quiet, OldDeliveries
<1>2. ASSUME NEW a \in Actors, pc'[a] = "commit"
      PROVE  pushes'[hand'[a]][Epoch(a)'] > 0
  BY <1>2 DEF DeliveryInv, CommitsPushed, Quiet, OldCommit
<1>3. CommitsPushed'
  BY <1>2 DEF CommitsPushed
<1> QED
  BY <1>1, <1>3 DEF DeliveryInv

-----------------------------------------------------------------------------
(* The quiet steps *)

\* Reading the stream and acknowledging an event is quiet: the consumer does not
\* commit there, and the worker's payload is untouched.
LEMMA ReadingQuiet ==
  ASSUME TypeOK,
         ReadPending \/ CaughtUp \/ ReadNew \/ NextEvent \/ BatchDone \/ Ack
  PROVE  Quiet
  BY DEF TypeOK, TasksTyped, Actors, Quiet, OldDeliveries, OldCommit, Epoch, Event,
         ReadPending, CaughtUp, ReadNew, NextEvent, BatchDone, Ack, LeaveDispatch,
         Goto, Drop, dbVars, redisVars, streamVars, taskVars, workerVars, histVars,
         dispatchVars

\* So is dispatching one, up to the first message: the only row it adds is a claim.
LEMMA ClaimingQuiet ==
  ASSUME TypeOK,
         \/ SetStatus \/ SelectSubs \/ InsertClaim \/ InsertFails \/ ClaimsDone
         \/ Enqueue \/ \E s \in Subs : CheckCooldown(s) \/ NextPaid(s)
  PROVE  Quiet
<1> USE DEF TypeOK, TasksTyped, Actors, Quiet, OldDeliveries, OldCommit, Epoch, Event,
            Goto, Drop, dbVars, redisVars, streamVars, taskVars, workerVars, histVars,
            dispatchVars
<1>1. CASE SetStatus
  BY <1>1 DEF SetStatus
<1>2. CASE SelectSubs
  BY <1>2 DEF SelectSubs
<1>3. CASE InsertClaim
  BY <1>3 DEF InsertClaim, NewClaim
<1>4. CASE InsertFails
  BY <1>4 DEF InsertFails, LeaveDispatch
<1>5. CASE ClaimsDone
  BY <1>5 DEF ClaimsDone
<1>6. CASE Enqueue
  BY <1>6 DEF Enqueue
<1>7. ASSUME NEW s \in Subs, CheckCooldown(s)
      PROVE  Quiet
  BY <1>7 DEF CheckCooldown
<1>8. ASSUME NEW s \in Subs, NextPaid(s)
      PROVE  Quiet
  BY <1>8 DEF NextPaid
<1> QED
  BY <1>1, <1>2, <1>3, <1>4, <1>5, <1>6, <1>7, <1>8

\* Taking a payload, cancelling it or checking a subscription is quiet.
LEMMA ServingQuiet ==
  ASSUME TypeOK,
         \/ Gate \/ PayloadDone \/ \E d \in delayed : Take(d)
         \/ \E s \in Subs : Cancel(s) \/ Recheck(s)
  PROVE  Quiet
<1> USE DEF TypeOK, TasksTyped, Actors, Quiet, OldDeliveries, OldCommit, Epoch, Event,
            Goto, dbVars, redisVars, streamVars, taskVars, workerVars, histVars,
            dispatchVars
<1>1. CASE Gate
  BY <1>1 DEF Gate
<1>2. CASE PayloadDone
  BY <1>2 DEF PayloadDone
<1>3. ASSUME NEW d \in delayed, Take(d)
      PROVE  Quiet
  BY <1>3 DEF Take
<1>4. ASSUME NEW s \in Subs, Cancel(s)
      PROVE  Quiet
  BY <1>4 DEF Cancel, Released
<1>5. ASSUME NEW s \in Subs, Recheck(s)
      PROVE  Quiet
  BY <1>5 DEF Recheck
<1> QED
  BY <1>1, <1>2, <1>3, <1>4, <1>5

\* What follows a commit, and a release, only deletes rows.
LEMMA ClosingQuiet ==
  ASSUME TypeOK, NEW a \in Actors, Wake(a) \/ Release(a) \/ Count(a) \/ Expire(a)
  PROVE  Quiet
<1> USE DEF TypeOK, TasksTyped, Actors, Quiet, OldDeliveries, OldCommit, Epoch, Event,
            Goto, Drop, dbVars, redisVars, streamVars, taskVars, workerVars, histVars,
            dispatchVars
<1>1. CASE Wake(a)
  BY <1>1 DEF Wake
<1>2. CASE Release(a)
  BY <1>2 DEF Release, Released
<1>3. CASE Count(a)
  BY <1>3 DEF Count
<1>4. CASE Expire(a)
  BY <1>4 DEF Expire, DeleteSub
<1> QED
  BY <1>1, <1>2, <1>3, <1>4

\* New events, users and the clock deliver nothing: the event in hand stays where
\* it is when another one is appended.
LEMMA EnvironmentQuiet ==
  ASSUME TypeOK, Environment
  PROVE  Quiet
<1>1. ASSUME NEW l \in Locs, NEW to \in Statuses, NEW o \in Offers, NEW e \in Epochs,
             Publish(l, to, o, e)
      PROVE  Quiet
  <2> DEFINE ev == [loc |-> l, to |-> to, freed |-> o.freed, free |-> o.free,
                    epoch |-> e]
  <2>1. stream' = Append(stream, ev)
    BY <1>1 DEF Publish
  <2>2. pushes' = pushes /\ log' = log /\ pc' = pc /\ hand' = hand /\ cur' = cur
        /\ msg' = msg
    BY <1>1 DEF Publish, dbVars, taskVars, dispatchVars, workerVars, histVars
  <2>3. ASSUME pc["consumer"] = "commit"
        PROVE  cur \in 1..Len(stream) /\ stream \in Seq(Events)
    BY <2>3 DEF TypeOK, RedisTyped, ConsumerTyped, Dispatching
  <2>4. ASSUME NEW a \in Actors, pc'[a] = "commit"
        PROVE  Epoch(a)' = Epoch(a)
    <3>1. CASE a = "consumer"
      <4>1. cur \in 1..Len(stream) /\ stream \in Seq(Events)
        BY <2>2, <2>3, <2>4, <3>1
      <4>2. stream'[cur] = stream[cur]
        BY <2>1, <4>1
      <4> QED BY <2>2, <3>1, <4>2 DEF Epoch, Event
    <3>2. CASE a # "consumer"
      BY <2>2, <3>2 DEF Epoch
    <3> QED BY <3>1, <3>2
  <2> QED BY <2>2, <2>4 DEF Quiet, OldDeliveries, OldCommit
<1>2. ASSUME NEW s \in Subs, Unsubscribe(s) \/ ChangeTier(s)
      PROVE  Quiet
  BY <1>2 DEF Unsubscribe, ChangeTier, DeleteSub, Quiet, OldDeliveries, OldCommit,
              Epoch, Event, redisVars, streamVars, taskVars, dispatchVars, workerVars,
              histVars
<1>3. CASE Tick
  <2>1. OldDeliveries
    BY <1>3, OlderTyped DEF Tick, OldDeliveries, TypeOK, TablesTyped
  <2> QED
    BY <1>3, <2>1 DEF Tick, Quiet, OldCommit, Epoch, Event, streamVars, workerVars
<1> QED
  BY <1>1, <1>2, <1>3 DEF Environment

\* A failure, a crash or a restart leaves no task at a commit it was not at before,
\* and the reaper only deletes rows.
LEMMA FailureQuiet ==
  ASSUME TypeOK, Failure \/ Restart \/ Reap
  PROVE  Quiet
<1> USE DEF TypeOK, TasksTyped, Actors, Quiet, OldDeliveries, OldCommit, Epoch, Event,
            Goto, Drop, dbVars, redisVars, streamVars, taskVars, workerVars, histVars,
            dispatchVars
<1>1. CASE DispatchFault
  BY <1>1 DEF DispatchFault, LeaveDispatch
<1>2. CASE AckFault
  BY <1>2 DEF AckFault
<1>3. CASE WorkerFault
  BY <1>3 DEF WorkerFault
<1>4. CASE Crash
  BY <1>4 DEF Crash
<1>5. CASE Restart
  BY <1>5 DEF Restart
<1>6. CASE Reap
  BY <1>6 DEF Reap
<1> QED
  BY <1>1, <1>2, <1>3, <1>4, <1>5, <1>6 DEF Failure

-----------------------------------------------------------------------------
(* Sending and committing *)

\* One message more is at least as many as before, and at least one.
LEMMA OneMoreGrows ==
  ASSUME NEW tally \in [Subs -> [Epochs -> Nat]], NEW s \in Subs, NEW e \in Epochs
  PROVE  /\ OneMore(tally, s, e)[s][e] > 0
         /\ \A t \in Subs, f \in Epochs : tally[t][f] > 0 => OneMore(tally, s, e)[t][f] > 0
  BY DEF OneMore

\* An attempt to send leads to the commit only if Telegram took the message.
LEMMA SendDelivers ==
  ASSUME DeliveryInv, TypeOK', NEW a \in Actors, Send(a) \/ Resend(a)
  PROVE  DeliveryInv'
<1> DEFINE s == hand[a]
           e == Epoch(a)
<1>1. TypeOK /\ pc[a] \in Holding
  BY DEF DeliveryInv, Send, Resend, Holding
<1>2. s \in Subs /\ e \in Epochs
  BY <1>1, HandTyped, EpochTyped
<1>3. pushes \in [Subs -> [Epochs -> Nat]]
  BY <1>1 DEF TypeOK, HistoryTyped
<1>4. /\ log' = log /\ hand' = hand
      /\ \A b \in Actors : Epoch(b)' = Epoch(b)
      /\ \A b \in Actors : b # a => pc'[b] = pc[b]
  BY <1>1 DEF Send, Resend, Goto, TypeOK, TasksTyped, Epoch, Event, dbVars, taskVars,
              redisVars, streamVars, dispatchVars, workerVars
<1>5. pushes' = pushes \/ pushes' = OneMore(pushes, s, e)
  BY DEF Send, Resend, Accepted, AcceptedUnseen, NotAccepted, histVars
<1>6. pc'[a] = "commit" => pushes' = OneMore(pushes, s, e)
  BY <1>1 DEF Send, Resend, Accepted, Goto, TypeOK, TasksTyped
<1>7. \A t \in Subs, f \in Epochs : pushes[t][f] > 0 => pushes'[t][f] > 0
  BY <1>2, <1>3, <1>5, OneMoreGrows
<1>8. DeliveredWasPushed'
  BY <1>1, <1>4, <1>7 DEF DeliveryInv, DeliveredWasPushed, TypeOK, TablesTyped, Rows
<1>9. ASSUME NEW b \in Actors, pc'[b] = "commit"
      PROVE  pushes'[hand'[b]][Epoch(b)'] > 0
  <2>1. CASE b = a
    BY <1>2, <1>3, <1>4, <1>6, <1>9, <2>1, OneMoreGrows
  <2>2. CASE b # a
    <3>1. pc[b] = "commit" /\ pc[b] \in Holding
      BY <1>4, <1>9, <2>2 DEF Holding
    <3>2. hand[b] \in Subs /\ Epoch(b) \in Epochs
      BY <1>1, <3>1, HandTyped, EpochTyped
    <3> QED BY <1>4, <1>7, <3>1, <3>2 DEF DeliveryInv, CommitsPushed
  <2> QED BY <2>1, <2>2
<1> QED
  BY <1>8, <1>9 DEF DeliveryInv, CommitsPushed

\* A commit delivers the row of the message that was sent.
LEMMA CommitDelivers ==
  ASSUME DeliveryInv, TypeOK', NEW a \in Actors, Commit(a)
  PROVE  DeliveryInv'
<1> DEFINE s == hand[a]
           e == Epoch(a)
<1>1. pushes[s][e] > 0 /\ pushes' = pushes
  BY DEF DeliveryInv, CommitsPushed, Commit, histVars
<1>2. ASSUME NEW r \in log', r.delivered
      PROVE  pushes[r.sub][r.epoch] > 0
  <2>1. PICK x \in log : r = IF IsRow(x, s, e) THEN [x EXCEPT !.delivered = TRUE, !.age = 0]
                             ELSE x
    BY <1>2 DEF Commit
  <2>2. x \in Rows
    BY DEF DeliveryInv, TypeOK, TablesTyped
  <2>3. CASE IsRow(x, s, e)
    BY <1>1, <2>1, <2>2, <2>3 DEF IsRow, Rows
  <2>4. CASE ~IsRow(x, s, e)
    BY <1>2, <2>1, <2>4 DEF DeliveryInv, DeliveredWasPushed
  <2> QED BY <2>3, <2>4
<1>3. \A b \in Actors : OldCommit(b)
  BY DEF DeliveryInv, TypeOK, TasksTyped, Commit, Goto, OldCommit, Epoch, Event,
         redisVars, streamVars, taskVars, dispatchVars
<1>4. DeliveredWasPushed'
  BY <1>1, <1>2 DEF DeliveredWasPushed
<1>5. CommitsPushed'
  BY <1>1, <1>3 DEF DeliveryInv, CommitsPushed, OldCommit
<1> QED
  BY <1>4, <1>5 DEF DeliveryInv

-----------------------------------------------------------------------------
\* Every step preserves the invariant.
LEMMA DeliveryStep ==
  ASSUME DeliveryInv, [Next]_vars
  PROVE  DeliveryInv'
<1>1. TypeOK /\ TypeOK'
  BY StepTyped DEF DeliveryInv
<1>2. CASE Consume
  BY <1>1, <1>2, ReadingQuiet, ClaimingQuiet, ClosingQuiet, QuietStep, SendDelivers,
     CommitDelivers DEF Consume, Deliver, Actors
<1>3. CASE ServeDelayed
  BY <1>1, <1>3, ServingQuiet, ClosingQuiet, QuietStep, SendDelivers, CommitDelivers
  DEF ServeDelayed, Deliver, Actors
<1>4. CASE Environment \/ Failure \/ Restart \/ Reap
  BY <1>1, <1>4, EnvironmentQuiet, FailureQuiet, QuietStep
<1>5. CASE UNCHANGED vars
  BY <1>1, <1>5, QuietStep DEF Quiet, OldDeliveries, OldCommit, Epoch, Event, vars,
     dbVars, redisVars, streamVars, taskVars, dispatchVars, workerVars, histVars
<1> QED
  BY <1>2, <1>3, <1>4, <1>5 DEF Next

\* A failed send never consumes the cooldown: in every behaviour a delivered row has
\* its message, whatever crashes, fails or is replayed.
THEOREM DeliveredHasMessage == Spec => []DeliveredWasPushed
<1>1. Init => DeliveryInv
  <2>1. Init => TypeOK
    BY InitTyped
  <2>2. Init => DeliveredWasPushed /\ CommitsPushed
    BY DEF Init, DeliveredWasPushed, CommitsPushed
  <2> QED BY <2>1, <2>2 DEF DeliveryInv
<1>2. DeliveryInv /\ [Next]_vars => DeliveryInv'
  BY DeliveryStep
<1>3. DeliveryInv => DeliveredWasPushed
  BY DEF DeliveryInv
<1> QED
  BY <1>1, <1>2, <1>3, PTL DEF Spec

-----------------------------------------------------------------------------
(* What an alert is about *)

\* The event is one the subscription waits for, as far as it tells.
Warrants(ev, s) ==
  /\ ev.loc = SubLoc[s] /\ ev.to = "AVAILABLE"
  /\ ev.freed = {} \/ SubType[s] \in ev.freed \cup {None}
Warranted(s, e) == \E p \in 1..Len(stream) : stream[p].epoch = e /\ Warrants(stream[p], s)

\* The consumer, the worker or the ZSET has a subscription that may get an alert of the epoch.
InHandOf(a, s) == pc[a] \in Holding /\ hand[a] = s
Selected(s, e) ==
  /\ pc["consumer"] \in InDispatch /\ Event.epoch = e
  /\ s \in rows \cup queue \cup todo["consumer"] \/ InHandOf("consumer", s)
Served(s, e) ==
  /\ pc["worker"] \in Serving /\ msg.epoch = e
  /\ s \in todo["worker"] \/ InHandOf("worker", s)
Waiting(s, e) == \E d \in delayed : d.msg.epoch = e /\ s \in d.msg.subs
Chosen(s, e) == Selected(s, e) \/ Served(s, e) \/ Waiting(s, e)

\* Only an alert selects.
SelectsAlert == pc["consumer"] = "select" => Event.to = "AVAILABLE"

\* The inductive invariant.
WarrantInv ==
  /\ AccountInv /\ SelectsAlert
  /\ \A s \in Subs, e \in Epochs : Chosen(s, e) \/ pushes[s][e] > 0 => Warranted(s, e)

\* A step that chooses nobody and alerts nobody.
Idle ==
  /\ stream' = stream /\ pushes' = pushes
  /\ pc'["consumer"] = "select" => pc["consumer"] = "select" /\ cur' = cur
  /\ \A s \in Subs, e \in Epochs : Chosen(s, e)' => Chosen(s, e)

\* Reading and acknowledging chooses nobody.
LEMMA ReadingIdle ==
  ASSUME TypeOK, Tidy,
         \/ ReadPending \/ CaughtUp \/ ReadNew \/ NextEvent \/ BatchDone \/ Ack
         \/ InsertFails \/ ClaimsDone
  PROVE  Idle
<1> USE DEF TypeOK, TasksTyped, Actors, Idle, Chosen, Selected, Served, Waiting, InHandOf,
            InDispatch, Holding, Serving, Event, Goto, Drop, dbVars, redisVars, streamVars,
            taskVars, workerVars, histVars, dispatchVars
<1>1. CASE ReadPending \/ CaughtUp \/ ReadNew
  BY <1>1 DEF ReadPending, CaughtUp, ReadNew
<1>2. CASE NextEvent \/ BatchDone
  BY <1>2 DEF NextEvent, BatchDone
<1>3. CASE Ack \/ InsertFails
  BY <1>3 DEF Ack, InsertFails, LeaveDispatch
<1>4. CASE ClaimsDone
  BY <1>4 DEF ClaimsDone
<1> QED BY <1>1, <1>2, <1>3, <1>4

\* A claim and a turn are of somebody chosen.
LEMMA ClaimingIdle ==
  ASSUME TypeOK, Tidy,
         InsertClaim \/ \E s \in Subs : CheckCooldown(s) \/ NextPaid(s)
  PROVE  Idle
<1> USE DEF TypeOK, TasksTyped, Actors, Idle, Chosen, Selected, Served, Waiting, InHandOf,
            InDispatch, Holding, Serving, Event, Goto, Drop, dbVars, redisVars, streamVars,
            taskVars, workerVars, histVars, dispatchVars
<1>1. CASE InsertClaim
  BY <1>1 DEF InsertClaim
<1>2. ASSUME NEW s \in Subs, CheckCooldown(s)
      PROVE  Idle
  BY <1>2 DEF CheckCooldown
<1>3. ASSUME NEW s \in Subs, NextPaid(s)
      PROVE  Idle
  BY <1>3 DEF NextPaid
<1> QED BY <1>1, <1>2, <1>3

\* So is whoever the worker serves, and whom either task is done with.
LEMMA ServingIdle ==
  ASSUME TypeOK, Tidy,
         \/ Gate \/ PayloadDone \/ \E d \in delayed : Take(d)
         \/ \E s \in Subs : Cancel(s) \/ Recheck(s)
         \/ \E a \in Actors : Wake(a) \/ Release(a) \/ Commit(a) \/ Count(a) \/ Expire(a)
  PROVE  Idle
<1> USE DEF TypeOK, TasksTyped, Actors, Idle, Chosen, Selected, Served, Waiting, InHandOf,
            InDispatch, Holding, Serving, Event, Goto, Drop, dbVars, redisVars, streamVars,
            taskVars, workerVars, histVars, dispatchVars
<1>1. CASE Gate \/ PayloadDone
  BY <1>1 DEF Gate, PayloadDone
<1>2. ASSUME NEW d \in delayed, Take(d)
      PROVE  Idle
  BY <1>2 DEF Take
<1>3. ASSUME NEW s \in Subs, Cancel(s) \/ Recheck(s)
      PROVE  Idle
  BY <1>3 DEF Cancel, Recheck
<1>4. ASSUME NEW a \in Actors, Wake(a) \/ Release(a) \/ Commit(a) \/ Count(a) \/ Expire(a)
      PROVE  Idle
  <2>1. CASE Wake(a) \/ Release(a)
    BY <2>1 DEF Wake, Release
  <2>2. CASE Commit(a)
    BY <2>2 DEF Commit
  <2>3. CASE Count(a)
    BY <2>3 DEF Count
  <2>4. CASE Expire(a)
    BY <2>4 DEF Expire
  <2> QED BY <1>4, <2>1, <2>2, <2>3, <2>4
<1> QED BY <1>1, <1>2, <1>3, <1>4

\* Neither the users nor the reaper nor a failure choose anybody.
LEMMA OthersIdle ==
  ASSUME TypeOK, Tidy,
         \/ Failure \/ Restart \/ Reap \/ UNCHANGED vars
         \/ \E s \in Subs : Unsubscribe(s) \/ ChangeTier(s)
  PROVE  Idle
<1> USE DEF TypeOK, TasksTyped, Actors, Idle, Chosen, Selected, Served, Waiting, InHandOf,
            InDispatch, Holding, Serving, Event, Goto, Drop, dbVars, redisVars, streamVars,
            taskVars, workerVars, histVars, dispatchVars
<1>1. CASE DispatchFault \/ AckFault
  BY <1>1 DEF DispatchFault, AckFault, LeaveDispatch
<1>2. CASE WorkerFault \/ Crash
  BY <1>2 DEF WorkerFault, Crash
<1>3. CASE Restart \/ Reap
  BY <1>3 DEF Restart, Reap
<1>4. ASSUME NEW s \in Subs, Unsubscribe(s) \/ ChangeTier(s)
      PROVE  Idle
  BY <1>4 DEF Unsubscribe, ChangeTier
<1>5. CASE UNCHANGED vars
  BY <1>5 DEF vars
<1> QED BY <1>1, <1>2, <1>3, <1>4, <1>5 DEF Failure

\* An idle step keeps the invariant.
LEMMA IdleStep ==
  ASSUME WarrantInv, AccountInv', Idle
  PROVE  WarrantInv'
<1>1. SelectsAlert'
  BY DEF WarrantInv, Idle, SelectsAlert, Event
<1>2. ASSUME NEW s \in Subs, NEW e \in Epochs, Chosen(s, e)' \/ pushes'[s][e] > 0
      PROVE  Warranted(s, e)'
  BY <1>2 DEF WarrantInv, Idle, Warranted
<1> QED BY <1>1, <1>2 DEF WarrantInv

-----------------------------------------------------------------------------
(* Steps that choose, schedule and alert *)

\* Only an event that says "AVAILABLE" goes on to the selection.
LEMMA SetStatusWarrants ==
  ASSUME WarrantInv, AccountInv', SetStatus
  PROVE  WarrantInv'
<1>1. SelectsAlert'
  BY DEF SetStatus, SelectsAlert, Event, Goto, WarrantInv, AccountInv, TypeOK, TasksTyped,
     Actors, streamVars, dispatchVars
<1>2. stream' = stream /\ pushes' = pushes
      /\ \A s \in Subs, e \in Epochs : Chosen(s, e)' => Chosen(s, e)
  BY DEF SetStatus, Goto, WarrantInv, AccountInv, TypeOK, TasksTyped, Actors, streamVars,
     dispatchVars, taskVars, workerVars, histVars, Chosen, Selected, Served, Waiting, InHandOf,
     InDispatch, Serving, Event
<1>3. ASSUME NEW s \in Subs, NEW e \in Epochs, Chosen(s, e)' \/ pushes'[s][e] > 0
      PROVE  Warranted(s, e)'
  BY <1>2, <1>3 DEF WarrantInv, Warranted
<1> QED BY <1>1, <1>3 DEF WarrantInv

\* What is selected is warranted by the event in hand.
LEMMA SelectWarrants ==
  ASSUME WarrantInv, AccountInv', SelectSubs
  PROVE  WarrantInv'
<1>1. TypeOK /\ Tidy /\ stream' = stream /\ pushes' = pushes /\ cur' = cur
      /\ pc["consumer"] = "select" /\ pc'["consumer"] = "claim"
      /\ todo["consumer"] = {} /\ queue = {} /\ queue' = queue /\ todo' = todo
      /\ pc'["worker"] = pc["worker"] /\ hand' = hand /\ msg' = msg /\ delayed' = delayed
  BY DEF SelectSubs, Goto, WarrantInv, AccountInv, Tidy, TypeOK, TasksTyped, Actors, InDispatch,
     redisVars, streamVars, taskVars, workerVars, histVars
<1>2. SelectsAlert'
  BY <1>1 DEF SelectsAlert
<1>3. cur \in 1..Len(stream) /\ Event \in Events
  BY <1>1, EventTyped DEF TypeOK, RedisTyped, ConsumerTyped, Dispatching
<1>4. ASSUME NEW s \in Subs, NEW e \in Epochs, Selected(s, e)'
      PROVE  Warranted(s, e)'
  <2>1. s \in rows' /\ e = Event.epoch
    BY <1>1, <1>4 DEF Selected, InHandOf, Holding, Event
  <2>2. SubLoc[s] = Event.loc /\ Matches(s, Event) /\ Event.to = "AVAILABLE"
    BY <1>1, <2>1 DEF SelectSubs, WarrantInv, SelectsAlert
  <2>3. Warrants(Event, s)
    BY <2>2 DEF Warrants, Matches, Transitioned
  <2> QED
    BY <1>1, <1>3, <2>1, <2>3 DEF Warranted, Event
<1>5. ASSUME NEW s \in Subs, NEW e \in Epochs, Chosen(s, e)' \/ pushes'[s][e] > 0
      PROVE  Warranted(s, e)'
  <2>1. CASE Served(s, e)' \/ Waiting(s, e)' \/ pushes'[s][e] > 0
    BY <1>1, <2>1 DEF WarrantInv, Warranted, Chosen, Served, Waiting, InHandOf
  <2> QED BY <1>4, <1>5, <2>1 DEF Chosen
<1> QED BY <1>2, <1>5 DEF WarrantInv

\* Who is scheduled was in free_queue.
LEMMA EnqueueWarrants ==
  ASSUME WarrantInv, AccountInv', Enqueue
  PROVE  WarrantInv'
<1>1. TypeOK /\ stream' = stream /\ pushes' = pushes /\ cur' = cur /\ msg' = msg
      /\ pc["consumer"] = "deliver" /\ pc'["consumer"] = "ack" /\ hand' = hand /\ todo' = todo
      /\ pc'["worker"] = pc["worker"]
  BY DEF Enqueue, Goto, WarrantInv, AccountInv, TypeOK, TasksTyped, Actors, streamVars,
     taskVars, workerVars, histVars
<1>2. ASSUME NEW s \in Subs, NEW e \in Epochs, Waiting(s, e)'
      PROVE  Chosen(s, e)
  BY <1>1, <1>2 DEF Enqueue, Waiting, Chosen, Selected, InDispatch
<1>3. Idle
  BY <1>1, <1>2 DEF Idle, Chosen, Selected, Served, InHandOf, InDispatch
<1> QED BY <1>3, IdleStep

\* Who gets a message was chosen.
LEMMA SendWarrants ==
  ASSUME WarrantInv, AccountInv', NEW a \in Actors, Send(a) \/ Resend(a)
  PROVE  WarrantInv'
<1> DEFINE k == hand[a]
           f == Epoch(a)
<1>1. /\ TypeOK /\ stream' = stream /\ cur' = cur /\ msg' = msg /\ hand' = hand /\ todo' = todo
      /\ rows' = rows /\ queue' = queue /\ delayed' = delayed /\ pc[a] \in {"send", "resend"}
      /\ \A b \in Actors : \/ pc'[b] = pc[b]
                           \/ /\ pc[b] \in {"send", "resend"}
                              /\ pc'[b] \in {"commit", "release", "resend", "nap"}
      /\ pushes' = pushes \/ pushes' = OneMore(pushes, k, f)
  BY DEF Send, Resend, Accepted, AcceptedUnseen, NotAccepted, Goto, WarrantInv, AccountInv,
     TypeOK, TasksTyped, Actors, redisVars, streamVars, dispatchVars, taskVars, workerVars,
     histVars
<1>2. k \in Subs /\ f \in Epochs
  BY <1>1, HandTyped, EpochTyped DEF Holding
<1>3. Chosen(k, f)
  BY <1>1 DEF Chosen, Selected, Served, InHandOf, Holding, InDispatch, Serving, Epoch, Actors
<1>4. /\ pc'["consumer"] = "select" => pc["consumer"] = "select"
      /\ pc'["consumer"] \in InDispatch => pc["consumer"] \in InDispatch
      /\ pc'["worker"] \in Serving => pc["worker"] \in Serving
      /\ \A b \in Actors : pc'[b] \in Holding => pc[b] \in Holding
  <2>1. ASSUME NEW b \in Actors
        PROVE  /\ pc'[b] = "select" => pc[b] = "select"
               /\ pc'[b] \in InDispatch => pc[b] \in InDispatch
               /\ pc'[b] \in Serving => pc[b] \in Serving
               /\ pc'[b] \in Holding => pc[b] \in Holding
    <3>1. CASE pc'[b] = pc[b]
      BY <3>1
    <3>2. CASE /\ pc[b] \in {"send", "resend"}
               /\ pc'[b] \in {"commit", "release", "resend", "nap"}
      BY <3>2 DEF InDispatch, Serving, Holding
    <3> QED BY <1>1, <3>1, <3>2
  <2> QED BY <2>1 DEF Actors
<1>5. SelectsAlert' /\ \A s \in Subs, e \in Epochs : Chosen(s, e)' => Chosen(s, e)
  <2>1. SelectsAlert'
    BY <1>1, <1>4 DEF SelectsAlert, WarrantInv, Event
  <2>2. ASSUME NEW s \in Subs, NEW e \in Epochs
        PROVE  /\ Selected(s, e)' => Selected(s, e)
               /\ Served(s, e)' => Served(s, e)
               /\ Waiting(s, e)' => Waiting(s, e)
    BY <1>1, <1>4 DEF Selected, Served, Waiting, InHandOf, Event, Actors
  <2> QED BY <2>1, <2>2 DEF Chosen
<1>6. ASSUME NEW s \in Subs, NEW e \in Epochs, pushes'[s][e] > 0
      PROVE  Chosen(s, e) \/ pushes[s][e] > 0
  <2>1. CASE s = k /\ e = f
    BY <1>3, <2>1
  <2>2. CASE ~(s = k /\ e = f)
    <3>1. pushes'[s][e] = pushes[s][e]
      BY <1>1, <1>2, <2>2 DEF OneMore, TypeOK, HistoryTyped
    <3> QED BY <1>6, <3>1
  <2> QED BY <2>1, <2>2
<1>7. ASSUME NEW s \in Subs, NEW e \in Epochs, Chosen(s, e)' \/ pushes'[s][e] > 0
      PROVE  Warranted(s, e)'
  BY <1>1, <1>5, <1>6, <1>7 DEF WarrantInv, Warranted
<1> QED BY <1>5, <1>7 DEF WarrantInv

\* Time only moves what is due.
LEMMA TickWarrants ==
  ASSUME WarrantInv, AccountInv', Tick
  PROVE  WarrantInv'
<1>1. \A d \in delayed : [d EXCEPT !.due = IF @ = 0 THEN 0 ELSE @ - 1].msg = d.msg
  BY DEF WarrantInv, AccountInv, TypeOK, RedisTyped, Entries
<1>2. \A s \in Subs, e \in Epochs : Waiting(s, e)' => Waiting(s, e)
  BY <1>1 DEF Tick, Waiting
<1>3. Idle
  BY <1>2 DEF Tick, Idle, Chosen, Selected, Served, InHandOf, Event, streamVars, workerVars
<1> QED BY <1>3, IdleStep

\* A new entry takes no warrant away.
LEMMA PublishWarrants ==
  ASSUME WarrantInv, AccountInv', NEW l \in Locs, NEW to \in Statuses, NEW o \in Offers,
         NEW f \in Epochs, Publish(l, to, o, f)
  PROVE  WarrantInv'
<1>1. TypeOK /\ pushes' = pushes /\ pc' = pc /\ cur' = cur /\ msg' = msg /\ hand' = hand
      /\ todo' = todo /\ rows' = rows /\ queue' = queue /\ delayed' = delayed
  BY DEF Publish, WarrantInv, AccountInv, taskVars, dispatchVars, workerVars, histVars
<1>2. /\ Len(stream') = Len(stream) + 1 /\ Len(stream) \in Nat
      /\ \A p \in 1..Len(stream) : stream'[p] = stream[p]
  BY <1>1 DEF Publish, TypeOK, RedisTyped
<1>3. pc["consumer"] \in InDispatch \cup {"select"} => Event' = Event
  <2>1. pc["consumer"] \in InDispatch \cup {"select"} => cur \in 1..Len(stream)
    BY <1>1 DEF TypeOK, ConsumerTyped, RedisTyped, InDispatch, Dispatching
  <2> QED BY <1>1, <1>2, <2>1 DEF Event
<1>4. SelectsAlert'
  BY <1>1, <1>3 DEF SelectsAlert, WarrantInv
<1>5. ASSUME NEW s \in Subs, NEW e \in Epochs
      PROVE  /\ Chosen(s, e)' => Chosen(s, e)
             /\ Warranted(s, e) => Warranted(s, e)'
  <2>1. Chosen(s, e)' => Chosen(s, e)
    BY <1>1, <1>3 DEF Chosen, Selected, Served, Waiting, InHandOf
  <2>2. Warranted(s, e) => Warranted(s, e)'
    BY <1>2 DEF Warranted
  <2> QED BY <2>1, <2>2
<1>6. ASSUME NEW s \in Subs, NEW e \in Epochs, Chosen(s, e)' \/ pushes'[s][e] > 0
      PROVE  Warranted(s, e)'
  BY <1>1, <1>5, <1>6 DEF WarrantInv
<1> QED BY <1>4, <1>6 DEF WarrantInv

-----------------------------------------------------------------------------
\* Every step keeps the warrants.
LEMMA WarrantStep ==
  ASSUME WarrantInv, [Next]_vars
  PROVE  WarrantInv'
<1>1. TypeOK /\ Tidy /\ AccountInv'
  BY AccountStep DEF WarrantInv, AccountInv
<1>2. CASE Consume
  <2>1. CASE Deliver("consumer")
    BY <1>1, <2>1, ServingIdle, SendWarrants, IdleStep DEF Deliver, Actors
  <2>2. CASE SetStatus \/ SelectSubs \/ Enqueue
    BY <1>1, <2>2, SetStatusWarrants, SelectWarrants, EnqueueWarrants
  <2>3. CASE ~Deliver("consumer") /\ ~SetStatus /\ ~SelectSubs /\ ~Enqueue
    BY <1>1, <1>2, <2>3, ReadingIdle, ClaimingIdle, IdleStep DEF Consume
  <2> QED BY <2>1, <2>2, <2>3
<1>3. CASE ServeDelayed
  <2>1. CASE Deliver("worker")
    BY <1>1, <2>1, ServingIdle, SendWarrants, IdleStep DEF Deliver, Actors
  <2>2. CASE ~Deliver("worker")
    BY <1>1, <1>3, <2>2, ServingIdle, IdleStep DEF ServeDelayed
  <2> QED BY <2>1, <2>2
<1>4. CASE Environment
  BY <1>1, <1>4, PublishWarrants, TickWarrants, OthersIdle, IdleStep DEF Environment
<1>5. CASE Failure \/ Restart \/ Reap \/ UNCHANGED vars
  BY <1>1, <1>5, OthersIdle, IdleStep
<1> QED
  BY <1>2, <1>3, <1>4, <1>5 DEF Next

\* Nobody is alerted of an event of another location, of one that is no alert, or of a
\* connector of another type, whatever is replayed, delayed or retried.
THEOREM AlertsWarranted == Spec => []AlertsAreWarranted
<1>1. Init => WarrantInv
  <2> SUFFICES ASSUME Init
               PROVE  WarrantInv
    OBVIOUS
  <2>1. SelectsAlert /\ \A s \in Subs, e \in Epochs : ~Chosen(s, e) /\ pushes[s][e] = 0
    BY DEF Init, SelectsAlert, Chosen, Selected, Served, Waiting, InDispatch, Serving, Actors
  <2> QED
    BY <2>1, InitAccounts DEF WarrantInv
<1>2. WarrantInv /\ [Next]_vars => WarrantInv'
  BY WarrantStep
<1>3. WarrantInv => AlertsAreWarranted
  BY DEF WarrantInv, Warranted, Warrants, AlertsAreWarranted
<1> QED
  BY <1>1, <1>2, <1>3, PTL DEF Spec

-----------------------------------------------------------------------------
(* Who answers for a claim *)

\* The subscription in hand has a claim that is neither delivered nor released.
Serves(a, s, e) ==
  pc[a] \in BeforeMessage \cup {"commit"} /\ hand[a] = s /\ Epoch(a) = e

\* Somebody will commit or release the claim: it is in the hands of a task that has not
\* dealt with it, or in a payload.
Owns(s, e) ==
  \/ \E a \in Actors : Serves(a, s, e) \/ InTodo(a, s, e)
  \/ InQueue(s, e)
  \/ Scheduled(s, e) # {}

\* Claims are of subscriptions that exist.
RowsLive == \A r \in log : r.sub \in live

\* A dispatch that was given up has left an entry of the epoch behind: it is pending, and
\* only a restart reads it again.
GivenUp(p) == p \in pel /\ p # cur /\ p \notin batch
Skipped(e) == \E p \in 1..last : GivenUp(p) /\ stream[p].epoch = e

\* Before the first crash nothing is replayed, and nobody is down.
FirstLife ==
  crashes = 0 => /\ \A a \in Actors : pc[a] # "down"
                 /\ cursor = "0" => pel = {} /\ last = 0

\* As long as the worker lives and there was no crash, a claim has an owner or its event
\* was given up.
ClaimsAnswered ==
  crashes = 0 /\ pc["worker"] # "dead" =>
    \A s \in Subs, e \in Epochs : Claimed(s, e) => Owns(s, e) \/ Skipped(e)

\* As long as nothing fails and no subscription is deleted, it has an owner.
ClaimsOwned ==
  crashes = 0 /\ faults = 0 /\ live = Subs =>
    \A s \in Subs, e \in Epochs : Claimed(s, e) => Owns(s, e)

ClaimInv == RowsLive /\ FirstLife /\ ClaimsAnswered /\ ClaimsOwned

-----------------------------------------------------------------------------
(* The status follows the stream *)

\* The events the consumer has marked.
Done == {p \in 1..last : p \notin batch /\ ~(pc["consumer"] = "hset" /\ p = cur)}
Latest(p) == \A q \in Done : p < q => stream[q].loc # stream[p].loc
Followed == \A p \in Done : Latest(p) => status[stream[p].loc] = stream[p].to

\* Before the first crash the entries are dispatched in the order of the stream, each once.
InOrder ==
  crashes = 0 =>
    /\ \A p \in batch, q \in 1..last : p < q => q \in batch
    /\ pc["consumer"] \in Dispatching => cur + 1..last \subseteq batch
    /\ pc["consumer"] \in Dispatching \/ cur = 0
    /\ pc["consumer"] = "idle" => batch = {}
    /\ (\A p \in pel : ~GivenUp(p)) => Followed

\* A step that neither reads the stream nor turns from one entry to the next.
ReadsAlike ==
  /\ last' = last /\ pel' = pel /\ status' = status /\ cursor' = cursor /\ batch' = batch
  /\ cur' = cur /\ crashes' = crashes
  /\ \A p \in 1..last : stream'[p] = stream[p]
  /\ \A a \in Actors : pc'[a] = "down" => pc[a] = "down"
  /\ pc'["consumer"] \in Dispatching <=> pc["consumer"] \in Dispatching
  /\ pc'["consumer"] = "hset" <=> pc["consumer"] = "hset"
  /\ pc'["consumer"] = "idle" => pc["consumer"] = "idle"

\* What is read stays in order.
LEMMA ReadsAlikeStep ==
  ASSUME TypeOK, ReadsAlike, FirstLife, InOrder
  PROVE  FirstLife' /\ InOrder'
<1>1. FirstLife'
  BY DEF ReadsAlike, FirstLife
<1>2. ASSUME crashes' = 0
      PROVE  /\ \A p \in batch', q \in 1..last' : p < q => q \in batch'
             /\ pc'["consumer"] \in Dispatching => cur' + 1..last' \subseteq batch'
             /\ pc'["consumer"] \in Dispatching \/ cur' = 0
             /\ pc'["consumer"] = "idle" => batch' = {}
             /\ (\A p \in pel' : ~GivenUp(p)') => Followed'
  <2>1. Done' = Done /\ Done \subseteq 1..last
    BY DEF ReadsAlike, Done
  <2>2. Followed => Followed'
    BY <2>1 DEF Followed, Latest, ReadsAlike
  <2>3. \A p \in pel : GivenUp(p)' = GivenUp(p)
    BY DEF GivenUp, ReadsAlike
  <2> QED
    BY <1>2, <2>2, <2>3 DEF ReadsAlike, InOrder
<1> QED
  BY <1>1, <1>2 DEF InOrder

\* Such are the consumer's steps between the mark and the acknowledgement.
LEMMA DispatchingAlike ==
  ASSUME TypeOK,
         \/ SelectSubs \/ InsertClaim \/ ClaimsDone \/ Enqueue
         \/ \E s \in Subs : CheckCooldown(s) \/ NextPaid(s)
         \/ \E a \in Actors : Deliver(a)
  PROVE  ReadsAlike
<1> USE DEF TypeOK, TasksTyped, Actors, ReadsAlike, Dispatching, Goto, Drop, dbVars, redisVars,
            streamVars, taskVars, workerVars, histVars, dispatchVars, readVars, boundVars
<1>1. CASE SelectSubs \/ ClaimsDone
  BY <1>1 DEF SelectSubs, ClaimsDone
<1>2. CASE InsertClaim
  BY <1>2 DEF InsertClaim
<1>3. CASE Enqueue
  BY <1>3 DEF Enqueue
<1>4. ASSUME NEW s \in Subs, CheckCooldown(s) \/ NextPaid(s)
      PROVE  ReadsAlike
  BY <1>4 DEF CheckCooldown, NextPaid
<1>5. ASSUME NEW a \in Actors, Deliver(a)
      PROVE  ReadsAlike
  <2>1. CASE Send(a)
    BY <2>1 DEF Send
  <2>2. CASE Resend(a)
    BY <2>2 DEF Resend
  <2>3. CASE Wake(a) \/ Release(a) \/ Commit(a)
    BY <2>3 DEF Wake, Release, Commit
  <2>4. CASE Count(a) \/ Expire(a)
    BY <2>4 DEF Count, Expire
  <2> QED
    BY <1>5, <2>1, <2>2, <2>3, <2>4 DEF Deliver
<1> QED
  BY <1>1, <1>2, <1>3, <1>4, <1>5

\* So are those of the worker, its end included, and what goes on around the two.
LEMMA OthersAlike ==
  ASSUME TypeOK,
         \/ \E d \in delayed : Take(d)
         \/ Gate \/ PayloadDone \/ \E s \in Subs : Cancel(s) \/ Recheck(s)
         \/ Environment \/ Reap \/ WorkerFault \/ UNCHANGED vars
  PROVE  ReadsAlike
<1> USE DEF TypeOK, TasksTyped, Actors, ReadsAlike, Dispatching, Goto, Drop, dbVars, redisVars,
            streamVars, taskVars, workerVars, histVars, dispatchVars, readVars, boundVars
<1>1. ASSUME NEW d \in delayed, Take(d)
      PROVE  ReadsAlike
  BY <1>1 DEF Take
<1>2. CASE Gate \/ PayloadDone
  BY <1>2 DEF Gate, PayloadDone
<1>3. ASSUME NEW s \in Subs, Cancel(s) \/ Recheck(s)
      PROVE  ReadsAlike
  BY <1>3 DEF Cancel, Recheck
<1>4. CASE Reap \/ WorkerFault
  BY <1>4 DEF Reap, WorkerFault
<1>5. CASE Environment
  <2>1. ASSUME NEW l \in Locs, NEW to \in Statuses, NEW o \in Offers, NEW e \in Epochs,
               Publish(l, to, o, e)
        PROVE  ReadsAlike
    <3>1. \A p \in 1..last : stream'[p] = stream[p]
      BY <2>1, PublishKeepsEvent DEF RedisTyped
    <3> QED BY <2>1, <3>1 DEF Publish
  <2>2. ASSUME NEW s \in Subs, Unsubscribe(s) \/ ChangeTier(s)
        PROVE  ReadsAlike
    BY <2>2 DEF Unsubscribe, ChangeTier
  <2>3. CASE Tick
    BY <2>3 DEF Tick
  <2> QED BY <1>5, <2>1, <2>2, <2>3 DEF Environment
<1>6. CASE UNCHANGED vars
  BY <1>6 DEF vars
<1> QED
  BY <1>1, <1>2, <1>3, <1>4, <1>5, <1>6

\* Before the first crash there is nothing to replay.
LEMMA NothingToReplay ==
  ASSUME FirstLife, ReadPending
  PROVE  crashes # 0
  BY DEF FirstLife, ReadPending

\* Reading: the entries that follow, one by one.
LEMMA ReadingInOrder ==
  ASSUME TypeOK, Tidy, FirstLife, InOrder, ReadPending \/ CaughtUp \/ ReadNew \/ BatchDone
  PROVE  FirstLife' /\ InOrder'
<1> USE DEF TypeOK, TasksTyped, ConsumerTyped, RedisTyped, Actors, Goto, dbVars, redisVars,
            streamVars, taskVars, workerVars, histVars, dispatchVars, readVars, boundVars
<1>1. CASE ReadPending
  BY <1>1, NothingToReplay DEF ReadPending, FirstLife, InOrder
<1>2. CASE CaughtUp
  <2>1. Done' = Done
    BY <1>2 DEF CaughtUp, Done
  <2>2. Followed => Followed'
    BY <1>2, <2>1 DEF CaughtUp, Followed, Latest
  <2>3. \A p \in pel : GivenUp(p)' = GivenUp(p)
    BY <1>2 DEF CaughtUp, GivenUp
  <2> QED
    BY <1>2, <2>2, <2>3 DEF CaughtUp, FirstLife, InOrder
<1>3. CASE BatchDone
  <2>1. Done' = Done
    BY <1>3 DEF BatchDone, Done
  <2>2. Followed => Followed'
    BY <1>3, <2>1 DEF BatchDone, Followed, Latest
  <2>3. \A p \in pel : GivenUp(p)' = GivenUp(p)
    BY <1>3 DEF BatchDone, GivenUp
  <2> QED
    BY <1>3, <2>2, <2>3 DEF BatchDone, FirstLife, InOrder, Dispatching
<1>4. CASE ReadNew
  <2>1. /\ last' \in last..Len(stream) /\ batch' = last + 1..last' /\ pel' = pel \cup batch'
        /\ cur' = cur /\ crashes' = crashes /\ cursor' = ">" /\ stream' = stream
        /\ status' = status /\ pc["consumer"] = "idle" /\ pc'["consumer"] = "next"
    BY <1>4, ConstantsTyped DEF ReadNew, Lesser
  <2>2. FirstLife'
    BY <1>4, <2>1 DEF ReadNew, FirstLife
  <2>3. ASSUME crashes = 0
        PROVE  (\A p \in pel' : ~GivenUp(p)') => Followed'
    <3>1. batch = {} /\ cur = 0
      BY <2>1, <2>3 DEF InOrder, Dispatching
    <3>2. Done' = Done
      BY <2>1, <3>1 DEF Done
    <3>3. \A p \in pel : GivenUp(p)'
      BY <2>1, <3>1 DEF GivenUp
    <3>4. SUFFICES ASSUME \A p \in pel' : ~GivenUp(p)'
                   PROVE  Followed'
      OBVIOUS
    <3>5. pel = {}
      BY <2>1, <3>3, <3>4
    <3>6. Followed
      BY <2>3, <3>5 DEF InOrder
    <3> QED
      BY <2>1, <3>2, <3>6 DEF Followed, Latest
  <2>4. crashes = 0 => cur = 0
    BY <2>1 DEF InOrder, Dispatching
  <2> QED
    BY <2>1, <2>2, <2>3, <2>4 DEF InOrder, Dispatching
<1> QED
  BY <1>1, <1>2, <1>3, <1>4

\* Turning to an entry and marking it.
LEMMA MarkingInOrder ==
  ASSUME TypeOK, Tidy, FirstLife, InOrder, NextEvent \/ SetStatus \/ Ack
  PROVE  FirstLife' /\ InOrder'
<1> USE DEF TypeOK, TasksTyped, ConsumerTyped, RedisTyped, Actors, Goto, dbVars, redisVars,
            streamVars, taskVars, workerVars, histVars, dispatchVars, readVars, boundVars
<1>1. CASE NextEvent
  <2>1. PICK p \in batch : /\ \A q \in batch : p <= q
                           /\ cur' = p /\ batch' = batch \ {p}
    BY <1>1 DEF NextEvent
  <2>2. /\ last' = last /\ pel' = pel /\ status' = status /\ stream' = stream
        /\ cursor' = cursor /\ crashes' = crashes
        /\ pc["consumer"] = "next" /\ pc'["consumer"] = "hset" /\ pc'["worker"] = pc["worker"]
    BY <1>1 DEF NextEvent
  <2>3. FirstLife'
    BY <2>2 DEF FirstLife
  <2>4. ASSUME crashes = 0
        PROVE  (\A r \in pel' : ~GivenUp(r)') => Followed'
    <3>1. cur = 0
      BY <2>2, <2>4 DEF InOrder, Dispatching
    <3>2. Done' = Done
      BY <2>1, <2>2, <3>1 DEF Done
    <3>3. \A r \in pel : GivenUp(r)' = GivenUp(r)
      BY <2>1, <2>2, <3>1 DEF GivenUp
    <3> QED
      BY <2>2, <2>4, <3>2, <3>3 DEF InOrder, Followed, Latest
  <2>5. ASSUME crashes = 0
        PROVE  /\ \A r \in batch', q \in 1..last' : r < q => q \in batch'
               /\ cur' + 1..last' \subseteq batch'
    BY <2>1, <2>2, <2>5 DEF InOrder
  <2> QED
    BY <2>2, <2>3, <2>4, <2>5 DEF InOrder, Dispatching
<1>2. CASE SetStatus
  <2>1. /\ last' = last /\ pel' = pel /\ stream' = stream /\ cursor' = cursor
        /\ crashes' = crashes /\ cur' = cur /\ batch' = batch
        /\ status' = [status EXCEPT ![stream[cur].loc] = stream[cur].to]
        /\ pc["consumer"] = "hset" /\ pc'["consumer"] \in {"select", "ack"}
        /\ pc'["worker"] = pc["worker"]
    BY <1>2 DEF SetStatus, Marked, Event
  <2>2. FirstLife'
    BY <2>1 DEF FirstLife
  <2>3. ASSUME crashes = 0, Followed
        PROVE  Followed'
    <3>1. cur \in 1..last /\ cur \notin batch /\ stream[cur] \in Events
      BY <2>1 DEF Tidy, Dispatching
    <3>2. Done' = Done \cup {cur}
      BY <2>1, <3>1 DEF Done
    <3>3. \A q \in Done : q < cur
      BY <2>1, <2>3, <3>1 DEF InOrder, Done, Dispatching
    <3>4. SUFFICES ASSUME NEW p \in Done', Latest(p)'
                   PROVE  status'[stream[p].loc] = stream[p].to
      BY <2>1 DEF Followed
    <3>5. CASE p = cur
      BY <2>1, <3>1, <3>5 DEF Events
    <3>6. CASE p # cur
      <4>1. p \in Done /\ Latest(p)
        BY <2>1, <3>2, <3>4, <3>6 DEF Latest
      <4>2. stream[cur].loc # stream[p].loc
        BY <2>1, <3>2, <3>3, <3>4, <4>1 DEF Latest
      <4>3. status[stream[p].loc] = stream[p].to
        BY <2>3, <4>1 DEF Followed
      <4> QED
        BY <2>1, <4>2, <4>3, <3>1, <4>1 DEF Done, Events
    <3> QED BY <3>5, <3>6
  <2>4. \A p \in pel : GivenUp(p)' = GivenUp(p)
    BY <2>1 DEF GivenUp
  <2> QED
    BY <2>1, <2>2, <2>3, <2>4 DEF InOrder, Dispatching
<1>3. CASE Ack
  <2>1. /\ last' = last /\ pel' = pel \ {cur} /\ stream' = stream /\ cursor' = cursor
        /\ crashes' = crashes /\ cur' = 0 /\ batch' = batch /\ status' = status
        /\ pc["consumer"] = "ack" /\ pc'["consumer"] = "next"
        /\ pc'["worker"] = pc["worker"]
    BY <1>3 DEF Ack, LeaveDispatch
  <2>2. FirstLife'
    BY <2>1 DEF FirstLife
  <2>3. Done' = Done
    BY <2>1 DEF Done
  <2>4. \A p \in pel : ~GivenUp(p) \/ (p \in pel' /\ GivenUp(p)')
    BY <2>1 DEF GivenUp
  <2> QED
    BY <2>1, <2>2, <2>3, <2>4 DEF InOrder, Dispatching, Followed, Latest
<1> QED
  BY <1>1, <1>2, <1>3

\* An entry whose dispatch is given up stays pending.
LEMMA GivingUpInOrder ==
  ASSUME TypeOK, Tidy, FirstLife, InOrder,
         InsertFails \/ DispatchFault \/ AckFault \/ Crash \/ Restart
  PROVE  FirstLife' /\ InOrder'
<1> USE DEF TypeOK, TasksTyped, ConsumerTyped, RedisTyped, Actors, Goto, dbVars, redisVars,
            streamVars, taskVars, workerVars, histVars, dispatchVars, readVars, boundVars
<1>1. CASE InsertFails \/ DispatchFault \/ AckFault
  <2>1. /\ last' = last /\ pel' = pel /\ stream' = stream /\ cursor' = cursor
        /\ crashes' = crashes /\ cur' = 0 /\ pc["consumer"] \in Dispatching
        /\ \/ batch' = batch /\ pc'["consumer"] = "next"
           \/ batch' = {} /\ pc'["consumer"] = "dead"
        /\ pc'["worker"] = pc["worker"]
    BY <1>1 DEF InsertFails, DispatchFault, AckFault, LeaveDispatch, Dispatching
  <2>2. FirstLife'
    BY <2>1 DEF FirstLife
  <2>3. \E p \in pel' : GivenUp(p)'
    BY <2>1 DEF Tidy, GivenUp
  <2> QED
    BY <2>1, <2>2, <2>3 DEF InOrder, Dispatching
<1>2. CASE Crash
  <2>1. crashes' # 0
    BY <1>2 DEF Crash, HistoryTyped
  <2> QED BY <2>1 DEF FirstLife, InOrder
<1>3. CASE Restart
  <2>1. crashes' # 0
    BY <1>3 DEF Restart, Up, FirstLife
  <2> QED BY <2>1 DEF FirstLife, InOrder
<1> QED
  BY <1>1, <1>2, <1>3

\* Nothing is read at first.
LEMMA InitReading == Init => FirstLife /\ InOrder
<1> SUFFICES ASSUME Init
             PROVE  FirstLife /\ InOrder
  OBVIOUS
<1>1. Done = {}
  BY DEF Init, Done
<1> QED
  BY <1>1 DEF Init, FirstLife, InOrder, Followed, Actors, Dispatching

\* Every step keeps the order.
LEMMA ReadingStep ==
  ASSUME AccountInv, FirstLife, InOrder, [Next]_vars
  PROVE  FirstLife' /\ InOrder'
<1>1. TypeOK /\ Tidy
  BY DEF AccountInv
<1>2. CASE Consume
  BY <1>1, <1>2, DispatchingAlike, ReadsAlikeStep, ReadingInOrder, MarkingInOrder,
     GivingUpInOrder DEF Consume, Actors
<1>3. CASE ServeDelayed
  BY <1>1, <1>3, DispatchingAlike, OthersAlike, ReadsAlikeStep DEF ServeDelayed, Actors
<1>4. CASE Failure \/ Restart
  BY <1>1, <1>4, OthersAlike, ReadsAlikeStep, GivingUpInOrder DEF Failure
<1>5. CASE Environment \/ Reap \/ UNCHANGED vars
  BY <1>1, <1>5, OthersAlike, ReadsAlikeStep
<1> QED
  BY <1>2, <1>3, <1>4, <1>5 DEF Next

\* The stream is read in order in every behaviour.
LEMMA ReadingHolds == Spec => [](AccountInv /\ FirstLife /\ InOrder)
  BY InitReading, ReadingStep, AccountsBalance, PTL DEF Spec

\* Before the first crash the status hash says what the last event of each location said,
\* whatever fails: after it, an event that is replayed overwrites what came later. (An event
\* whose dispatch failed stays pending until then, which StatusIsLatest sets aside.)
THEOREM StatusFollows == Spec => [](crashes = 0 => StatusIsLatest)
<1>1. AccountInv /\ InOrder => (crashes = 0 => StatusIsLatest)
  <2> SUFFICES ASSUME AccountInv, InOrder, crashes = 0, pel = {}
               PROVE  \A p \in 1..last :
                        (\A q \in p + 1..last : stream[q].loc # stream[p].loc) =>
                          status[stream[p].loc] = stream[p].to
    BY DEF StatusIsLatest
  <2>1. Done = 1..last
    BY DEF AccountInv, Tidy, Done, Dispatching
  <2>2. Followed
    BY DEF InOrder
  <2>3. last \in Nat
    BY DEF AccountInv, TypeOK, RedisTyped
  <2> QED
    BY <2>1, <2>2, <2>3 DEF Followed, Latest
<1> QED
  BY <1>1, ReadingHolds, PTL

-----------------------------------------------------------------------------
(* Who keeps the owners of a claim *)

\* A step leaves no claim without an owner that had one, and makes none without.
KeepsOwner(s, e) == Claimed(s, e)' => Owns(s, e)' \/ (Claimed(s, e) /\ ~Owns(s, e))
OwnersKept == \A s \in Subs, e \in Epochs : KeepsOwner(s, e)

\* Reading the stream, looking at the subscriptions and acknowledging: who has to serve
\* somebody goes on.
LEMMA ReadingKeepsOwners ==
  ASSUME TypeOK, Tidy,
         \/ ReadPending \/ CaughtUp \/ ReadNew \/ NextEvent \/ BatchDone \/ Ack
         \/ SetStatus \/ SelectSubs \/ ClaimsDone \/ \E s \in Subs : CheckCooldown(s)
  PROVE  OwnersKept
<1> USE DEF TypeOK, TasksTyped, Tidy, Actors, OwnersKept, KeepsOwner, Owns, Serves, InTodo,
            InQueue, Scheduled, Claimed, InDispatch, InTurn, BeforeMessage, Epoch, Event, Goto,
            Drop, dbVars, redisVars, streamVars, taskVars, workerVars, dispatchVars
<1>1. CASE ReadPending \/ CaughtUp \/ ReadNew \/ BatchDone
  BY <1>1 DEF ReadPending, CaughtUp, ReadNew, BatchDone
<1>2. CASE NextEvent
  BY <1>2 DEF NextEvent
<1>3. CASE Ack
  BY <1>3 DEF Ack, LeaveDispatch
<1>4. CASE SetStatus
  BY <1>4 DEF SetStatus
<1>5. CASE SelectSubs
  BY <1>5 DEF SelectSubs
<1>6. CASE ClaimsDone
  BY <1>6 DEF ClaimsDone
<1>7. ASSUME NEW k \in Subs, CheckCooldown(k)
      PROVE  OwnersKept
  BY <1>7 DEF CheckCooldown
<1> QED
  BY <1>1, <1>2, <1>3, <1>4, <1>5, <1>6, <1>7

\* A new claim is put where its subscription will be served from.
LEMMA ClaimingKeepsOwners ==
  ASSUME TypeOK, Tidy, InsertClaim \/ Enqueue \/ \E s \in Subs : NextPaid(s)
  PROVE  OwnersKept
<1> USE DEF TypeOK, TasksTyped, Tidy, Actors, OwnersKept, KeepsOwner
<1> SUFFICES ASSUME NEW s \in Subs, NEW e \in Epochs, Claimed(s, e)'
             PROVE  Owns(s, e)' \/ (Claimed(s, e) /\ ~Owns(s, e))
  OBVIOUS
<1>1. CASE InsertClaim
  <2>1. /\ pc["consumer"] = "insert" /\ pc' = [pc EXCEPT !["consumer"] = "claim"]
        /\ hand' = [hand EXCEPT !["consumer"] = None] /\ cur' = cur /\ stream' = stream
        /\ delayed' = delayed /\ msg' = msg
        /\ queue \subseteq queue' /\ \A a \in Actors : todo[a] \subseteq todo'[a]
    BY <1>1 DEF InsertClaim, Goto, Drop, redisVars, streamVars, workerVars
  <2>2. Owns(s, e) => Owns(s, e)'
    BY <2>1 DEF Owns, Serves, InTodo, InQueue, Scheduled, InDispatch, InTurn, BeforeMessage,
       Epoch, Event
  <2>3. CASE s = hand["consumer"] /\ e = Event.epoch /\ ~Conflicts(s, e)
    <3>1. s \in queue' \/ s \in todo'["consumer"]
      BY <1>1, <2>3 DEF InsertClaim
    <3>2. pc'["consumer"] = "claim" /\ Event' = Event
      BY <2>1 DEF Event
    <3> QED
      BY <2>3, <3>1, <3>2 DEF Owns, InTodo, InQueue, InDispatch, InTurn, Epoch
  <2>4. CASE ~(s = hand["consumer"] /\ e = Event.epoch /\ ~Conflicts(s, e))
    <3>1. Claimed(s, e)
      BY <1>1, <2>4 DEF InsertClaim, Claimed, IsRow, NewClaim
    <3> QED BY <2>2, <3>1
  <2> QED BY <2>3, <2>4
<1>2. CASE Enqueue
  <2> DEFINE m == [loc |-> Event.loc, epoch |-> Event.epoch, subs |-> queue]
             d == [msg |-> m, due |-> timer]
  <2>1. /\ pc["consumer"] = "deliver" /\ todo["consumer"] = {}
        /\ pc' = [pc EXCEPT !["consumer"] = "ack"]
        /\ hand' = hand /\ todo' = todo /\ cur' = cur /\ stream' = stream /\ msg' = msg
        /\ log' = log
        /\ delayed' = IF queue = {} THEN delayed
                      ELSE {x \in delayed : x.msg # m} \cup {d}
    BY <1>2 DEF Enqueue, Goto, dbVars, streamVars, workerVars, taskVars
  <2>2. Claimed(s, e)
    BY <2>1 DEF Claimed
  <2>3. ASSUME Owns(s, e)
        PROVE  Owns(s, e)'
    <3>1. CASE \E a \in Actors : Serves(a, s, e) \/ InTodo(a, s, e)
      BY <2>1, <3>1 DEF Owns, Serves, InTodo, InTurn, InDispatch, BeforeMessage, Epoch, Event
    <3>2. CASE InQueue(s, e)
      <4>1. d \in delayed' /\ d.msg.epoch = e /\ s \in d.msg.subs
        BY <2>1, <3>2 DEF InQueue
      <4> QED BY <4>1 DEF Owns, Scheduled
    <3>3. CASE Scheduled(s, e) # {}
      <4>1. PICK x \in delayed : x.msg.epoch = e /\ s \in x.msg.subs
        BY <3>3 DEF Scheduled
      <4>2. CASE queue # {} /\ x.msg = m
        <5>1. d \in delayed' /\ d.msg = m
          BY <2>1, <4>2
        <5> QED BY <4>1, <4>2, <5>1 DEF Owns, Scheduled
      <4>3. CASE ~(queue # {} /\ x.msg = m)
        BY <2>1, <4>1, <4>3 DEF Owns, Scheduled
      <4> QED BY <4>2, <4>3
    <3> QED BY <2>3, <3>1, <3>2, <3>3 DEF Owns
  <2> QED BY <2>2, <2>3
<1>3. ASSUME NEW k \in Subs, NextPaid(k)
      PROVE  Owns(s, e)' \/ (Claimed(s, e) /\ ~Owns(s, e))
  BY <1>3 DEF NextPaid, Owns, Serves, InTodo, InQueue, Scheduled, Claimed, InDispatch, InTurn,
     BeforeMessage, Epoch, Event, Goto, dbVars, redisVars, streamVars, workerVars, dispatchVars
<1> QED
  BY <1>1, <1>2, <1>3

\* Who delivers lets go only after the claim is committed or released.
LEMMA DeliveryKeepsOwners ==
  ASSUME TypeOK, Tidy, NEW a \in Actors, Deliver(a)
  PROVE  OwnersKept
<1> USE DEF TypeOK, TasksTyped, Tidy, Actors, OwnersKept, KeepsOwner
<1> SUFFICES ASSUME NEW s \in Subs, NEW e \in Epochs, Claimed(s, e)'
             PROVE  Owns(s, e)' \/ (Claimed(s, e) /\ ~Owns(s, e))
  OBVIOUS
<1>1. CASE Send(a) \/ Resend(a) \/ Wake(a)
  <2>1. /\ pc[a] \in BeforeMessage
        /\ \E w \in BeforeMessage \cup {"commit"} : pc' = [pc EXCEPT ![a] = w]
        /\ hand' = hand /\ todo' = todo /\ queue' = queue /\ cur' = cur /\ stream' = stream
        /\ delayed' = delayed /\ msg' = msg /\ log' = log
    BY <1>1 DEF Send, Resend, Wake, Goto, BeforeMessage, dbVars, redisVars, streamVars, taskVars,
       workerVars, dispatchVars
  <2> QED
    BY <2>1 DEF Owns, Serves, InTodo, InQueue, Scheduled, Claimed, InDispatch, InTurn,
       BeforeMessage, Epoch, Event
<1>2. CASE Release(a) \/ Commit(a)
  <2>1. /\ pc[a] \in {"release", "commit"}
        /\ \E w \in {"deliver", "count"} : pc' = [pc EXCEPT ![a] = w]
        /\ \A b \in Actors : b # a => hand'[b] = hand[b]
        /\ todo' = todo /\ queue' = queue /\ cur' = cur /\ stream' = stream
        /\ delayed' = delayed /\ msg' = msg
    BY <1>2 DEF Release, Commit, Drop, Goto, dbVars, redisVars, streamVars, taskVars, workerVars,
       dispatchVars
  <2>2. Claimed(s, e) /\ ~(s = hand[a] /\ e = Epoch(a))
    <3>1. CASE Release(a)
      BY <3>1 DEF Release, Released, Claimed, IsRow
    <3>2. CASE Commit(a)
      BY <3>2 DEF Commit, Claimed, IsRow, TablesTyped, Rows
    <3> QED BY <1>2, <3>1, <3>2
  <2> QED
    BY <2>1, <2>2 DEF Owns, Serves, InTodo, InQueue, Scheduled, InDispatch, InTurn,
       BeforeMessage, Epoch, Event
<1>3. CASE Count(a) \/ Expire(a)
  <2>1. /\ pc[a] \in {"count", "expire"}
        /\ \E w \in {"deliver", "expire"} : pc' = [pc EXCEPT ![a] = w]
        /\ \A b \in Actors : b # a => hand'[b] = hand[b]
        /\ todo' = todo /\ queue' = queue /\ cur' = cur /\ stream' = stream
        /\ delayed' = delayed /\ msg' = msg /\ log' \subseteq log
    BY <1>3 DEF Count, Expire, DeleteSub, Drop, Goto, dbVars, redisVars, streamVars, taskVars,
       workerVars, dispatchVars
  <2> QED
    BY <2>1 DEF Owns, Serves, InTodo, InQueue, Scheduled, Claimed, InDispatch, InTurn,
       BeforeMessage, Epoch, Event
<1> QED
  BY <1>1, <1>2, <1>3 DEF Deliver

\* The worker: a subscription it passes over is gone, and its claims with it.
LEMMA WorkerKeepsOwners ==
  ASSUME TypeOK, Tidy, RowsLive,
         \/ \E d \in delayed : Take(d)
         \/ Gate \/ PayloadDone \/ \E s \in Subs : Cancel(s) \/ Recheck(s)
  PROVE  OwnersKept
<1> USE DEF TypeOK, TasksTyped, Tidy, Actors, OwnersKept, KeepsOwner
<1> SUFFICES ASSUME NEW s \in Subs, NEW e \in Epochs, Claimed(s, e)'
             PROVE  Owns(s, e)' \/ (Claimed(s, e) /\ ~Owns(s, e))
  OBVIOUS
<1>1. ASSUME NEW d \in delayed, Take(d)
      PROVE  Owns(s, e)' \/ (Claimed(s, e) /\ ~Owns(s, e))
  <2>1. /\ pc["worker"] = "idle" /\ pc' = [pc EXCEPT !["worker"] = "gate"]
        /\ delayed' = delayed \ {d} /\ msg' = d.msg
        /\ todo' = [todo EXCEPT !["worker"] = d.msg.subs]
        /\ hand' = hand /\ queue' = queue /\ cur' = cur /\ stream' = stream /\ log' = log
    BY <1>1 DEF Take, Goto, dbVars, streamVars, dispatchVars
  <2>2. Claimed(s, e)
    BY <2>1 DEF Claimed
  <2>3. ASSUME d \in Scheduled(s, e)
        PROVE  Owns(s, e)'
    <3>1. pc'["worker"] = "gate" /\ s \in todo'["worker"] /\ msg'.epoch = e
      BY <2>1, <2>3 DEF Scheduled
    <3> QED BY <3>1 DEF Owns, InTodo, InTurn, Epoch
  <2>4. ASSUME d \notin Scheduled(s, e), Owns(s, e)
        PROVE  Owns(s, e)'
    BY <2>1, <2>4 DEF Owns, Serves, InTodo, InQueue, Scheduled, InDispatch, InTurn,
       BeforeMessage, Epoch, Event
  <2> QED BY <2>2, <2>3, <2>4
<1>2. CASE Gate \/ PayloadDone
  BY <1>2 DEF Gate, PayloadDone, Owns, Serves, InTodo, InQueue, Scheduled, Claimed, InDispatch,
     InTurn, BeforeMessage, Epoch, Event, Goto, dbVars, redisVars, streamVars, taskVars,
     dispatchVars
<1>3. ASSUME NEW k \in Subs, Cancel(k)
      PROVE  Owns(s, e)' \/ (Claimed(s, e) /\ ~Owns(s, e))
  <2>1. Claimed(s, e) /\ ~(s = k /\ e = msg.epoch)
    BY <1>3 DEF Cancel, Released, Claimed, IsRow
  <2> QED
    BY <1>3, <2>1 DEF Cancel, Owns, Serves, InTodo, InQueue, Scheduled, InDispatch, InTurn,
       BeforeMessage, Epoch, Event, redisVars, streamVars, workerVars, dispatchVars
<1>4. ASSUME NEW k \in Subs, Recheck(k)
      PROVE  Owns(s, e)' \/ (Claimed(s, e) /\ ~Owns(s, e))
  <2>1. Claimed(s, e) /\ s \in live
    BY <1>4 DEF Recheck, Claimed, IsRow, RowsLive, dbVars
  <2>2. CASE k = s
    BY <1>4, <2>1, <2>2 DEF Recheck, Owns, Serves, InTodo, InQueue, Scheduled, InDispatch, InTurn,
       BeforeMessage, Epoch, Event, Goto, redisVars, streamVars, workerVars, dispatchVars
  <2>3. CASE k # s
    BY <1>4, <2>1, <2>3 DEF Recheck, Owns, Serves, InTodo, InQueue, Scheduled, InDispatch, InTurn,
       BeforeMessage, Epoch, Event, Goto, redisVars, streamVars, workerVars, dispatchVars
  <2> QED BY <2>2, <2>3
<1> QED
  BY <1>1, <1>2, <1>3, <1>4

\* What goes on around the two tasks only deletes claims.
LEMMA OthersKeepOwners ==
  ASSUME TypeOK, Tidy, Environment \/ Reap \/ UNCHANGED vars
  PROVE  OwnersKept
<1> USE DEF TypeOK, TasksTyped, Tidy, Actors, OwnersKept, KeepsOwner
<1> SUFFICES ASSUME NEW s \in Subs, NEW e \in Epochs, Claimed(s, e)'
             PROVE  Owns(s, e)' \/ (Claimed(s, e) /\ ~Owns(s, e))
  OBVIOUS
<1>1. CASE Environment /\ ~Tick
  <2>1. /\ pc' = pc /\ hand' = hand /\ todo' = todo /\ queue' = queue /\ delayed' = delayed
        /\ msg' = msg /\ cur' = cur /\ log' \subseteq log
    BY <1>1 DEF Environment, Publish, Unsubscribe, ChangeTier, DeleteSub, dbVars, redisVars,
       taskVars, workerVars, dispatchVars
  <2>2. pc["consumer"] \in InTurn \cup {"commit"} => Event' = Event
    <3>1. CASE \E l \in Locs, to \in Statuses, o \in Offers, e1 \in Epochs : Publish(l, to, o, e1)
      <4>1. pc["consumer"] \in InTurn \cup {"commit"} => cur \in 1..Len(stream)
        BY DEF InTurn, InDispatch, ConsumerTyped, ConsumerPcs, Dispatching, RedisTyped
      <4> QED BY <2>1, <3>1, <4>1, PublishKeepsEvent DEF Event
    <3>2. CASE \E k \in Subs : Unsubscribe(k) \/ ChangeTier(k)
      BY <2>1, <3>2 DEF Unsubscribe, ChangeTier, Event, redisVars, streamVars
    <3> QED BY <1>1, <3>1, <3>2 DEF Environment
  <2>3. Claimed(s, e)
    BY <2>1 DEF Claimed
  <2>4. Owns(s, e) => Owns(s, e)'
    BY <2>1, <2>2 DEF Owns, Serves, InTodo, InQueue, Scheduled, InDispatch, InTurn,
       BeforeMessage, Epoch
  <2> QED BY <2>3, <2>4
<1>2. CASE Tick
  <2>1. /\ pc' = pc /\ hand' = hand /\ todo' = todo /\ queue' = queue
        /\ msg' = msg /\ cur' = cur /\ stream' = stream /\ log' = {Older(r) : r \in log}
        /\ delayed' = {[d EXCEPT !.due = IF @ = 0 THEN 0 ELSE @ - 1] : d \in delayed}
    BY <1>2 DEF Tick, streamVars, workerVars
  <2>2. Claimed(s, e)
    BY <2>1, OlderTyped DEF TablesTyped, Claimed, IsRow
  <2>3. Scheduled(s, e) # {} => Scheduled(s, e)' # {}
    <3> SUFFICES ASSUME NEW d \in Scheduled(s, e)
                 PROVE  Scheduled(s, e)' # {}
      OBVIOUS
    <3> DEFINE x == [d EXCEPT !.due = IF @ = 0 THEN 0 ELSE @ - 1]
    <3>1. d \in delayed /\ d.msg.epoch = e /\ s \in d.msg.subs
      BY DEF Scheduled
    <3>2. x.msg = d.msg
      BY <3>1 DEF RedisTyped, Entries
    <3>3. x \in delayed'
      BY <2>1, <3>1
    <3> QED BY <3>1, <3>2, <3>3 DEF Scheduled
  <2>4. Owns(s, e) => Owns(s, e)'
    BY <2>1, <2>3 DEF Owns, Serves, InTodo, InQueue, Epoch, Event
  <2> QED BY <2>2, <2>4
<1>3. CASE Reap \/ UNCHANGED vars
  <2>1. /\ pc' = pc /\ hand' = hand /\ todo' = todo /\ queue' = queue /\ delayed' = delayed
        /\ msg' = msg /\ cur' = cur /\ stream' = stream /\ log' \subseteq log
    BY <1>3 DEF Reap, vars, dbVars, redisVars, streamVars, taskVars, workerVars, dispatchVars
  <2> QED
    BY <2>1 DEF Owns, Serves, InTodo, InQueue, Scheduled, Claimed, Epoch, Event
<1> QED
  BY <1>1, <1>2, <1>3

\* An entry that was given up before the first crash stays so.
SkippedKept == crashes' = 0 => \A p \in pel : GivenUp(p) => p \in pel' /\ GivenUp(p)'

\* Only a step that reads the stream could forget it, and none does.
LEMMA SkippedStays ==
  ASSUME TypeOK, Tidy, FirstLife, [Next]_vars
  PROVE  SkippedKept
<1> USE DEF TypeOK, TasksTyped, ConsumerTyped, RedisTyped, SkippedKept, GivenUp
<1>1. CASE ReadsAlike
  BY <1>1 DEF ReadsAlike
<1>2. CASE ReadPending
  <2>1. crashes # 0 /\ crashes' = crashes
    BY <1>2, NothingToReplay DEF ReadPending, boundVars
  <2> QED BY <2>1
<1>3. CASE CaughtUp \/ BatchDone \/ SetStatus
  BY <1>3 DEF CaughtUp, BatchDone, SetStatus, redisVars, streamVars, dispatchVars, readVars
<1>4. CASE ReadNew
  <2>1. last' \in Nat /\ batch' = last + 1..last' /\ pel' = pel \cup batch' /\ cur' = cur
    BY <1>4, ConstantsTyped DEF ReadNew, Lesser, dispatchVars
  <2> QED BY <2>1
<1>5. CASE NextEvent
  BY <1>5 DEF NextEvent, redisVars, streamVars
<1>6. CASE Ack \/ InsertFails \/ DispatchFault
  BY <1>6 DEF Ack, InsertFails, DispatchFault, LeaveDispatch, redisVars, streamVars, readVars
<1>7. CASE AckFault
  BY <1>7 DEF AckFault, redisVars, streamVars
<1>8. CASE Crash
  BY <1>8 DEF Crash, HistoryTyped
<1>9. CASE Restart
  BY <1>9 DEF Restart, Up, FirstLife, boundVars, Actors
<1>10. CASE Consume
  BY <1>10, <1>1, <1>2, <1>3, <1>4, <1>5, <1>6, DispatchingAlike DEF Consume, Actors
<1>11. CASE ServeDelayed
  BY <1>11, <1>1, DispatchingAlike, OthersAlike DEF ServeDelayed, Actors
<1>12. CASE Failure
  BY <1>12, <1>1, <1>6, <1>7, <1>8, OthersAlike DEF Failure
<1> QED
  BY <1>1, <1>9, <1>10, <1>11, <1>12, OthersAlike DEF Next

\* Its event is still that of the epoch.
LEMMA StreamGrows ==
  ASSUME TypeOK, [Next]_vars, NEW p \in 1..last
  PROVE  stream'[p] = stream[p]
<1>1. CASE \E l \in Locs, to \in Statuses, o \in Offers, e \in Epochs : Publish(l, to, o, e)
  BY <1>1, PublishKeepsEvent DEF TypeOK, RedisTyped
<1>2. CASE stream' = stream
  BY <1>2
<1>3. CASE \E s \in Subs : Unsubscribe(s) \/ ChangeTier(s)
  BY <1>3, <1>2 DEF Unsubscribe, ChangeTier, redisVars, streamVars
<1>4. CASE Tick \/ Reap \/ Restart \/ UNCHANGED vars
  BY <1>4, <1>2 DEF Tick, Reap, Restart, vars, redisVars, streamVars
<1>5. CASE Failure
  BY <1>5, <1>2 DEF Failure, DispatchFault, AckFault, WorkerFault, Crash, redisVars, streamVars
<1>6. ASSUME NEW a \in Actors, Deliver(a)
      PROVE  stream' = stream
  BY <1>6 DEF Deliver, Send, Wake, Resend, Release, Commit, Count, Expire, redisVars, streamVars
<1>7. CASE Consume
  <2>1. CASE \/ ReadPending \/ CaughtUp \/ ReadNew \/ NextEvent \/ BatchDone \/ Ack \/ SetStatus
    BY <2>1, <1>2 DEF ReadPending, CaughtUp, ReadNew, NextEvent, BatchDone, Ack, SetStatus,
       redisVars, streamVars
  <2>2. CASE \/ SelectSubs \/ InsertClaim \/ InsertFails \/ ClaimsDone \/ Enqueue
             \/ \E s \in Subs : CheckCooldown(s) \/ NextPaid(s)
    BY <2>2, <1>2 DEF SelectSubs, InsertClaim, InsertFails, ClaimsDone, Enqueue, CheckCooldown,
       NextPaid, redisVars, streamVars
  <2> QED
    BY <1>2, <1>6, <1>7, <2>1, <2>2 DEF Consume, Actors
<1>8. CASE ServeDelayed
  BY <1>2, <1>6, <1>8 DEF ServeDelayed, Take, Gate, PayloadDone, Cancel, Recheck, redisVars,
     streamVars, Actors
<1> QED
  BY <1>1, <1>3, <1>4, <1>5, <1>7, <1>8 DEF Next, Environment

\* A dispatch that is given up leaves its entry behind, which answers for its claims.
LEMMA GivingUpAnswers ==
  ASSUME TypeOK, Tidy, InsertFails \/ DispatchFault \/ AckFault,
         NEW s \in Subs, NEW e \in Epochs, Claimed(s, e)'
  PROVE  Claimed(s, e) /\ (Owns(s, e) => Owns(s, e)' \/ Skipped(e)')
<1> USE DEF TypeOK, TasksTyped, RedisTyped, Tidy, Actors
<1>1. /\ pc["consumer"] \in Dispatching /\ cur \in pel /\ pel' = pel /\ cur' = 0
      /\ batch' \subseteq batch /\ stream' = stream /\ log' = log /\ delayed' = delayed
      /\ msg' = msg /\ last' = last /\ pc'["worker"] = pc["worker"]
      /\ hand'["worker"] = hand["worker"] /\ todo'["worker"] = todo["worker"]
  BY DEF InsertFails, DispatchFault, AckFault, LeaveDispatch, Dispatching, Goto, Drop, dbVars,
     redisVars, streamVars, taskVars, readVars, workerVars
<1>2. CASE Serves("worker", s, e) \/ InTodo("worker", s, e) \/ Scheduled(s, e) # {}
  BY <1>1, <1>2 DEF Owns, Serves, InTodo, Scheduled, Claimed, Epoch
<1>3. CASE Serves("consumer", s, e) \/ InTodo("consumer", s, e) \/ InQueue(s, e)
  <2>1. stream[cur].epoch = e
    BY <1>3 DEF Serves, InTodo, InQueue, Epoch, Event
  <2>2. \E p \in 1..last' : GivenUp(p)' /\ stream'[p].epoch = e
    BY <1>1, <2>1 DEF GivenUp
  <2> QED BY <1>1, <2>2 DEF Skipped, Claimed
<1>4. Claimed(s, e)
  BY <1>1 DEF Claimed
<1> QED
  BY <1>2, <1>3, <1>4 DEF Owns

\* The rows of the log are of subscriptions that exist: the foreign key cascades.
LEMMA RowsStayLive ==
  ASSUME TypeOK, RowsLive, [Next]_vars
  PROVE  RowsLive'
<1> USE DEF TypeOK, TablesTyped, RowsLive, dbVars
<1>1. CASE live' = live /\ log' \subseteq log
  BY <1>1
<1>2. ASSUME NEW s \in Subs, DeleteSub(s)
      PROVE  RowsLive'
  BY <1>2 DEF DeleteSub
<1>3. CASE InsertClaim
  BY <1>3 DEF InsertClaim, NewClaim
<1>4. ASSUME NEW a \in Actors, Deliver(a)
      PROVE  RowsLive'
  <2>1. CASE Send(a) \/ Wake(a) \/ Resend(a) \/ Release(a) \/ Count(a)
    BY <1>1, <2>1 DEF Send, Wake, Resend, Release, Released, Count
  <2>2. CASE Commit(a)
    BY <2>2 DEF Commit, Rows
  <2>3. CASE Expire(a)
    <3>1. hand[a] \in Subs
      BY <2>3, HandTyped DEF Expire, Holding
    <3> QED BY <1>2, <2>3, <3>1 DEF Expire
  <2> QED BY <1>4, <2>1, <2>2, <2>3 DEF Deliver
<1>5. CASE Environment
  <2>1. ASSUME NEW s \in Subs, Unsubscribe(s)
        PROVE  RowsLive'
    BY <1>2, <2>1 DEF Unsubscribe
  <2>2. CASE Tick
    BY <2>2, OlderTyped DEF Tick
  <2>3. CASE \/ \E l \in Locs, to \in Statuses, o \in Offers, e \in Epochs : Publish(l, to, o, e)
             \/ \E s \in Subs : ChangeTier(s)
    BY <1>1, <2>3 DEF Publish, ChangeTier
  <2> QED BY <1>5, <2>1, <2>2, <2>3 DEF Environment
<1>6. CASE Consume
  <2>1. CASE \/ ReadPending \/ CaughtUp \/ ReadNew \/ NextEvent \/ BatchDone \/ Ack \/ SetStatus
    BY <2>1, <1>1 DEF ReadPending, CaughtUp, ReadNew, NextEvent, BatchDone, Ack, SetStatus
  <2>2. CASE \/ SelectSubs \/ InsertFails \/ ClaimsDone \/ Enqueue
             \/ \E s \in Subs : CheckCooldown(s) \/ NextPaid(s)
    BY <2>2, <1>1 DEF SelectSubs, InsertFails, ClaimsDone, Enqueue, CheckCooldown, NextPaid
  <2> QED
    BY <1>3, <1>4, <1>6, <2>1, <2>2 DEF Consume, Actors
<1>7. CASE ServeDelayed
  BY <1>1, <1>4, <1>7 DEF ServeDelayed, Take, Gate, PayloadDone, Cancel, Released, Recheck, Actors
<1>8. CASE Failure \/ Restart \/ Reap \/ UNCHANGED vars
  BY <1>1, <1>8 DEF Failure, DispatchFault, AckFault, WorkerFault, Crash, Restart, Reap, vars
<1> QED
  BY <1>5, <1>6, <1>7, <1>8 DEF Next

\* A subscription that is deleted does not come back.
LEMMA LiveShrinks ==
  ASSUME TypeOK, [Next]_vars
  PROVE  live' \subseteq live
<1> USE DEF dbVars
<1>1. ASSUME NEW a \in Actors, Deliver(a)
      PROVE  live' \subseteq live
  BY <1>1 DEF Deliver, Send, Wake, Resend, Release, Commit, Count, Expire, DeleteSub
<1>2. CASE Consume
  <2>1. CASE \/ ReadPending \/ CaughtUp \/ ReadNew \/ NextEvent \/ BatchDone \/ Ack \/ SetStatus
    BY <2>1 DEF ReadPending, CaughtUp, ReadNew, NextEvent, BatchDone, Ack, SetStatus
  <2>2. CASE \/ SelectSubs \/ InsertClaim \/ InsertFails \/ ClaimsDone \/ Enqueue
             \/ \E s \in Subs : CheckCooldown(s) \/ NextPaid(s)
    BY <2>2 DEF SelectSubs, InsertClaim, InsertFails, ClaimsDone, Enqueue, CheckCooldown, NextPaid
  <2> QED
    BY <1>1, <1>2, <2>1, <2>2 DEF Consume, Actors
<1>3. CASE ServeDelayed
  BY <1>1, <1>3 DEF ServeDelayed, Take, Gate, PayloadDone, Cancel, Recheck, Actors
<1>4. CASE Environment
  BY <1>4 DEF Environment, Publish, Unsubscribe, DeleteSub, ChangeTier, Tick
<1>5. CASE Failure \/ Restart \/ Reap \/ UNCHANGED vars
  BY <1>5 DEF Failure, DispatchFault, AckFault, WorkerFault, Crash, Restart, Reap, vars
<1> QED
  BY <1>2, <1>3, <1>4, <1>5 DEF Next

\* Which steps keep the owners, and which do not.
LEMMA WhoKeepsOwners ==
  ASSUME TypeOK, Tidy, RowsLive, [Next]_vars
  PROVE  \/ OwnersKept
         \/ InsertFails \/ DispatchFault \/ AckFault \/ WorkerFault \/ Crash \/ Restart
<1>1. CASE Consume
  BY <1>1, ReadingKeepsOwners, ClaimingKeepsOwners, DeliveryKeepsOwners DEF Consume, Actors
<1>2. CASE ServeDelayed
  BY <1>2, WorkerKeepsOwners, DeliveryKeepsOwners DEF ServeDelayed, Actors
<1>3. CASE Environment \/ Reap \/ UNCHANGED vars
  BY <1>3, OthersKeepOwners
<1> QED
  BY <1>1, <1>2, <1>3 DEF Next, Failure

\* A step that fails counts itself; a dead worker stays dead until the process is started again.
LEMMA FailuresCounted ==
  ASSUME TypeOK, FirstLife, [Next]_vars, crashes' = 0
  PROVE  /\ crashes = 0 /\ ~Crash /\ ~Restart
         /\ pc["worker"] = "dead" => pc'["worker"] = "dead"
         /\ WorkerFault => pc'["worker"] = "dead"
         /\ faults' = 0 => faults = 0 /\ ~DispatchFault /\ ~AckFault /\ ~WorkerFault
<1> USE DEF TypeOK, TasksTyped, HistoryTyped, Actors
<1>1. crashes = 0 /\ ~Crash /\ ~Restart
  <2>1. ~Crash
    BY DEF Crash
  <2>2. crashes = 0
    <3>1. CASE Consume
      <4>1. CASE \E a \in Actors : Deliver(a)
        BY <4>1 DEF Deliver, Send, Wake, Resend, Release, Commit, Count, Expire, boundVars
      <4>2. CASE \/ ReadPending \/ CaughtUp \/ ReadNew \/ NextEvent \/ BatchDone \/ Ack
                 \/ SetStatus \/ SelectSubs \/ InsertClaim \/ InsertFails \/ ClaimsDone
                 \/ Enqueue \/ \E s \in Subs : CheckCooldown(s) \/ NextPaid(s)
        BY <4>2 DEF ReadPending, CaughtUp, ReadNew, NextEvent, BatchDone, Ack, SetStatus,
           SelectSubs, InsertClaim, InsertFails, ClaimsDone, Enqueue, CheckCooldown, NextPaid,
           boundVars
      <4> QED BY <3>1, <4>1, <4>2 DEF Consume
    <3>2. CASE ServeDelayed \/ Environment \/ Reap \/ UNCHANGED vars \/ WorkerFault
      BY <3>2, DispatchingAlike, OthersAlike DEF ServeDelayed, ReadsAlike
    <3>3. CASE DispatchFault \/ AckFault \/ Restart
      BY <3>3 DEF DispatchFault, AckFault, Restart, boundVars
    <3> QED BY <2>1, <3>1, <3>2, <3>3 DEF Next, Failure
  <2>3. ~Restart
    BY <2>2 DEF FirstLife, Restart, Up
  <2> QED BY <2>1, <2>2, <2>3
<1>2. WorkerFault => pc'["worker"] = "dead"
  BY DEF WorkerFault, Goto
<1>3. pc["worker"] = "dead" => pc'["worker"] = "dead"
  <2> SUFFICES ASSUME pc["worker"] = "dead"
               PROVE  pc'["worker"] = "dead"
    OBVIOUS
  <2>1. CASE Consume
    <3>1. CASE Deliver("consumer")
      BY <3>1 DEF Deliver, Send, Wake, Resend, Release, Commit, Count, Expire, Goto
    <3>2. CASE \/ ReadPending \/ CaughtUp \/ ReadNew \/ NextEvent \/ BatchDone \/ Ack
               \/ SetStatus \/ SelectSubs \/ InsertClaim \/ InsertFails \/ ClaimsDone
               \/ Enqueue \/ \E s \in Subs : CheckCooldown(s) \/ NextPaid(s)
      BY <3>2 DEF ReadPending, CaughtUp, ReadNew, NextEvent, BatchDone, Ack, SetStatus,
         SelectSubs, InsertClaim, InsertFails, ClaimsDone, Enqueue, CheckCooldown, NextPaid,
         LeaveDispatch, Goto
    <3> QED BY <2>1, <3>1, <3>2 DEF Consume
  <2>2. CASE ServeDelayed
    BY <2>2 DEF ServeDelayed, Take, Gate, PayloadDone, Cancel, Recheck, Deliver, Send, Wake,
       Resend, Release, Commit, Count, Expire
  <2>3. CASE Environment \/ Reap \/ UNCHANGED vars
    BY <2>3 DEF Environment, Publish, Unsubscribe, ChangeTier, Tick, Reap, vars
  <2>4. CASE DispatchFault \/ AckFault \/ WorkerFault
    BY <2>4 DEF DispatchFault, AckFault, WorkerFault, LeaveDispatch, Goto
  <2> QED BY <1>1, <2>1, <2>2, <2>3, <2>4 DEF Next, Failure
<1>4. faults' = 0 => faults = 0 /\ ~DispatchFault /\ ~AckFault /\ ~WorkerFault
  <2> SUFFICES ASSUME faults' = 0
               PROVE  faults = 0 /\ ~DispatchFault /\ ~AckFault /\ ~WorkerFault
    OBVIOUS
  <2>1. ~DispatchFault /\ ~AckFault /\ ~WorkerFault
    BY DEF DispatchFault, AckFault, WorkerFault, Fault
  <2> SUFFICES faults = 0
    BY <2>1
  <2>2. ASSUME NEW a \in Actors, Deliver(a)
        PROVE  faults = 0
    <3>1. faults' \in {faults, faults + 1}
      BY <2>2 DEF Deliver, Send, Wake, Resend, Release, Commit, Count, Expire, boundVars,
         AcceptedUnseen, NotAccepted
    <3> QED BY <3>1
  <2>3. CASE Consume
    <3>1. CASE \/ ReadPending \/ CaughtUp \/ ReadNew \/ NextEvent \/ BatchDone \/ Ack
               \/ SetStatus \/ SelectSubs \/ InsertClaim \/ InsertFails \/ ClaimsDone
               \/ Enqueue \/ \E s \in Subs : CheckCooldown(s) \/ NextPaid(s)
      BY <3>1 DEF ReadPending, CaughtUp, ReadNew, NextEvent, BatchDone, Ack, SetStatus,
         SelectSubs, InsertClaim, InsertFails, ClaimsDone, Enqueue, CheckCooldown, NextPaid,
         boundVars
    <3> QED BY <2>2, <2>3, <3>1 DEF Consume
  <2>4. CASE ServeDelayed
    BY <2>2, <2>4 DEF ServeDelayed, Take, Gate, PayloadDone, Cancel, Recheck, boundVars
  <2>5. CASE Environment \/ Reap \/ UNCHANGED vars
    BY <2>5 DEF Environment, Publish, Unsubscribe, ChangeTier, Tick, Reap, vars, boundVars
  <2> QED BY <1>1, <2>1, <2>3, <2>4, <2>5 DEF Next, Failure
<1> QED
  BY <1>1, <1>2, <1>3, <1>4

\* Who has an owner keeps one, and who was given up stays known.
LEMMA ClaimStep ==
  ASSUME TypeOK, Tidy, ClaimInv, [Next]_vars
  PROVE  RowsLive' /\ ClaimsAnswered' /\ ClaimsOwned'
<1> USE DEF ClaimInv
<1>1. RowsLive'
  BY RowsStayLive
<1>2. ASSUME crashes' = 0, pc'["worker"] # "dead",
             NEW s \in Subs, NEW e \in Epochs, Claimed(s, e)'
      PROVE  Owns(s, e)' \/ Skipped(e)'
  <2>1. crashes = 0 /\ pc["worker"] # "dead" /\ ~WorkerFault /\ ~Crash /\ ~Restart
    BY <1>2, FailuresCounted
  <2>2. Skipped(e) => Skipped(e)'
    <3> SUFFICES ASSUME NEW p \in 1..last, GivenUp(p), stream[p].epoch = e
                 PROVE  Skipped(e)'
      BY DEF Skipped
    <3>1. p \in pel' /\ GivenUp(p)' /\ stream'[p].epoch = e
      BY <1>2, SkippedStays, StreamGrows DEF SkippedKept, GivenUp
    <3>2. p \in 1..last'
      BY <3>1, StepTyped DEF TypeOK, RedisTyped
    <3> QED BY <3>1, <3>2 DEF Skipped
  <2>3. CASE OwnersKept
    BY <1>2, <2>1, <2>2, <2>3 DEF OwnersKept, KeepsOwner, ClaimsAnswered
  <2>4. CASE InsertFails \/ DispatchFault \/ AckFault
    BY <1>2, <2>1, <2>2, <2>4, GivingUpAnswers DEF ClaimsAnswered
  <2> QED BY <2>1, <2>3, <2>4, WhoKeepsOwners
<1>3. ASSUME crashes' = 0, faults' = 0, live' = Subs,
             NEW s \in Subs, NEW e \in Epochs, Claimed(s, e)'
      PROVE  Owns(s, e)'
  <2>1. /\ crashes = 0 /\ faults = 0
        /\ ~Crash /\ ~Restart /\ ~DispatchFault /\ ~AckFault /\ ~WorkerFault
    BY <1>3, FailuresCounted
  <2>2. live = Subs
    BY <1>3, LiveShrinks DEF TypeOK, TablesTyped
  <2>3. ~InsertFails
    BY <2>2, HandTyped DEF InsertFails, Holding, Actors
  <2>4. OwnersKept
    BY <2>1, <2>3, WhoKeepsOwners
  <2> QED
    BY <1>3, <2>1, <2>2, <2>4 DEF OwnersKept, KeepsOwner, ClaimsOwned
<1> QED
  BY <1>1, <1>2, <1>3 DEF ClaimsAnswered, ClaimsOwned

\* No row is claimed at first.
LEMMA InitClaims == Init => ClaimInv
  BY DEF Init, ClaimInv, RowsLive, FirstLife, ClaimsAnswered, ClaimsOwned, Claimed, Actors

\* The claims are answered for in every behaviour.
LEMMA ClaimsHold == Spec => [](AccountInv /\ FirstLife /\ InOrder /\ ClaimInv)
<1>1. AccountInv /\ FirstLife /\ InOrder /\ ClaimInv /\ [Next]_vars => ClaimInv'
  BY ClaimStep, ReadingStep DEF AccountInv, ClaimInv
<1> QED
  BY <1>1, InitClaims, ReadingHolds, AccountsBalance, PTL DEF Spec

\* An owner in the sense of the proof is one in that of the properties.
LEMMA OwnersKnown ==
  ASSUME TypeOK, NEW s \in Subs, NEW e \in Epochs, Owns(s, e)
  PROVE  Owned(s, e)
<1>1. ASSUME NEW a \in Actors, Serves(a, s, e) \/ InTodo(a, s, e)
      PROVE  Holds(a, s, e)
  BY <1>1 DEF Serves, InTodo, Holds, InTurn, InDispatch, BeforeMessage
<1>2. InQueue(s, e) => Holds("consumer", s, e)
  BY DEF InQueue, Holds, InDispatch, Epoch
<1> QED
  BY <1>1, <1>2 DEF Owns, Owned, Scheduled, Actors

\* Before the first crash, and while the delayed worker lives, a claim is in the hands of a task
\* or in a payload, or the event it is for is still unacknowledged: whatever raises in a
\* dispatch, and whoever deletes a subscription meanwhile (notifier.py:715-722, 740-746).
THEOREM ClaimsAreKnown ==
  Spec => [](crashes = 0 /\ pc["worker"] # "dead" => EveryClaimKnown)
<1>1. AccountInv /\ ClaimInv => (crashes = 0 /\ pc["worker"] # "dead" => EveryClaimKnown)
  <2> SUFFICES ASSUME AccountInv, ClaimInv, crashes = 0, pc["worker"] # "dead",
                      NEW s \in Subs, NEW e \in Epochs, Claimed(s, e)
               PROVE  Owned(s, e) \/ \E p \in pel : stream[p].epoch = e
    BY DEF EveryClaimKnown
  <2>1. Owns(s, e) \/ Skipped(e)
    BY DEF ClaimInv, ClaimsAnswered
  <2> QED
    BY <2>1, OwnersKnown DEF Skipped, GivenUp, AccountInv
<1> QED
  BY <1>1, ClaimsHold, PTL

\* As long as no subscription has been deleted, no claim is orphaned but by a crash or by a call
\* that fails: what EveryClaimOwned says. (A deletion between the SELECT of a dispatch
\* and its INSERT orphans the claims of the others, notifier.py:306-319.)
THEOREM ClaimsAreOwned == Spec => [](live = Subs => EveryClaimOwned)
<1>1. AccountInv /\ ClaimInv => (live = Subs => EveryClaimOwned)
  BY OwnersKnown DEF AccountInv, ClaimInv, ClaimsOwned, EveryClaimOwned
<1> QED
  BY <1>1, ClaimsHold, PTL

-----------------------------------------------------------------------------
(* The limit of alerts *)

\* A task has claimed the subscription in hand, or taken it from a payload.
Has(a, s) == pc[a] \in Holding \ {"insert"} /\ hand[a] = s

\* A subscription is served by the consumer if it was paid when it was selected, by the
\* worker if it was free.
PaidLane(s) == s \in todo["consumer"] \/ Has("consumer", s)
FreeLane(s) ==
  \/ s \in queue \/ s \in todo["worker"] \/ Has("worker", s)
  \/ \E d \in delayed : s \in d.msg.subs

\* Nobody is in both lanes, and nobody twice in the consumer's, as long as no tier goes up.
LanesApart ==
  \A s \in Subs :
    /\ FreeLane(s) => s \notin paid /\ s \notin vip
    /\ PaidLane(s) => s \in vip
    /\ Has("consumer", s) => s \notin todo["consumer"]
    /\ s \in rows \/ (pc["consumer"] = "insert" /\ hand["consumer"] = s) =>
         (s \in paid => s \in vip)

\* An alert of the subscription is out and not counted; the alert that was the last one is
\* counted and the row still there; one more alert may go out.
Uncounted(s) == \E a \in Actors : pc[a] \in {"commit", "count"} /\ hand[a] = s
Ending(s) == \E a \in Actors : pc[a] = "expire" /\ hand[a] = s
CanSend(s) ==
  s \in todo["consumer"] \/ \E a \in Actors : pc[a] \in {"send", "resend", "nap"} /\ hand[a] = s

\* While the row exists and is not about to be deleted, notify_count is right but for the
\* alert under way, and below the limit.
Counting(s) ==
  /\ s \in live /\ ~Ending(s)
  /\ count[s] < SubLimit[s] /\ sent[s] = count[s] + (IF Uncounted(s) THEN 1 ELSE 0)
\* After that, what is still to be sent is within the limit.
Finished(s) ==
  /\ s \notin live \/ Ending(s)
  /\ sent[s] <= SubLimit[s] /\ (CanSend(s) => sent[s] < SubLimit[s])

QuotaKept ==
  crashes = 0 /\ faults = 0 =>
    \A s \in Subs : SubLimit[s] # 0 => Counting(s) \/ Finished(s)

\* The consumer reads, gives up or starts again: its lane is empty then.
LEMMA ReadingApart ==
  ASSUME TypeOK, Tidy, LanesApart,
         \/ ReadPending \/ CaughtUp \/ ReadNew \/ NextEvent \/ BatchDone \/ Ack \/ SetStatus
         \/ InsertFails \/ DispatchFault \/ AckFault \/ Crash \/ Restart
  PROVE  LanesApart'
<1> USE DEF TypeOK, TasksTyped, Tidy, LanesApart, PaidLane, FreeLane, Has, Holding, InDispatch,
            Actors, Goto, Drop, dbVars, redisVars, streamVars, taskVars, readVars, dispatchVars
<1>1. CASE \/ ReadPending \/ CaughtUp \/ ReadNew \/ BatchDone
  BY <1>1 DEF ReadPending, CaughtUp, ReadNew, BatchDone
<1>2. CASE NextEvent \/ SetStatus
  BY <1>2 DEF NextEvent, SetStatus
<1>3. CASE Ack \/ InsertFails \/ DispatchFault
  BY <1>3 DEF Ack, InsertFails, DispatchFault, LeaveDispatch
<1>4. CASE AckFault
  BY <1>4 DEF AckFault
<1>5. CASE Crash \/ Restart
  BY <1>5 DEF Crash, Restart, Up
<1> QED
  BY <1>1, <1>2, <1>3, <1>4, <1>5

\* The lane is chosen by the tier as it was selected, which only goes down.
LEMMA DispatchingApart ==
  ASSUME TypeOK, Tidy, LanesApart,
         \/ SelectSubs \/ InsertClaim \/ ClaimsDone \/ Enqueue
         \/ \E s \in Subs : CheckCooldown(s) \/ NextPaid(s)
  PROVE  LanesApart'
<1> USE DEF TypeOK, TasksTyped, Tidy, LanesApart, PaidLane, FreeLane, Has, Holding, InDispatch,
            Actors, Goto, Drop, dbVars, redisVars, streamVars, taskVars, readVars, dispatchVars
<1>1. CASE SelectSubs \/ ClaimsDone
  BY <1>1 DEF SelectSubs, ClaimsDone
<1>2. CASE InsertClaim
  BY <1>2 DEF InsertClaim
<1>3. CASE Enqueue
  BY <1>3 DEF Enqueue
<1>4. ASSUME NEW k \in Subs, CheckCooldown(k)
      PROVE  LanesApart'
  BY <1>4 DEF CheckCooldown
<1>5. ASSUME NEW k \in Subs, NextPaid(k)
      PROVE  LanesApart'
  BY <1>5 DEF NextPaid
<1> QED
  BY <1>1, <1>2, <1>3, <1>4, <1>5

\* Delivering and the worker's way to it change no lane.
LEMMA ServingApart ==
  ASSUME TypeOK, Tidy, LanesApart,
         \/ \E d \in delayed : Take(d)
         \/ Gate \/ PayloadDone \/ WorkerFault \/ \E s \in Subs : Cancel(s) \/ Recheck(s)
         \/ \E a \in Actors : Deliver(a)
  PROVE  LanesApart'
<1> USE DEF TypeOK, TasksTyped, Tidy, LanesApart, PaidLane, FreeLane, Has, Holding, InDispatch,
            Actors, Goto, Drop, dbVars, redisVars, streamVars, taskVars, readVars, dispatchVars
<1>1. ASSUME NEW d \in delayed, Take(d)
      PROVE  LanesApart'
  BY <1>1 DEF Take
<1>2. CASE Gate \/ PayloadDone \/ WorkerFault
  BY <1>2 DEF Gate, PayloadDone, WorkerFault
<1>3. ASSUME NEW k \in Subs, Cancel(k) \/ Recheck(k)
      PROVE  LanesApart'
  BY <1>3 DEF Cancel, Recheck
<1>4. ASSUME NEW a \in Actors, Deliver(a)
      PROVE  LanesApart'
  <2>1. /\ pc[a] \in Holding \ {"insert"} /\ todo' = todo /\ queue' = queue /\ vip' = vip
        /\ rows' = rows /\ paid' = paid /\ delayed' = delayed
        /\ \E w \in (Holding \ {"insert"}) \cup {"deliver"} : pc' = [pc EXCEPT ![a] = w]
        /\ \E h \in {hand[a], None} : hand' = [hand EXCEPT ![a] = h]
    <3>1. CASE Send(a)
      BY <3>1 DEF Send
    <3>2. CASE Wake(a) \/ Resend(a)
      BY <3>2 DEF Wake, Resend
    <3>3. CASE Release(a) \/ Commit(a)
      BY <3>3 DEF Release, Commit
    <3>4. CASE Count(a) \/ Expire(a)
      BY <3>4 DEF Count, Expire
    <3> QED
      BY <1>4, <3>1, <3>2, <3>3, <3>4 DEF Deliver
  <2>2. None \notin Subs
    BY NoneIsNull
  <2> QED BY <2>1, <2>2
<1> QED
  BY <1>1, <1>2, <1>3, <1>4

\* Time and the users change none, as long as no tier goes up.
LEMMA OthersApart ==
  ASSUME TypeOK, LanesApart, "up" \notin TierMoves, Environment \/ Reap \/ UNCHANGED vars
  PROVE  LanesApart'
<1> USE DEF LanesApart, PaidLane, FreeLane, Has
<1>1. CASE Environment /\ ~Tick
  BY <1>1 DEF Environment, Publish, Unsubscribe, DeleteSub, ChangeTier, dbVars, redisVars,
     taskVars, dispatchVars
<1>2. CASE Tick
  <2>1. /\ pc' = pc /\ hand' = hand /\ todo' = todo /\ queue' = queue /\ vip' = vip
        /\ rows' = rows /\ paid' = paid
    BY <1>2 DEF Tick
  <2>2. ASSUME NEW s \in Subs, NEW x \in delayed', s \in x.msg.subs
        PROVE  \E d \in delayed : s \in d.msg.subs
    <3>1. PICK d \in delayed : x = [d EXCEPT !.due = IF @ = 0 THEN 0 ELSE @ - 1]
      BY <1>2 DEF Tick
    <3>2. x.msg = d.msg
      BY <3>1 DEF TypeOK, RedisTyped, Entries
    <3> QED BY <2>2, <3>2
  <2> QED BY <2>1, <2>2
<1>3. CASE Reap \/ UNCHANGED vars
  BY <1>3 DEF Reap, vars, dbVars, redisVars, taskVars, dispatchVars
<1> QED
  BY <1>1, <1>2, <1>3

\* Only one task holds a subscription, and nobody who holds it is to send to it again.
LEMMA OneHolder ==
  ASSUME TypeOK, LanesApart, NEW s \in Subs, NEW a \in Actors, Has(a, s)
  PROVE  /\ \A b \in Actors : Has(b, s) => b = a
         /\ pc[a] \in {"commit", "count", "expire"} => ~CanSend(s)
         /\ pc[a] \in {"commit", "count"} => Uncounted(s) /\ ~Ending(s)
         /\ pc[a] = "expire" => Ending(s) /\ ~Uncounted(s)
         /\ pc[a] \in {"send", "resend", "nap"} => CanSend(s) /\ ~Ending(s) /\ ~Uncounted(s)
<1> USE DEF TypeOK, TasksTyped, LanesApart, PaidLane, FreeLane, Has, Holding, Actors
<1>1. \A b \in Actors : Has(b, s) => b = a
  OBVIOUS
<1>2. s \notin todo["consumer"]
  OBVIOUS
<1>3. \A b \in Actors : pc[b] \in Holding \ {"insert"} /\ hand[b] = s => b = a
  BY <1>1
<1> QED
  BY <1>2, <1>3 DEF CanSend, Uncounted, Ending

\* Nothing is sent to the subscription or counted, it is not deleted, and an alert joins those
\* to be sent only while the row stays.
KeepsCount(s) ==
  /\ sent'[s] = sent[s] /\ count'[s] = count[s] /\ (s \in live' <=> s \in live)
  /\ (Uncounted(s)' <=> Uncounted(s)) /\ (Ending(s)' <=> Ending(s))
  /\ CanSend(s)' => CanSend(s) \/ (s \in live /\ ~Ending(s))

\* That keeps the account of its limit.
LEMMA CountKept ==
  ASSUME NEW s \in Subs, Counting(s) \/ Finished(s), KeepsCount(s)
  PROVE  (Counting(s) \/ Finished(s))'
<1>1. CASE Counting(s)
  BY <1>1 DEF KeepsCount, Counting
<1>2. CASE Finished(s)
  BY <1>2 DEF KeepsCount, Finished
<1> QED
  BY <1>1, <1>2

\* Reading, claiming and enqueueing send nothing and count nothing.
LEMMA ConsumingKeepsCount ==
  ASSUME TypeOK, Tidy, LanesApart, NEW s \in Subs,
         \/ ReadPending \/ CaughtUp \/ ReadNew \/ NextEvent \/ BatchDone \/ Ack \/ SetStatus
         \/ SelectSubs \/ InsertClaim \/ InsertFails \/ ClaimsDone \/ Enqueue
         \/ \E k \in Subs : CheckCooldown(k) \/ NextPaid(k)
  PROVE  KeepsCount(s)
<1> USE DEF TypeOK, TasksTyped, Tidy, KeepsCount, Uncounted, Ending, CanSend, Goto, Drop, Actors,
            InDispatch, dbVars, redisVars, streamVars, taskVars, readVars, dispatchVars, histVars
<1>1. CASE ReadPending \/ CaughtUp \/ ReadNew \/ BatchDone \/ ClaimsDone
  BY <1>1 DEF ReadPending, CaughtUp, ReadNew, BatchDone, ClaimsDone
<1>2. CASE NextEvent \/ SetStatus \/ SelectSubs \/ Enqueue
  BY <1>2 DEF NextEvent, SetStatus, SelectSubs, Enqueue
<1>3. CASE Ack \/ InsertFails
  BY <1>3 DEF Ack, InsertFails, LeaveDispatch
<1>4. CASE InsertClaim
  <2>1. s \in vip /\ s \in live => ~Ending(s)
    BY <1>4 DEF InsertClaim, LanesApart, FreeLane, Has, Holding
  <2> QED BY <1>4, <2>1 DEF InsertClaim
<1>5. ASSUME NEW k \in Subs, CheckCooldown(k) \/ NextPaid(k)
      PROVE  KeepsCount(s)
  BY <1>5 DEF CheckCooldown, NextPaid
<1> QED
  BY <1>1, <1>2, <1>3, <1>4, <1>5

\* Nor does the delayed worker before it sends; whom it takes up is not in the other lane.
LEMMA WorkingKeepsCount ==
  ASSUME TypeOK, Tidy, LanesApart, NEW s \in Subs,
         \/ \E d \in delayed : Take(d)
         \/ Gate \/ PayloadDone \/ \E k \in Subs : Cancel(k) \/ Recheck(k)
         \/ \E a \in Actors : Wake(a) \/ Release(a) \/ Commit(a)
  PROVE  KeepsCount(s)
<1> USE DEF TypeOK, TasksTyped, Tidy, KeepsCount, Uncounted, Ending, CanSend, Goto, Drop, Actors,
            dbVars, redisVars, streamVars, taskVars, readVars, dispatchVars, histVars
<1>1. ASSUME NEW d \in delayed, Take(d)
      PROVE  KeepsCount(s)
  BY <1>1 DEF Take
<1>2. CASE Gate \/ PayloadDone
  BY <1>2 DEF Gate, PayloadDone
<1>3. ASSUME NEW k \in Subs, Cancel(k)
      PROVE  KeepsCount(s)
  BY <1>3 DEF Cancel
<1>4. ASSUME NEW k \in Subs, Recheck(k)
      PROVE  KeepsCount(s)
  <2>1. s = k => ~Ending(s)
    BY <1>4 DEF Recheck, LanesApart, FreeLane, PaidLane, Has, Holding
  <2> QED BY <1>4, <2>1 DEF Recheck
<1>5. ASSUME NEW a \in Actors, Wake(a)
      PROVE  KeepsCount(s)
  BY <1>5 DEF Wake
<1>6. ASSUME NEW a \in Actors, Release(a)
      PROVE  KeepsCount(s)
  BY <1>6, NoneIsNull DEF Release
<1>7. ASSUME NEW a \in Actors, Commit(a)
      PROVE  KeepsCount(s)
  BY <1>7 DEF Commit
<1> QED
  BY <1>1, <1>2, <1>3, <1>4, <1>5, <1>6, <1>7

\* A user who leaves takes the row away; what is under way stays within the limit.
LEMMA OthersKeepCount ==
  ASSUME TypeOK, LanesApart, NEW s \in Subs, SubLimit[s] # 0, Counting(s) \/ Finished(s),
         Environment \/ Reap \/ UNCHANGED vars
  PROVE  (Counting(s) \/ Finished(s))'
<1> USE DEF TypeOK, TasksTyped, Uncounted, Ending, CanSend, dbVars, redisVars, taskVars, histVars
<1>1. CASE Environment /\ ~Unsubscribe(s)
  <2>1. KeepsCount(s)
    BY <1>1 DEF Environment, Publish, Unsubscribe, DeleteSub, ChangeTier, Tick, KeepsCount
  <2> QED BY <2>1, CountKept
<1>2. CASE Unsubscribe(s)
  <2>1. /\ sent' = sent /\ count' = count /\ pc' = pc /\ hand' = hand /\ todo' = todo
        /\ s \notin live'
    BY <1>2 DEF Unsubscribe, DeleteSub
  <2>2. CASE Finished(s)
    BY <2>1, <2>2 DEF Finished
  <2>3. CASE Counting(s)
    <3>1. Uncounted(s) => ~CanSend(s)
      BY OneHolder DEF Has, Holding
    <3>2. SubLimit[s] \in Nat /\ count[s] \in Nat /\ sent[s] \in Nat
      BY ConstantsTyped DEF TablesTyped, HistoryTyped
    <3>3. sent[s] <= SubLimit[s] /\ (CanSend(s) => sent[s] < SubLimit[s])
      BY <2>3, <3>1, <3>2 DEF Counting
    <3> QED BY <2>1, <3>3 DEF Finished
  <2> QED BY <1>2, <2>2, <2>3
<1>3. CASE Reap \/ UNCHANGED vars
  <2>1. KeepsCount(s)
    BY <1>3 DEF Reap, vars, KeepsCount
  <2> QED BY <2>1, CountKept
<1> QED
  BY <1>1, <1>2, <1>3

\* An alert goes out: it was to be sent, so there was room for it.
LEMMA SendingKeepsQuota ==
  ASSUME TypeOK, LanesApart, NEW s \in Subs, SubLimit[s] # 0, Counting(s) \/ Finished(s),
         NEW a \in Actors, Send(a) \/ Resend(a), faults' = 0
  PROVE  (Counting(s) \/ Finished(s))'
<1> USE DEF TypeOK, TasksTyped
<1>1. /\ live' = live /\ count' = count /\ todo' = todo /\ hand' = hand
      /\ pc[a] \in {"send", "resend"} /\ faults \in Nat
  BY DEF Send, Resend, dbVars, taskVars, HistoryTyped
<1>2. \/ /\ Accepted(a) /\ pc' = [pc EXCEPT ![a] = "commit"]
      \/ /\ sent' = sent /\ \E w \in {"release", "resend", "nap"} : pc' = [pc EXCEPT ![a] = w]
  BY <1>1 DEF Send, Resend, NotAccepted, AcceptedUnseen, Goto, histVars
<1>3. hand[a] \in Subs
  BY <1>1, HandTyped DEF Holding
<1>4. CASE hand[a] # s \/ ~(Accepted(a) /\ pc' = [pc EXCEPT ![a] = "commit"])
  <2>1. sent'[s] = sent[s]
    BY <1>2, <1>3, <1>4 DEF Accepted, HistoryTyped
  <2>2. KeepsCount(s)
    BY <1>1, <1>2, <1>4, <2>1 DEF KeepsCount, Uncounted, Ending, CanSend, Actors
  <2> QED BY <2>2, CountKept
<1>5. CASE hand[a] = s /\ Accepted(a) /\ pc' = [pc EXCEPT ![a] = "commit"]
  <2>1. sent'[s] = sent[s] + 1 /\ sent[s] \in Nat /\ count[s] \in Nat /\ SubLimit[s] \in Nat
    BY <1>3, <1>5, ConstantsTyped DEF Accepted, HistoryTyped, TablesTyped
  <2>2. Has(a, s)
    BY <1>1, <1>5 DEF Has, Holding
  <2>3. CanSend(s) /\ ~Ending(s) /\ ~Uncounted(s)
    BY <1>1, <2>2, OneHolder
  <2>4. \A b \in Actors : Has(b, s) => b = a
    BY <2>2, OneHolder
  <2>5. s \notin todo["consumer"]
    BY <1>1, <2>2 DEF LanesApart, PaidLane, FreeLane, Has, Actors
  <2>6. Uncounted(s)' /\ ~Ending(s)' /\ ~CanSend(s)'
    BY <1>1, <1>5, <2>4, <2>5 DEF Uncounted, Ending, CanSend, Has, Holding, Actors
  <2>7. CASE Counting(s)
    BY <1>1, <2>1, <2>3, <2>6, <2>7 DEF Counting
  <2>8. CASE Finished(s)
    BY <1>1, <2>1, <2>3, <2>6, <2>8 DEF Finished
  <2> QED BY <2>7, <2>8
<1> QED
  BY <1>4, <1>5

\* The alert is counted; if it was the last one, the row is about to be deleted.
LEMMA CountingKeepsQuota ==
  ASSUME TypeOK, LanesApart, NEW s \in Subs, SubLimit[s] # 0, Counting(s) \/ Finished(s),
         NEW a \in Actors, Count(a)
  PROVE  (Counting(s) \/ Finished(s))'
<1> USE DEF TypeOK, TasksTyped
<1>1. /\ live' = live /\ sent' = sent /\ todo' = todo /\ pc[a] = "count"
      /\ \/ pc' = [pc EXCEPT ![a] = "expire"] /\ hand' = hand
         \/ pc' = [pc EXCEPT ![a] = "deliver"] /\ hand' = [hand EXCEPT ![a] = None]
  BY DEF Count, Goto, Drop, histVars
<1>2. hand[a] \in Subs
  BY <1>1, HandTyped DEF Holding
<1>3. CASE hand[a] # s
  <2>1. count'[s] = count[s]
    BY <1>2, <1>3 DEF Count, TablesTyped
  <2>2. KeepsCount(s)
    BY <1>1, <1>3, <2>1, NoneIsNull DEF KeepsCount, Uncounted, Ending, CanSend, Actors
  <2> QED BY <2>2, CountKept
<1>4. CASE hand[a] = s
  <2>1. sent[s] \in Nat /\ count[s] \in Nat /\ SubLimit[s] \in Nat
    BY ConstantsTyped DEF HistoryTyped, TablesTyped
  <2>2. Has(a, s)
    BY <1>1, <1>4 DEF Has, Holding
  <2>3. ~CanSend(s) /\ Uncounted(s) /\ ~Ending(s)
    BY <1>1, <2>2, OneHolder
  <2>4. \A b \in Actors : Has(b, s) => b = a
    BY <2>2, OneHolder
  <2>5. ~CanSend(s)' /\ ~Uncounted(s)'
    BY <1>1, <2>3, <2>4, NoneIsNull DEF Uncounted, CanSend, Has, Holding, Actors
  <2>6. CASE s \notin live
    <3>1. sent[s] <= SubLimit[s]
      BY <2>6 DEF Counting, Finished
    <3> QED BY <1>1, <2>5, <2>6, <3>1 DEF Finished
  <2>7. CASE s \in live
    <3>1. Counting(s) /\ count'[s] = count[s] + 1 /\ sent[s] = count[s] + 1
      BY <1>4, <2>3, <2>7 DEF Counting, Finished, Count, TablesTyped
    <3>2. CASE Exhausted(s, count[s] + 1)
      <4>1. Ending(s)'
        BY <1>1, <1>4, <2>7, <3>2 DEF Ending, Count, Goto
      <4> QED BY <1>1, <2>1, <2>5, <3>1, <4>1 DEF Counting, Finished
    <3>3. CASE ~Exhausted(s, count[s] + 1)
      <4>1. pc' = [pc EXCEPT ![a] = "deliver"] /\ hand' = [hand EXCEPT ![a] = None]
        BY <1>4, <3>3 DEF Count, Goto, Drop
      <4>2. ~Ending(s)'
        BY <2>3, <4>1 DEF Ending, Actors
      <4> QED BY <1>1, <2>1, <2>5, <2>7, <3>1, <3>3, <4>2 DEF Counting, Exhausted
    <3> QED BY <3>2, <3>3
  <2> QED BY <2>6, <2>7
<1> QED
  BY <1>3, <1>4

\* The row is deleted.
LEMMA ExpiringKeepsQuota ==
  ASSUME TypeOK, LanesApart, NEW s \in Subs, Counting(s) \/ Finished(s),
         NEW a \in Actors, Expire(a)
  PROVE  (Counting(s) \/ Finished(s))'
<1> USE DEF TypeOK, TasksTyped
<1>1. /\ live' = live \ {hand[a]} /\ sent' = sent /\ count' = count /\ todo' = todo
      /\ pc[a] = "expire" /\ pc' = [pc EXCEPT ![a] = "deliver"]
      /\ hand' = [hand EXCEPT ![a] = None]
  BY DEF Expire, DeleteSub, Goto, Drop, histVars
<1>2. CanSend(s)' => CanSend(s)
  BY <1>1 DEF CanSend, Actors
<1>3. CASE hand[a] = s
  <2>1. Finished(s)
    BY <1>1, <1>3 DEF Counting, Ending
  <2> QED BY <1>1, <1>2, <1>3, <2>1 DEF Finished
<1>4. CASE hand[a] # s
  <2>1. KeepsCount(s)
    BY <1>1, <1>2, <1>4, NoneIsNull DEF KeepsCount, Uncounted, Ending, Actors
  <2> QED BY <2>1, CountKept
<1> QED
  BY <1>3, <1>4

\* Every step keeps the lanes apart and the limits.
LEMMA QuotaStep ==
  ASSUME TypeOK, Tidy, FirstLife, "up" \notin TierMoves, LanesApart, QuotaKept, [Next]_vars
  PROVE  LanesApart' /\ QuotaKept'
<1>1. LanesApart'
  <2>1. CASE Consume
    BY <2>1, ReadingApart, DispatchingApart, ServingApart DEF Consume, Actors
  <2>2. CASE ServeDelayed
    BY <2>2, ServingApart DEF ServeDelayed, Actors
  <2>3. CASE Failure \/ Restart
    BY <2>3, ReadingApart, ServingApart DEF Failure
  <2>4. CASE Environment \/ Reap \/ UNCHANGED vars
    BY <2>4, OthersApart
  <2> QED BY <2>1, <2>2, <2>3, <2>4 DEF Next
<1>2. QuotaKept'
  <2> SUFFICES ASSUME crashes' = 0, faults' = 0, NEW s \in Subs, SubLimit[s] # 0
               PROVE  (Counting(s) \/ Finished(s))'
    BY DEF QuotaKept
  <2>1. /\ crashes = 0 /\ faults = 0 /\ ~Failure /\ ~Restart
    BY FailuresCounted DEF Failure
  <2>2. Counting(s) \/ Finished(s)
    BY <2>1 DEF QuotaKept
  <2>3. CASE KeepsCount(s)
    BY <2>2, <2>3, CountKept
  <2>4. CASE \E a \in Actors : Send(a) \/ Resend(a) \/ Count(a) \/ Expire(a)
    BY <2>2, <2>4, SendingKeepsQuota, CountingKeepsQuota, ExpiringKeepsQuota
  <2>5. CASE Environment \/ Reap \/ UNCHANGED vars
    BY <2>2, <2>5, OthersKeepCount
  <2>6. CASE Consume
    BY <2>3, <2>4, <2>6, ConsumingKeepsCount, WorkingKeepsCount DEF Consume, Deliver, Actors
  <2>7. CASE ServeDelayed
    BY <2>3, <2>4, <2>7, WorkingKeepsCount DEF ServeDelayed, Deliver, Actors
  <2> QED BY <2>1, <2>5, <2>6, <2>7 DEF Next
<1> QED
  BY <1>1, <1>2

\* Nothing is sent at first.
LEMMA InitQuota == Init => LanesApart /\ QuotaKept
<1> SUFFICES ASSUME Init
             PROVE  LanesApart /\ QuotaKept
  OBVIOUS
<1>1. LanesApart
  BY DEF Init, LanesApart, PaidLane, FreeLane, Has, Holding, Actors
<1>2. ASSUME NEW s \in Subs, SubLimit[s] # 0
      PROVE  Counting(s)
  BY <1>2, ConstantsTyped DEF Init, Counting, Uncounted, Ending, Actors
<1> QED
  BY <1>1, <1>2 DEF QuotaKept

\* Nobody gets more alerts than the limit they chose, for any limits and events, whoever leaves
\* meanwhile, as long as nothing crashes, no call fails and nobody goes from the free to the
\* paid tier (notifier.py:390-409): then the alerts of a subscription are sent one after the
\* other, and each is counted before the next. (A subscription that pays while a delayed alert
\* of it is pending is served by both tasks at once.)
THEOREM AlertsWithinLimit ==
  ASSUME "up" \notin TierMoves
  PROVE  Spec => [](crashes = 0 /\ faults = 0 => QuotaRespected)
<1>1. TypeOK /\ LanesApart /\ QuotaKept => (crashes = 0 /\ faults = 0 => QuotaRespected)
  <2> SUFFICES ASSUME TypeOK, LanesApart, QuotaKept, crashes = 0, faults = 0,
                      NEW s \in Subs, SubLimit[s] # 0
               PROVE  sent[s] <= SubLimit[s]
    BY DEF QuotaRespected
  <2>1. SubLimit[s] \in Nat /\ count[s] \in Nat /\ sent[s] \in Nat
    BY ConstantsTyped DEF TypeOK, TablesTyped, HistoryTyped
  <2>2. CASE Counting(s)
    BY <2>1, <2>2 DEF Counting
  <2>3. CASE Finished(s)
    BY <2>3 DEF Finished
  <2> QED BY <2>2, <2>3 DEF QuotaKept
<1>2. AccountInv => TypeOK /\ Tidy
  BY DEF AccountInv
<1> QED
  BY <1>1, <1>2, InitQuota, QuotaStep, ReadingHolds, PTL DEF Spec

-----------------------------------------------------------------------------
(* The cooldown *)

\* A claim of the subscription was reaped or a reply about it lost; its last alert is longer
\* ago than the cooldown; a task has sent an alert and is to log it; an alert is logged that is
\* no older than the last one.
Excused(s) == \E e \in Epochs : excuse[s][e] > 0
Rested(s) == pushAge[s] > Cooldown
Alerted(a, s) == pc[a] = "commit" /\ hand[a] = s
Logged(s) == \E r \in log : r.sub = s /\ r.delivered /\ r.age <= pushAge[s]

\* Somebody has looked at the cooldown and goes on to an alert.
Cleared(s) ==
  \/ CanSend(s)
  \/ pc["consumer"] = "insert" /\ hand["consumer"] = s /\ s \in live /\ s \in vip

\* A recent alert is seen by whoever looks for it, or about to be.
AlertsLogged ==
  \A s \in Subs : \/ Excused(s) \/ s \notin live \/ Rested(s) \/ Logged(s)
                  \/ \E a \in Actors : Alerted(a, s)

\* What was seen when somebody looked is still so.
ClearedRested == \A s \in Subs : Cleared(s) => Excused(s) \/ Rested(s)

\* The unique key of notification_log, and what the worker's cutoff says of its rows.
CutoffSound ==
  /\ \A r, x \in log : r.sub = x.sub /\ r.epoch = x.epoch => r = x
  /\ \A r \in log : r.delivered /\ <<r.sub, r.epoch>> \in old => r.age > Cooldown

\* Steps that log no alert and look at nobody.
RowsStay == log' \subseteq log /\ old' \subseteq old
NobodyCleared == \A s \in Subs : Cleared(s)' => Cleared(s)

\* Steps that send nothing and forget no alert of a subscription that stays.
AlertsStay ==
  /\ pushAge' = pushAge /\ live' \subseteq live
  /\ \A s \in Subs : Excused(s) => Excused(s)'
  /\ \A r \in log : r.delivered /\ r.sub \in live' => r \in log'
  /\ \A a \in Actors, s \in Subs : Alerted(a, s) => Alerted(a, s)'

\* Such steps keep what was logged, what was seen, and the cutoff.
LEMMA StayingKept ==
  /\ AlertsLogged /\ AlertsStay => AlertsLogged'
  /\ ClearedRested /\ AlertsStay /\ NobodyCleared => ClearedRested'
  /\ CutoffSound /\ RowsStay => CutoffSound'
<1>1. ASSUME AlertsLogged, AlertsStay, NEW s \in Subs
      PROVE  \/ Excused(s)' \/ s \notin live' \/ Rested(s)' \/ Logged(s)'
             \/ \E a \in Actors : Alerted(a, s)'
  BY <1>1 DEF AlertsLogged, AlertsStay, Rested, Logged
<1>2. AlertsLogged /\ AlertsStay => AlertsLogged'
  BY <1>1 DEF AlertsLogged
<1>3. ClearedRested /\ AlertsStay /\ NobodyCleared => ClearedRested'
  BY DEF ClearedRested, AlertsStay, NobodyCleared, Rested
<1>4. CutoffSound /\ RowsStay => CutoffSound'
  BY DEF CutoffSound, RowsStay
<1> QED
  BY <1>2, <1>3, <1>4

\* The steps of the consumer between two messages: a claim is of somebody who was looked at.
LEMMA ConsumingStays ==
  ASSUME TypeOK, Tidy,
         \/ ReadPending \/ CaughtUp \/ ReadNew \/ NextEvent \/ BatchDone \/ Ack \/ SetStatus
         \/ SelectSubs \/ InsertClaim \/ InsertFails \/ ClaimsDone \/ Enqueue
         \/ \E k \in Subs : NextPaid(k)
  PROVE  AlertsStay /\ NobodyCleared
<1> USE DEF TypeOK, TasksTyped, Tidy, AlertsStay, NobodyCleared, Cleared, CanSend, Excused, Alerted,
            Goto, Drop, Actors, InDispatch, dbVars, redisVars, streamVars, taskVars, readVars,
            dispatchVars, histVars
<1>1. CASE ReadPending \/ CaughtUp \/ ReadNew \/ BatchDone \/ ClaimsDone
  BY <1>1 DEF ReadPending, CaughtUp, ReadNew, BatchDone, ClaimsDone
<1>2. CASE NextEvent \/ SetStatus \/ SelectSubs \/ Enqueue
  BY <1>2 DEF NextEvent, SetStatus, SelectSubs, Enqueue
<1>3. CASE Ack \/ InsertFails
  BY <1>3 DEF Ack, InsertFails, LeaveDispatch
<1>4. CASE InsertClaim
  BY <1>4 DEF InsertClaim
<1>5. ASSUME NEW k \in Subs, NextPaid(k)
      PROVE  AlertsStay /\ NobodyCleared
  BY <1>5 DEF NextPaid
<1> QED
  BY <1>1, <1>2, <1>3, <1>4, <1>5

\* Those of the worker before it looks at anybody, and those of either that close a delivery.
LEMMA WorkingStays ==
  ASSUME TypeOK,
         \/ \E d \in delayed : Take(d)
         \/ Gate \/ PayloadDone \/ \E k \in Subs : Cancel(k)
         \/ \E a \in Actors : Wake(a) \/ Release(a) \/ Count(a) \/ Expire(a)
  PROVE  AlertsStay /\ NobodyCleared
<1> USE DEF TypeOK, TasksTyped, AlertsStay, NobodyCleared, Cleared, CanSend, Excused, Alerted,
            Goto, Drop, Actors, dbVars, redisVars, streamVars, taskVars, readVars, dispatchVars,
            histVars
<1>1. ASSUME NEW d \in delayed, Take(d)
      PROVE  AlertsStay /\ NobodyCleared
  BY <1>1 DEF Take
<1>2. CASE Gate \/ PayloadDone
  BY <1>2 DEF Gate, PayloadDone
<1>3. ASSUME NEW k \in Subs, Cancel(k)
      PROVE  AlertsStay /\ NobodyCleared
  BY <1>3 DEF Cancel, Released
<1>4. ASSUME NEW a \in Actors, Wake(a)
      PROVE  AlertsStay /\ NobodyCleared
  BY <1>4 DEF Wake
<1>5. ASSUME NEW a \in Actors, Release(a)
      PROVE  AlertsStay /\ NobodyCleared
  BY <1>5, NoneIsNull DEF Release, Released
<1>6. ASSUME NEW a \in Actors, Count(a)
      PROVE  AlertsStay /\ NobodyCleared
  BY <1>6, NoneIsNull DEF Count
<1>7. ASSUME NEW a \in Actors, Expire(a)
      PROVE  AlertsStay /\ NobodyCleared
  BY <1>7, NoneIsNull DEF Expire, DeleteSub
<1> QED
  BY <1>1, <1>2, <1>3, <1>4, <1>5, <1>6, <1>7

\* Users, the poller and the reaper; a claim that is reaped is an excuse.
LEMMA OthersStay ==
  ASSUME TypeOK, (Environment /\ ~Tick) \/ Reap \/ UNCHANGED vars
  PROVE  AlertsStay /\ NobodyCleared
<1> USE DEF TypeOK, TasksTyped, AlertsStay, NobodyCleared, Cleared, CanSend, Excused, Alerted,
            dbVars, redisVars, taskVars, dispatchVars, histVars
<1>1. CASE Environment /\ ~Tick
  BY <1>1 DEF Environment, Publish, Unsubscribe, DeleteSub, ChangeTier
<1>2. CASE Reap
  <2>1. ASSUME NEW s \in Subs, NEW e \in Epochs, excuse[s][e] > 0
        PROVE  excuse'[s][e] > 0
    BY <1>2, <2>1 DEF Reap, HistoryTyped
  <2> QED BY <1>2, <2>1 DEF Reap, Stale
<1>3. CASE UNCHANGED vars
  BY <1>3 DEF vars
<1> QED
  BY <1>1, <1>2, <1>3

\* The clock: an alert and its row grow older together.
LEMMA TickKeepsCool ==
  ASSUME TypeOK, Tick, AlertsLogged, ClearedRested, CutoffSound
  PROVE  AlertsLogged' /\ ClearedRested' /\ CutoffSound'
<1> USE DEF TypeOK, TablesTyped, HistoryTyped
<1>1. /\ pc' = pc /\ hand' = hand /\ todo' = todo /\ live' = live /\ vip' = vip /\ old' = old
      /\ excuse' = excuse /\ log' = {Older(r) : r \in log}
      /\ pushAge' = [s \in Subs |-> Lesser(pushAge[s] + 1, Cooldown + 1)]
  BY DEF Tick, workerVars
<1>2. ASSUME NEW r \in log
      PROVE  /\ Older(r).sub = r.sub /\ Older(r).epoch = r.epoch
             /\ Older(r).delivered = r.delivered
             /\ r.delivered => Older(r).age = Lesser(r.age + 1, Cooldown + 1)
             /\ r.age \in Nat
  BY OlderTyped DEF Older, Rows
<1>3. \A s \in Subs : Rested(s) => Rested(s)'
  BY <1>1, ConstantsTyped DEF Rested, Lesser
<1>4. ASSUME NEW s \in Subs, Logged(s)
      PROVE  Logged(s)'
  <2>1. PICK r \in log : r.sub = s /\ r.delivered /\ r.age <= pushAge[s]
    BY <1>4 DEF Logged
  <2>2. Older(r).age <= pushAge'[s]
    <3>1. pushAge[s] \in Nat /\ r.age \in Nat /\ pushAge'[s] = Lesser(pushAge[s] + 1, Cooldown + 1)
      BY <1>1, <1>2, ConstantsTyped
    <3>2. Older(r).age = Lesser(r.age + 1, Cooldown + 1)
      BY <1>2, <2>1
    <3> QED BY <2>1, <3>1, <3>2, ConstantsTyped DEF Lesser
  <2>3. Older(r) \in log' /\ Older(r).sub = s /\ Older(r).delivered
    BY <1>1, <1>2, <2>1
  <2> QED BY <2>2, <2>3 DEF Logged
<1>5. AlertsLogged'
  BY <1>1, <1>3, <1>4 DEF AlertsLogged, Excused, Alerted
<1>6. ClearedRested'
  BY <1>1, <1>3 DEF ClearedRested, Cleared, CanSend, Excused
<1>7. CutoffSound'
  <2>1. ASSUME NEW r \in log', NEW x \in log', r.sub = x.sub, r.epoch = x.epoch
        PROVE  r = x
    <3>1. PICK p \in log : r = Older(p)
      BY <1>1
    <3>2. PICK q \in log : x = Older(q)
      BY <1>1
    <3> QED BY <1>2, <2>1, <3>1, <3>2 DEF CutoffSound
  <2>2. ASSUME NEW r \in log', r.delivered, <<r.sub, r.epoch>> \in old'
        PROVE  r.age > Cooldown
    <3>1. PICK p \in log : r = Older(p)
      BY <1>1
    <3>2. p.delivered /\ p.age > Cooldown
      BY <1>1, <1>2, <2>2, <3>1 DEF CutoffSound
    <3> QED BY <1>2, <3>1, <3>2, ConstantsTyped DEF Lesser
  <2> QED BY <2>1, <2>2 DEF CutoffSound
<1> QED
  BY <1>5, <1>6, <1>7

\* The consumer looks at a subscription of the paid lane: it sees the last alert, which nobody
\* else is about to log.
LEMMA CheckKeepsCool ==
  ASSUME TypeOK, LanesApart, AlertsLogged, ClearedRested, NEW k \in Subs, CheckCooldown(k)
  PROVE  AlertsLogged' /\ ClearedRested'
<1> USE DEF TypeOK, TasksTyped
<1>1. /\ pushAge' = pushAge /\ live' = live /\ log' = log /\ excuse' = excuse /\ vip' = vip
      /\ todo' = todo /\ pc["consumer"] = "claim"
      /\ \/ pc' = pc /\ hand' = hand
         \/ /\ ~InCooldown(k) /\ pc' = [pc EXCEPT !["consumer"] = "insert"]
            /\ hand' = [hand EXCEPT !["consumer"] = k]
  BY DEF CheckCooldown, Goto, dbVars, histVars
<1>2. AlertsStay
  BY <1>1 DEF AlertsStay, Alerted, Excused, Actors
<1>3. ASSUME NEW s \in Subs, Cleared(s)', ~Cleared(s)
      PROVE  Excused(s) \/ Rested(s)
  <2>1. s = k /\ ~InCooldown(k) /\ k \in live /\ k \in vip
    BY <1>1, <1>3 DEF Cleared, CanSend, Actors
  <2>2. \A a \in Actors : ~Alerted(a, k)
    BY <1>1, <2>1 DEF LanesApart, FreeLane, PaidLane, Has, Holding, Alerted, Actors
  <2>3. Logged(k) => Rested(k)
    BY <2>1, ConstantsTyped DEF Logged, InCooldown, Rested, TablesTyped, Rows, HistoryTyped
  <2> QED BY <2>1, <2>2, <2>3 DEF AlertsLogged
<1>4. ClearedRested'
  BY <1>2, <1>3 DEF ClearedRested, AlertsStay, Rested
<1> QED
  BY <1>2, <1>4, StayingKept

\* The worker looks at a subscription of the free lane, with its cutoff.
LEMMA RecheckKeepsCool ==
  ASSUME TypeOK, LanesApart, AlertsLogged, ClearedRested, CutoffSound,
         NEW k \in Subs, Recheck(k)
  PROVE  AlertsLogged' /\ ClearedRested'
<1> USE DEF TypeOK, TasksTyped
<1>1. /\ pushAge' = pushAge /\ live' = live /\ log' = log /\ excuse' = excuse /\ vip' = vip
      /\ todo' = [todo EXCEPT !["worker"] = @ \ {k}] /\ pc["worker"] = "deliver"
      /\ k \in todo["worker"]
      /\ \/ pc' = pc /\ hand' = hand
         \/ /\ k \in live /\ hand' = [hand EXCEPT !["worker"] = k]
            /\ pc' = [pc EXCEPT !["worker"] =
                         IF InCooldownSinceCutoff(k) THEN "release" ELSE "send"]
  BY DEF Recheck, Goto, dbVars, histVars, dispatchVars
<1>2. AlertsStay
  BY <1>1 DEF AlertsStay, Alerted, Excused, Actors
<1>3. ASSUME NEW s \in Subs, Cleared(s)', ~Cleared(s)
      PROVE  Excused(s) \/ Rested(s)
  <2>1. s = k /\ ~InCooldownSinceCutoff(k) /\ k \in live
    BY <1>1, <1>3 DEF Cleared, CanSend, Actors
  <2>2. \A a \in Actors : ~Alerted(a, k)
    BY <1>1 DEF LanesApart, FreeLane, PaidLane, Has, Holding, Alerted, Actors
  <2>3. ASSUME Logged(k)
        PROVE  Rested(k)
    <3>1. PICK r \in log : r.sub = k /\ r.delivered /\ r.age <= pushAge[k]
      BY <2>3 DEF Logged
    <3>2. <<k, r.epoch>> \in old
      BY <2>1, <3>1 DEF InCooldownSinceCutoff
    <3>3. r.age > Cooldown
      BY <3>1, <3>2 DEF CutoffSound
    <3> QED BY <3>1, <3>3, ConstantsTyped DEF Rested, TablesTyped, Rows, HistoryTyped
  <2> QED BY <2>1, <2>2, <2>3 DEF AlertsLogged
<1>4. ClearedRested'
  BY <1>2, <1>3 DEF ClearedRested, AlertsStay, Rested
<1> QED
  BY <1>2, <1>4, StayingKept

\* An alert goes out: nobody else goes on to one of the same subscription.
LEMMA SendKeepsCool ==
  ASSUME TypeOK, LanesApart, AlertsLogged, ClearedRested, MaxFaults = 0,
         NEW a \in Actors, Send(a) \/ Resend(a)
  PROVE  AlertsLogged' /\ ClearedRested'
<1> USE DEF TypeOK, TasksTyped
<1>1. /\ live' = live /\ log' = log /\ todo' = todo /\ hand' = hand /\ vip' = vip
      /\ pc[a] \in {"send", "resend"} /\ faults \in Nat
  BY DEF Send, Resend, dbVars, taskVars, dispatchVars, HistoryTyped
<1>2. /\ excuse' = excuse
      /\ \/ Accepted(a) /\ pc' = [pc EXCEPT ![a] = "commit"]
         \/ /\ pushAge' = pushAge
            /\ \E w \in {"release", "resend", "nap"} : pc' = [pc EXCEPT ![a] = w]
  BY <1>1 DEF Send, Resend, NotAccepted, AcceptedUnseen, Goto, histVars
<1>3. hand[a] \in Subs
  BY <1>1, HandTyped DEF Holding
<1>4. CASE pushAge' = pushAge /\ \E w \in {"release", "resend", "nap"} : pc' = [pc EXCEPT ![a] = w]
  <2>1. AlertsStay
    BY <1>1, <1>2, <1>4 DEF AlertsStay, Alerted, Excused, Actors
  <2>2. NobodyCleared
    BY <1>1, <1>4 DEF NobodyCleared, Cleared, CanSend, Actors
  <2> QED BY <2>1, <2>2, StayingKept
<1>5. CASE Accepted(a) /\ pc' = [pc EXCEPT ![a] = "commit"]
  <2>1. ASSUME NEW s \in Subs, s # hand[a]
        PROVE  pushAge'[s] = pushAge[s]
    BY <1>3, <1>5, <2>1 DEF Accepted, HistoryTyped
  <2>2. Alerted(a, hand[a])'
    BY <1>1, <1>5 DEF Alerted
  <2>3. ASSUME NEW s \in Subs, s # hand[a]
        PROVE  /\ Logged(s)' <=> Logged(s)
               /\ Rested(s)' <=> Rested(s)
               /\ Excused(s)' <=> Excused(s)
               /\ \A b \in Actors : Alerted(b, s) => Alerted(b, s)'
               /\ Cleared(s)' => Cleared(s)
    BY <1>1, <1>2, <1>5, <2>1, <2>3 DEF Logged, Rested, Excused, Alerted, Cleared, CanSend, Actors
  <2>4. AlertsLogged'
    BY <1>1, <2>2, <2>3 DEF AlertsLogged
  <2>5. ~Cleared(hand[a])'
    <3>1. Has(a, hand[a])
      BY <1>1 DEF Has, Holding
    <3>2. \A b \in Actors : Has(b, hand[a]) => b = a
      BY <1>3, <3>1, OneHolder
    <3>3. hand[a] \notin todo["consumer"]
      BY <1>1, <1>3, <3>1 DEF LanesApart, PaidLane, FreeLane, Has, Actors
    <3>4. ~CanSend(hand[a])'
      BY <1>1, <1>5, <3>2, <3>3 DEF CanSend, Has, Holding, Actors
    <3>5. ~(pc'["consumer"] = "insert" /\ hand["consumer"] = hand[a] /\ hand[a] \in vip)
      <4>1. CASE a = "consumer"
        BY <1>5, <4>1 DEF Actors
      <4>2. CASE a = "worker"
        BY <1>3, <3>1, <4>2 DEF LanesApart, FreeLane
      <4> QED BY <4>1, <4>2 DEF Actors
    <3> QED BY <1>1, <3>4, <3>5 DEF Cleared
  <2>6. ClearedRested'
    BY <1>1, <2>3, <2>5 DEF ClearedRested
  <2> QED BY <2>4, <2>6
<1> QED
  BY <1>2, <1>4, <1>5

\* An alert is logged: its claim is still there, unless it was reaped or the row deleted.
LEMMA CommitKeepsCool ==
  ASSUME AccountInv, DeliveryInv, AlertsLogged, ClearedRested, CutoffSound,
         NEW a \in Actors, Commit(a)
  PROVE  AlertsLogged' /\ ClearedRested' /\ CutoffSound'
<1> DEFINE k == hand[a]
           e == Epoch(a)
           Written(r) == IF IsRow(r, k, e) THEN [r EXCEPT !.delivered = TRUE, !.age = 0] ELSE r
<1> USE DEF AccountInv, TypeOK, TasksTyped
<1>1. /\ pushAge' = pushAge /\ live' = live /\ excuse' = excuse /\ vip' = vip /\ todo' = todo
      /\ hand' = hand /\ pc[a] = "commit" /\ pc' = [pc EXCEPT ![a] = "count"]
      /\ log' = {Written(r) : r \in log} /\ old' = old \ {<<k, e>>}
  BY DEF Commit, Goto, taskVars, histVars, dispatchVars
<1>2. k \in Subs /\ e \in Epochs
  BY <1>1, HandTyped, EpochTyped DEF Holding
<1>3. ASSUME NEW r \in log
      PROVE  /\ Written(r).sub = r.sub /\ Written(r).epoch = r.epoch /\ r.age \in Nat
             /\ IsRow(r, k, e) => Written(r).delivered /\ Written(r).age = 0
             /\ ~IsRow(r, k, e) => Written(r) = r
             /\ Written(r).age <= r.age /\ (r.delivered => Written(r).delivered)
  BY DEF TablesTyped, Rows
<1> HIDE DEF Written
<1>4. ~Excused(k) /\ k \in live => Conflicts(k, e)
  <2> SUFFICES ASSUME ~Excused(k), k \in live, ~Conflicts(k, e)
               PROVE  FALSE
    OBVIOUS
  <2>1. pushes[k][e] > 0 /\ pushes[k][e] \in Nat
    BY <1>1, <1>2 DEF DeliveryInv, CommitsPushed, HistoryTyped
  <2>2. excuse[k][e] = 0 /\ One(Slot(k, e)) = 0
    BY <1>2 DEF Excused, HistoryTyped, Slot, One
  <2>3. Turns(k, e) \in Nat
    BY <1>2, AccountKnown, Counted DEF Turns, TurnOf, Actors
  <2> QED BY <1>2, <2>1, <2>2, <2>3 DEF Accounts, Account
<1>5. ASSUME NEW s \in Subs, Logged(s)
      PROVE  Logged(s)'
  <2>1. PICK r \in log : r.sub = s /\ r.delivered /\ r.age <= pushAge[s]
    BY <1>5 DEF Logged
  <2>2. Written(r) \in log' /\ Written(r).age \in Nat
    BY <1>1, <1>3
  <2> QED BY <1>1, <1>3, <2>1, <2>2 DEF Logged, HistoryTyped
<1>6. ~Excused(k) /\ k \in live => Logged(k)'
  <2> SUFFICES ASSUME ~Excused(k), k \in live
               PROVE  Logged(k)'
    OBVIOUS
  <2>1. PICK r \in log : IsRow(r, k, e)
    BY <1>4 DEF Conflicts
  <2>2. Written(r) \in log' /\ Written(r).sub = k /\ Written(r).delivered /\ Written(r).age = 0
    BY <1>1, <1>3, <2>1 DEF IsRow
  <2>3. pushAge'[k] >= 0
    BY <1>1, <1>2, ConstantsTyped DEF HistoryTyped
  <2> QED BY <1>1, <2>2, <2>3 DEF Logged
<1>7. AlertsLogged'
  <2> SUFFICES ASSUME NEW s \in Subs
               PROVE  \/ Excused(s)' \/ s \notin live' \/ Rested(s)' \/ Logged(s)'
                      \/ \E b \in Actors : Alerted(b, s)'
    BY DEF AlertsLogged
  <2>1. ASSUME NEW b \in Actors, Alerted(b, s), s # k
        PROVE  Alerted(b, s)'
    BY <1>1, <2>1 DEF Alerted
  <2> QED BY <1>1, <1>5, <1>6, <2>1 DEF AlertsLogged, Excused, Rested
<1>8. ClearedRested'
  BY <1>1 DEF ClearedRested, Cleared, CanSend, Excused, Rested, Actors
<1>9. CutoffSound'
  <2>1. ASSUME NEW r \in log', NEW x \in log', r.sub = x.sub, r.epoch = x.epoch
        PROVE  r = x
    <3>1. PICK p \in log : r = Written(p)
      BY <1>1
    <3>2. PICK q \in log : x = Written(q)
      BY <1>1
    <3> QED BY <1>3, <2>1, <3>1, <3>2 DEF CutoffSound
  <2>2. ASSUME NEW r \in log', r.delivered, <<r.sub, r.epoch>> \in old'
        PROVE  r.age > Cooldown
    <3>1. PICK p \in log : r = Written(p)
      BY <1>1
    <3>2. ~IsRow(p, k, e)
      BY <1>1, <1>3, <2>2, <3>1 DEF IsRow
    <3> QED BY <1>1, <1>3, <2>2, <3>1, <3>2 DEF CutoffSound
  <2> QED BY <2>1, <2>2 DEF CutoffSound
<1> QED
  BY <1>7, <1>8, <1>9

\* A row is inserted only if there is none of its key, and undelivered; the cutoff is of rows
\* that are older than the cooldown.
LEMMA CutoffKept ==
  ASSUME TypeOK, CutoffSound,
         \/ Consume \/ ServeDelayed \/ Environment \/ Reap \/ Restart \/ UNCHANGED vars,
         ~Tick, \A a \in Actors : ~Commit(a)
  PROVE  CutoffSound'
<1> USE DEF RowsStay, dbVars, workerVars
<1>1. CASE \/ ReadPending \/ CaughtUp \/ ReadNew \/ NextEvent \/ BatchDone \/ Ack \/ SetStatus
           \/ SelectSubs \/ InsertFails \/ ClaimsDone \/ Enqueue
           \/ \E s \in Subs : CheckCooldown(s) \/ NextPaid(s)
  <2>1. RowsStay
    BY <1>1 DEF ReadPending, CaughtUp, ReadNew, NextEvent, BatchDone, Ack, SetStatus, SelectSubs,
       InsertFails, ClaimsDone, Enqueue, CheckCooldown, NextPaid
  <2> QED BY <2>1, StayingKept
<1>2. CASE InsertClaim
  <2> DEFINE new == NewClaim(hand["consumer"], Event.epoch)
  <2>1. \/ log' = log
        \/ ~Conflicts(hand["consumer"], Event.epoch) /\ log' = log \cup {new}
    BY <1>2 DEF InsertClaim
  <2>2. /\ old' = old /\ ~new.delivered /\ new.sub = hand["consumer"]
        /\ new.epoch = Event.epoch
    BY <1>2 DEF InsertClaim, NewClaim
  <2> HIDE DEF new
  <2> QED BY <2>1, <2>2 DEF CutoffSound, Conflicts, IsRow
<1>3. CASE \E a \in Actors : Deliver(a)
  <2>1. RowsStay
    BY <1>3 DEF Deliver, Send, Wake, Resend, Release, Count, Expire, DeleteSub, Released
  <2> QED BY <2>1, StayingKept
<1>4. CASE Gate
  <2>1. log' = log /\ (old' = old \/ old' = {<<r.sub, r.epoch>> :
                                               r \in {x \in log : x.delivered /\ x.age > Cooldown}})
    BY <1>4 DEF Gate
  <2>2. ASSUME NEW r \in log, r.delivered, <<r.sub, r.epoch>> \in old', old' # old
        PROVE  r.age > Cooldown
    <3>1. PICK x \in log : /\ x.delivered /\ x.age > Cooldown
                           /\ <<r.sub, r.epoch>> = <<x.sub, x.epoch>>
      BY <2>1, <2>2
    <3> QED BY <3>1 DEF CutoffSound
  <2> QED BY <2>1, <2>2 DEF CutoffSound
<1>5. CASE \/ \E d \in delayed : Take(d)
           \/ PayloadDone \/ \E s \in Subs : Cancel(s) \/ Recheck(s)
  <2>1. RowsStay
    BY <1>5 DEF Take, PayloadDone, Cancel, Recheck, Released
  <2> QED BY <2>1, StayingKept
<1>6. CASE Environment \/ Reap \/ Restart \/ UNCHANGED vars
  <2>1. RowsStay
    BY <1>6 DEF Environment, Publish, Unsubscribe, DeleteSub, ChangeTier, Reap, Restart, vars
  <2> QED BY <2>1, StayingKept
<1> QED
  BY <1>1, <1>2, <1>3, <1>4, <1>5, <1>6 DEF Consume, ServeDelayed, Actors

CoolInv == AlertsLogged /\ ClearedRested /\ CutoffSound

\* Without crashes and faults, every step keeps what is known of the alerts.
LEMMA CoolStep ==
  ASSUME AccountInv, DeliveryInv, LanesApart, CoolInv, MaxCrashes = 0, MaxFaults = 0,
         [Next]_vars
  PROVE  CoolInv'
<1>1. TypeOK /\ Tidy /\ AlertsLogged /\ ClearedRested /\ CutoffSound
  BY DEF AccountInv, CoolInv
<1>2. ~Failure
  BY <1>1 DEF Failure, DispatchFault, AckFault, WorkerFault, Fault, Crash, TypeOK, HistoryTyped
<1>3. CASE Tick
  BY <1>1, <1>3, TickKeepsCool DEF CoolInv
<1>4. CASE \E a \in Actors : Commit(a)
  BY <1>1, <1>4, CommitKeepsCool DEF CoolInv
<1>5. CASE ~Tick /\ \A a \in Actors : ~Commit(a)
  <2>1. CutoffSound'
    BY <1>1, <1>2, <1>5, CutoffKept DEF Next
  <2>2. CASE AlertsStay /\ NobodyCleared
    BY <1>1, <2>1, <2>2, StayingKept DEF CoolInv
  <2>3. CASE \E k \in Subs : CheckCooldown(k) \/ Recheck(k)
    BY <1>1, <2>1, <2>3, CheckKeepsCool, RecheckKeepsCool DEF CoolInv
  <2>4. CASE \E a \in Actors : Send(a) \/ Resend(a)
    BY <1>1, <2>1, <2>4, SendKeepsCool DEF CoolInv
  <2>5. CASE Consume
    BY <1>1, <1>5, <2>2, <2>3, <2>4, <2>5, ConsumingStays, WorkingStays DEF Consume, Deliver, Actors
  <2>6. CASE ServeDelayed
    BY <1>1, <1>5, <2>2, <2>3, <2>4, <2>6, WorkingStays DEF ServeDelayed, Deliver, Actors
  <2>7. CASE Environment \/ Reap \/ UNCHANGED vars
    BY <1>1, <1>5, <2>2, <2>7, OthersStay
  <2>8. CASE Restart
    <3>1. AlertsStay /\ NobodyCleared
      BY <1>1, <2>8 DEF Restart, Up, AlertsStay, NobodyCleared, Cleared, CanSend, Excused, Alerted,
         Actors, dbVars, taskVars, dispatchVars, histVars
    <3> QED BY <2>2, <3>1
  <2> QED BY <1>2, <2>5, <2>6, <2>7, <2>8 DEF Next
<1> QED
  BY <1>3, <1>4, <1>5

\* Nobody was alerted at first, long enough ago.
LEMMA InitCool == Init => CoolInv
<1> SUFFICES ASSUME Init
             PROVE  CoolInv
  OBVIOUS
<1>1. \A s \in Subs : Rested(s)
  BY ConstantsTyped DEF Init, Rested
<1> QED
  BY <1>1 DEF Init, CoolInv, AlertsLogged, ClearedRested, CutoffSound

\* Only a task that goes on to an alert sends one.
LEMMA SendersCleared ==
  ASSUME TypeOK, ClearedRested, [Next]_vars, NEW s \in Subs, pushes'[s] # pushes[s]
  PROVE  pushAge[s] > Cooldown \/ \E e \in Epochs : excuse[s][e] > 0
<1>1. \E a \in Actors : Send(a) \/ Resend(a)
  <2>1. CASE \E a \in Actors : Deliver(a)
    BY <2>1 DEF Deliver, Wake, Release, Commit, Count, Expire, histVars
  <2>2. CASE Environment
    BY <2>2, EnvironmentQuiet DEF Quiet
  <2>3. CASE Failure \/ Restart \/ Reap
    BY <2>3, FailureQuiet DEF Quiet
  <2>4. CASE Consume
    BY <2>1, <2>4, ReadingQuiet, ClaimingQuiet DEF Consume, Quiet, Actors
  <2>5. CASE ServeDelayed
    BY <2>1, <2>5, ServingQuiet DEF ServeDelayed, Quiet, Actors
  <2>6. CASE UNCHANGED vars
    BY <2>6 DEF vars, histVars
  <2> QED BY <2>2, <2>3, <2>4, <2>5, <2>6 DEF Next
<1>2. PICK a \in Actors : Send(a) \/ Resend(a)
  BY <1>1
<1>3. /\ pc[a] \in {"send", "resend"}
      /\ pushes' = pushes \/ pushes' = OneMore(pushes, hand[a], Epoch(a))
  BY <1>2 DEF Send, Resend, NotAccepted, Accepted, AcceptedUnseen, histVars
<1>4. hand[a] = s
  BY <1>3 DEF OneMore, TypeOK, HistoryTyped
<1> QED
  BY <1>3, <1>4 DEF ClearedRested, Cleared, CanSend, Excused, Rested

\* Two alerts of one subscription are at least the cooldown apart, for any cooldown, delay,
\* flood waits and events, unless a claim was reaped in between: as long as nothing crashes, no
\* call fails and nobody goes from the free to the paid tier, who looks at the log for a recent
\* alert finds it there (notifier.py:275-304, notifier.py:582-616).
THEOREM AlertsApart ==
  ASSUME MaxCrashes = 0, MaxFaults = 0, "up" \notin TierMoves
  PROVE  Spec => CooldownRespected
<1>1. AccountInv => TypeOK /\ Tidy
  BY DEF AccountInv
<1>2. DeliveryInv /\ [Next]_vars => DeliveryInv'
  BY DeliveryStep
<1>3. Init => DeliveryInv
  BY InitTyped DEF Init, DeliveryInv, DeliveredWasPushed, CommitsPushed, Actors
<1>4. AccountInv /\ CoolInv /\ [Next]_vars =>
        [\A s \in Subs : pushes'[s] # pushes[s] =>
           pushAge[s] > Cooldown \/ \E e \in Epochs : excuse[s][e] > 0]_vars
  BY SendersCleared DEF AccountInv, CoolInv
<1> QED
  BY <1>1, <1>2, <1>3, <1>4, InitCool, CoolStep, InitQuota, QuotaStep, ReadingHolds, PTL
     DEF Spec, CooldownRespected
=============================================================================
