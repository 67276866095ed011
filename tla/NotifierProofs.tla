--------------------------- MODULE NotifierProofs ---------------------------
(***************************************************************************)
(* Proofs about Notifier for any subscriptions, events and thresholds, and *)
(* any number of crashes and failures.  In this order:                     *)
(*                                                                         *)
(* Every variable keeps its type, and no task uses an event, a payload or  *)
(* a subscription it does not have.  TypeOK is inductive, and there is one *)
(* lemma for each action: in each, a step for every group of variables the *)
(* action touches; the groups it leaves alone are dealt with in the last   *)
(* one.                                                                    *)
(*                                                                         *)
(* The notifier never repeats an alert without an excuse.  The argument is *)
(* one of accounts.  A turn is a right to send one more alert of an event  *)
(* to a subscription: wherever the subscription waits to be served, in     *)
(* paid_now, in free_queue, in a payload or in the hand of a task, it is   *)
(* one.  A slot is what prevents new turns: a row of notification_log, or  *)
(* the absence of the subscription.                                        *)
(*     alerts + turns <= excuses + slot                                    *)
(* holds at first, 0 <= 0, and every step keeps it: a claim adds a turn    *)
(* and the slot, a message spends its turn, a release takes both away,     *)
(* the reaper trades the slot for an excuse.                               *)
(*                                                                         *)
(* The last part uses the accounts to show that the notifier implements    *)
(* module Promise.  Every step maps to a step of the promise or to none:   *)
(* what publishes opens an epoch; an acknowledgement, the end of a         *)
(* payload, a crash or a failure of the worker may close it; a message     *)
(* tells, and has the right to by the account of its turn; the reaper      *)
(* excuses.  The rest leaves alerts, excuses and phases alone.             *)
(***************************************************************************)
EXTENDS Notifier, FiniteSetTheorems, TLAPS

\* The event in hand is one.
LEMMA EventTyped ==
  ASSUME RedisTyped, cur \in 1..last
  PROVE  Event \in Events
  BY DEF RedisTyped, Event

\* The epoch a task delivers is one of Epochs.
LEMMA EpochTyped ==
  ASSUME TypeOK, NEW a \in Actors, pc[a] \in Holding
  PROVE  Epoch(a) \in Epochs
<1>1. CASE a = "consumer"
  <2>1. pc["consumer"] \in Dispatching
    BY <1>1 DEF TypeOK, TasksTyped, Dispatching, Holding
  <2>2. cur \in 1..last
    BY <2>1 DEF TypeOK, ConsumerTyped, RedisTyped
  <2>3. Event \in Events
    BY <2>2, EventTyped DEF TypeOK
  <2> QED BY <1>1, <2>3 DEF Epoch, Events
<1>2. CASE a = "worker"
  <2>1. pc["worker"] \in Serving
    BY <1>2 DEF TypeOK, TasksTyped, WorkerPcs, Serving, Holding
  <2>2. msg \in Payloads
    BY <2>1 DEF TypeOK, WorkerTyped
  <2> QED BY <1>2, <2>2 DEF Epoch, Payloads
<1> QED BY <1>1, <1>2 DEF Actors

\* The subscription in hand is one.
LEMMA HandTyped ==
  ASSUME TypeOK, NEW a \in Actors, pc[a] \in Holding
  PROVE  hand[a] \in Subs
  BY DEF TypeOK, TasksTyped

\* A tally that counts one more is a tally.
LEMMA OneMoreTyped ==
  ASSUME NEW tally \in [Subs -> [Epochs -> Nat]], NEW s \in Subs, NEW e \in Epochs
  PROVE  OneMore(tally, s, e) \in [Subs -> [Epochs -> Nat]]
  BY DEF OneMore

\* What is capped stays below its cap.
LEMMA LesserTyped ==
  ASSUME NEW m \in Nat, NEW n \in Nat
  PROVE  Lesser(m, n) \in 0..n
  BY DEF Lesser

\* A row that ages stays the same row.
LEMMA OlderTyped ==
  ASSUME NEW r \in Rows
  PROVE  Older(r) \in Rows /\ Older(r).sub = r.sub /\ Older(r).epoch = r.epoch
         /\ Older(r).delivered = r.delivered
  BY ConstantsTyped DEF Older, Rows, Lesser

-----------------------------------------------------------------------------
(* The environment *)

\* An event is appended to the stream: earlier positions stay what they were.
LEMMA PublishTyped ==
  ASSUME TypeOK, NEW l \in Locs, NEW to \in Statuses, NEW o \in Offers,
         NEW e \in Epochs, Publish(l, to, o, e)
  PROVE  TypeOK'
<1>1. RedisTyped'
  BY ConstantsTyped DEF Publish, TypeOK, RedisTyped, Events
<1>2. HistoryTyped'
  BY DEF Publish, TypeOK, HistoryTyped, histVars
<1> QED
  BY <1>1, <1>2 DEF Publish, TypeOK, dbVars, taskVars, readVars, dispatchVars,
         workerVars, TablesTyped, TasksTyped, ConsumerTyped, WorkerTyped

\* A subscription is deleted with its rows.
LEMMA UnsubscribeTyped ==
  ASSUME TypeOK, NEW s \in Subs, Unsubscribe(s)
  PROVE  TypeOK'
<1>1. TablesTyped'
  BY DEF Unsubscribe, TypeOK, TablesTyped, DeleteSub
<1> QED
  BY <1>1 DEF Unsubscribe, TypeOK, redisVars, taskVars, readVars, dispatchVars,
         workerVars, histVars, boundVars, streamVars, RedisTyped, TasksTyped,
         ConsumerTyped, WorkerTyped, HistoryTyped

\* A tier changes.
LEMMA ChangeTierTyped ==
  ASSUME TypeOK, NEW s \in Subs, ChangeTier(s)
  PROVE  TypeOK'
<1>1. TablesTyped'
  BY DEF ChangeTier, TypeOK, TablesTyped
<1> QED
  BY <1>1 DEF ChangeTier, TypeOK, redisVars, taskVars, readVars, dispatchVars,
         workerVars, histVars, boundVars, streamVars, RedisTyped, TasksTyped,
         ConsumerTyped, WorkerTyped, HistoryTyped

\* Ages and countdowns stay within their caps.
LEMMA TickTyped ==
  ASSUME TypeOK, Tick
  PROVE  TypeOK'
<1>1. TablesTyped'
  <2>1. log' \subseteq Rows
    BY OlderTyped DEF Tick, TypeOK, TablesTyped
  <2> QED
    BY <2>1 DEF Tick, TypeOK, TablesTyped
<1>2. RedisTyped'
  <2>1. ASSUME NEW d \in delayed
        PROVE  [d EXCEPT !.due = IF @ = 0 THEN 0 ELSE @ - 1] \in Entries
    <3>1. d \in Entries /\ d.due \in 0..Delay
      BY DEF TypeOK, RedisTyped, Entries
    <3>2. (IF d.due = 0 THEN 0 ELSE d.due - 1) \in 0..Delay
      BY <3>1, ConstantsTyped
    <3> QED
      BY <3>1, <3>2 DEF Entries
  <2>2. delayed' \subseteq Entries
    BY <2>1 DEF Tick
  <2> QED
    BY <2>2 DEF Tick, TypeOK, RedisTyped, streamVars
<1>3. TasksTyped'
  BY ConstantsTyped DEF Tick, TypeOK, TasksTyped
<1>4. ConsumerTyped'
  BY ConstantsTyped DEF Tick, TypeOK, ConsumerTyped, streamVars, readVars
<1>5. HistoryTyped'
  <2>1. ASSUME NEW s \in Subs
        PROVE  Lesser(pushAge[s] + 1, Cooldown + 1) \in 0..Cooldown + 1
    <3>1. pushAge[s] + 1 \in Nat /\ Cooldown + 1 \in Nat
      BY ConstantsTyped DEF TypeOK, HistoryTyped
    <3> QED
      BY <3>1, LesserTyped
  <2> QED
    BY <2>1 DEF Tick, TypeOK, HistoryTyped
<1> QED
  BY <1>1, <1>2, <1>3, <1>4, <1>5 DEF Tick, TypeOK, workerVars, WorkerTyped

-----------------------------------------------------------------------------
(* The consumer reads *)

\* The replayed entries are pending ones, hence delivered ones.
LEMMA ReadPendingTyped ==
  ASSUME TypeOK, ReadPending
  PROVE  TypeOK'
<1>1. TasksTyped'
  BY DEF ReadPending, TypeOK, TasksTyped, Goto, taskVars, ConsumerPcs, Holding,
         Actors
<1>2. ConsumerTyped'
  BY ConstantsTyped DEF ReadPending, TypeOK, ConsumerTyped, Goto, dbVars,
         redisVars, taskVars, dispatchVars, workerVars, histVars, boundVars,
         streamVars, ConsumerPcs, Dispatching, RedisTyped, TasksTyped, Actors
<1>3. WorkerTyped'
  BY DEF ReadPending, TypeOK, WorkerTyped, Goto, workerVars
<1> QED
  BY <1>1, <1>2, <1>3 DEF ReadPending, TypeOK, dbVars, redisVars, histVars,
         boundVars, streamVars, TablesTyped, RedisTyped, HistoryTyped

\* The replay ends.
LEMMA CaughtUpTyped ==
  ASSUME TypeOK, CaughtUp
  PROVE  TypeOK'
<1>1. ConsumerTyped'
  BY DEF CaughtUp, TypeOK, ConsumerTyped, redisVars, dispatchVars, streamVars
<1> QED
  BY <1>1 DEF CaughtUp, TypeOK, dbVars, redisVars, taskVars, workerVars, histVars,
         boundVars, streamVars, TablesTyped, RedisTyped, TasksTyped, WorkerTyped,
         HistoryTyped

\* The new entries are between the group's position and the end of the stream.
LEMMA ReadNewTyped ==
  ASSUME TypeOK, ReadNew
  PROVE  TypeOK'
<1>1. RedisTyped'
  <2>1. last' \in last..Len(stream)
    BY ConstantsTyped DEF ReadNew, TypeOK, RedisTyped, Lesser
  <2>2. pel \subseteq 1..last' /\ batch' \subseteq 1..last'
    BY <2>1 DEF ReadNew, TypeOK, RedisTyped
  <2>3. pel' \subseteq 1..last'
    BY <2>2 DEF ReadNew
  <2> QED
    BY <2>1, <2>3 DEF ReadNew, TypeOK, RedisTyped
<1>2. TasksTyped'
  BY DEF ReadNew, TypeOK, TasksTyped, Goto, taskVars, ConsumerPcs, Holding, Actors
<1>3. ConsumerTyped'
  BY ConstantsTyped DEF ReadNew, TypeOK, ConsumerTyped, Lesser, Goto,
         dispatchVars, Dispatching, RedisTyped
<1>4. WorkerTyped'
  BY DEF ReadNew, TypeOK, WorkerTyped, Goto, workerVars
<1> QED
  BY <1>1, <1>2, <1>3, <1>4 DEF ReadNew, TypeOK, dbVars, histVars, boundVars,
         TablesTyped, HistoryTyped

\* The consumer takes the next entry of its batch.
LEMMA NextEventTyped ==
  ASSUME TypeOK, NextEvent
  PROVE  TypeOK'
<1>1. TasksTyped'
  BY DEF NextEvent, TypeOK, TasksTyped, Goto, taskVars, ConsumerPcs, Dispatching,
         Holding, Actors
<1>2. ConsumerTyped'
  BY DEF NextEvent, TypeOK, ConsumerTyped, redisVars, streamVars
<1>3. WorkerTyped'
  BY DEF NextEvent, TypeOK, WorkerTyped, Goto, workerVars
<1> QED
  BY <1>1, <1>2, <1>3 DEF NextEvent, TypeOK, dbVars, redisVars, histVars,
         boundVars, streamVars, TablesTyped, RedisTyped, HistoryTyped

\* The consumer returns to the stream.
LEMMA BatchDoneTyped ==
  ASSUME TypeOK, BatchDone
  PROVE  TypeOK'
<1>1. TasksTyped'
  BY DEF BatchDone, TypeOK, TasksTyped, Goto, taskVars, ConsumerPcs, Holding,
         Actors
<1>2. ConsumerTyped'
  BY DEF BatchDone, TypeOK, ConsumerTyped, Goto, redisVars, readVars,
         dispatchVars, streamVars, Dispatching
<1>3. WorkerTyped'
  BY DEF BatchDone, TypeOK, WorkerTyped, Goto, workerVars
<1> QED
  BY <1>1, <1>2, <1>3 DEF BatchDone, TypeOK, dbVars, redisVars, histVars,
         boundVars, streamVars, TablesTyped, RedisTyped, HistoryTyped

\* An entry is acknowledged.
LEMMA AckTyped ==
  ASSUME TypeOK, Ack
  PROVE  TypeOK'
<1>1. RedisTyped'
  BY DEF Ack, TypeOK, RedisTyped, ConsumerTyped
<1>2. TasksTyped'
  BY ConstantsTyped DEF Ack, TypeOK, TasksTyped, LeaveDispatch, Goto, Drop,
         ConsumerPcs, Holding, Actors
<1>3. ConsumerTyped'
  BY ConstantsTyped DEF Ack, TypeOK, ConsumerTyped, LeaveDispatch, readVars, Goto,
         Dispatching, RedisTyped, TasksTyped, Actors
<1>4. WorkerTyped'
  BY DEF Ack, TypeOK, WorkerTyped, LeaveDispatch, workerVars, Goto
<1> QED
  BY <1>1, <1>2, <1>3, <1>4 DEF Ack, TypeOK, dbVars, histVars, boundVars,
         TablesTyped, HistoryTyped

-----------------------------------------------------------------------------
(* The consumer dispatches *)

\* The status hash gets the status of the event in hand.
LEMMA SetStatusTyped ==
  ASSUME TypeOK, SetStatus
  PROVE  TypeOK'
<1>1. RedisTyped'
  BY EventTyped DEF SetStatus, TypeOK, RedisTyped, streamVars, Events,
         ConsumerTyped, Dispatching, Marked
<1>2. TasksTyped'
  BY DEF SetStatus, TypeOK, TasksTyped, Goto, taskVars, ConsumerPcs, Dispatching,
         Holding, Actors
<1>3. ConsumerTyped'
  BY DEF SetStatus, TypeOK, ConsumerTyped, streamVars, readVars, dispatchVars,
         Dispatching
<1>4. WorkerTyped'
  BY DEF SetStatus, TypeOK, WorkerTyped, Goto, workerVars
<1> QED
  BY <1>1, <1>2, <1>3, <1>4 DEF SetStatus, TypeOK, dbVars, histVars, boundVars,
         TablesTyped, HistoryTyped

\* The subscriptions of the event are selected.
LEMMA SelectSubsTyped ==
  ASSUME TypeOK, SelectSubs
  PROVE  TypeOK'
<1>1. TasksTyped'
  BY DEF SelectSubs, TypeOK, TasksTyped, Goto, taskVars, ConsumerPcs, Dispatching,
         Holding, Actors
<1>2. ConsumerTyped'
  <2>1. rows' \subseteq Subs /\ vip' \subseteq Subs
    BY DEF SelectSubs, TypeOK, TablesTyped
  <2>2. timer' \in 0..Delay
    BY ConstantsTyped DEF SelectSubs
  <2> QED
    BY <2>1, <2>2 DEF SelectSubs, TypeOK, ConsumerTyped, streamVars, redisVars,
           readVars, Dispatching
<1>3. WorkerTyped'
  BY DEF SelectSubs, TypeOK, WorkerTyped, Goto, workerVars
<1> QED
  BY <1>1, <1>2, <1>3 DEF SelectSubs, TypeOK, dbVars, redisVars, histVars,
         boundVars, streamVars, TablesTyped, RedisTyped, HistoryTyped

\* A subscription is skipped or taken in hand.
LEMMA CheckCooldownTyped ==
  ASSUME TypeOK, NEW s \in Subs, CheckCooldown(s)
  PROVE  TypeOK'
<1>1. TasksTyped'
  BY NoneIsNull DEF CheckCooldown, TypeOK, TasksTyped, Goto, ConsumerPcs,
         Dispatching, Actors
<1>2. ConsumerTyped'
  BY DEF CheckCooldown, TypeOK, ConsumerTyped, redisVars, readVars, streamVars,
         Dispatching
<1>3. WorkerTyped'
  BY DEF CheckCooldown, TypeOK, WorkerTyped, Goto, workerVars, TasksTyped, Actors,
         Epochs
<1> QED
  BY <1>1, <1>2, <1>3 DEF CheckCooldown, TypeOK, dbVars, redisVars, histVars,
         boundVars, streamVars, TablesTyped, RedisTyped, HistoryTyped

\* A row is inserted, or not.
LEMMA InsertClaimTyped ==
  ASSUME TypeOK, InsertClaim
  PROVE  TypeOK'
<1>1. TablesTyped'
  <2>1. hand["consumer"] \in Subs
    BY HandTyped DEF InsertClaim, Actors, Holding
  <2>2. Event.epoch \in Epochs
    BY EpochTyped DEF InsertClaim, Actors, Holding, Epoch
  <2>3. NewClaim(hand["consumer"], Event.epoch) \in Rows
    BY <2>1, <2>2 DEF NewClaim, Rows
  <2>4. log' \subseteq Rows
    BY <2>3 DEF InsertClaim, TypeOK, TablesTyped
  <2> QED
    BY <2>4 DEF InsertClaim, TypeOK, TablesTyped
<1>2. TasksTyped'
  BY DEF InsertClaim, TypeOK, TasksTyped, Drop, Goto, ConsumerPcs, Dispatching,
         Holding, Actors
<1>3. ConsumerTyped'
  BY HandTyped DEF InsertClaim, TypeOK, ConsumerTyped, redisVars, readVars,
         streamVars, Dispatching, Actors, Holding
<1>4. WorkerTyped'
  BY DEF InsertClaim, TypeOK, WorkerTyped, Goto, workerVars
<1> QED
  BY <1>1, <1>2, <1>3, <1>4 DEF InsertClaim, TypeOK, redisVars, histVars,
         boundVars, streamVars, RedisTyped, HistoryTyped

\* The dispatch is given up.
LEMMA InsertFailsTyped ==
  ASSUME TypeOK, InsertFails
  PROVE  TypeOK'
<1>1. TasksTyped'
  BY ConstantsTyped DEF InsertFails, TypeOK, TasksTyped, LeaveDispatch, Goto,
         Drop, ConsumerPcs, Holding, Actors
<1>2. ConsumerTyped'
  BY ConstantsTyped DEF InsertFails, TypeOK, ConsumerTyped, LeaveDispatch,
         redisVars, readVars, Goto, streamVars, Dispatching, RedisTyped,
         TasksTyped, Actors
<1>3. WorkerTyped'
  BY DEF InsertFails, TypeOK, WorkerTyped, LeaveDispatch, workerVars, Goto
<1> QED
  BY <1>1, <1>2, <1>3 DEF InsertFails, TypeOK, dbVars, redisVars, histVars,
         boundVars, streamVars, TablesTyped, RedisTyped, HistoryTyped

\* Every selected subscription has been claimed.
LEMMA ClaimsDoneTyped ==
  ASSUME TypeOK, ClaimsDone
  PROVE  TypeOK'
<1>1. TasksTyped'
  BY DEF ClaimsDone, TypeOK, TasksTyped, Goto, taskVars, ConsumerPcs, Dispatching,
         Holding, Actors
<1>2. ConsumerTyped'
  BY DEF ClaimsDone, TypeOK, ConsumerTyped, redisVars, readVars, dispatchVars,
         streamVars, Dispatching
<1>3. WorkerTyped'
  BY DEF ClaimsDone, TypeOK, WorkerTyped, Goto, workerVars
<1> QED
  BY <1>1, <1>2, <1>3 DEF ClaimsDone, TypeOK, dbVars, redisVars, histVars,
         boundVars, streamVars, TablesTyped, RedisTyped, HistoryTyped

\* The next paid subscription is taken in hand.
LEMMA NextPaidTyped ==
  ASSUME TypeOK, NEW s \in Subs, NextPaid(s)
  PROVE  TypeOK'
<1>1. TasksTyped'
  BY NoneIsNull DEF NextPaid, TypeOK, TasksTyped, Goto, ConsumerPcs, Dispatching,
         Actors
<1>2. ConsumerTyped'
  BY DEF NextPaid, TypeOK, ConsumerTyped, redisVars, readVars, dispatchVars,
         streamVars, Dispatching
<1>3. WorkerTyped'
  BY DEF NextPaid, TypeOK, WorkerTyped, Goto, workerVars
<1> QED
  BY <1>1, <1>2, <1>3 DEF NextPaid, TypeOK, dbVars, redisVars, histVars,
         boundVars, streamVars, TablesTyped, RedisTyped, HistoryTyped

\* The free subscriptions become a payload of the ZSET.
LEMMA EnqueueTyped ==
  ASSUME TypeOK, Enqueue
  PROVE  TypeOK'
<1>1. RedisTyped'
  BY EventTyped DEF Enqueue, TypeOK, RedisTyped, streamVars, Entries, Payloads,
         Events, ConsumerTyped, Dispatching
<1>2. TasksTyped'
  BY DEF Enqueue, TypeOK, TasksTyped, Goto, taskVars, ConsumerPcs, Dispatching,
         Holding, Actors
<1>3. ConsumerTyped'
  BY DEF Enqueue, TypeOK, ConsumerTyped, streamVars, readVars, Dispatching
<1>4. WorkerTyped'
  BY DEF Enqueue, TypeOK, WorkerTyped, Goto, workerVars
<1> QED
  BY <1>1, <1>2, <1>3, <1>4 DEF Enqueue, TypeOK, dbVars, histVars, boundVars,
         TablesTyped, HistoryTyped

-----------------------------------------------------------------------------
(* The delayed worker *)

\* A payload leaves the ZSET: the worker has it.
LEMMA TakeTyped ==
  ASSUME TypeOK, NEW d \in delayed, Take(d)
  PROVE  TypeOK'
<1>1. RedisTyped'
  BY DEF Take, TypeOK, RedisTyped, streamVars
<1>2. TasksTyped'
  <2>1. d.msg.subs \in SUBSET Subs
    BY DEF TypeOK, RedisTyped, Entries, Payloads
  <2> QED
    BY <2>1 DEF Take, TypeOK, TasksTyped, Goto, Actors, WorkerPcs, Serving,
           Holding
<1>3. ConsumerTyped'
  BY DEF Take, TypeOK, ConsumerTyped, Goto, streamVars, readVars, dispatchVars
<1>4. WorkerTyped'
  BY NoneIsNull DEF Take, TypeOK, WorkerTyped, RedisTyped, Entries
<1> QED
  BY <1>1, <1>2, <1>3, <1>4 DEF Take, TypeOK, dbVars, histVars, boundVars,
         TablesTyped, HistoryTyped

\* The worker cancels or delivers, from a cutoff that is fixed here.
LEMMA GateTyped ==
  ASSUME TypeOK, Gate
  PROVE  TypeOK'
<1>1. TasksTyped'
  BY DEF Gate, TypeOK, TasksTyped, Goto, taskVars, WorkerPcs, Serving, Holding,
         Actors
<1>2. ConsumerTyped'
  BY DEF Gate, TypeOK, ConsumerTyped, Goto, redisVars, readVars, dispatchVars,
         streamVars, TasksTyped, Actors
<1>3. WorkerTyped'
  BY DEF Gate, TypeOK, WorkerTyped, Serving, TablesTyped, Rows
<1> QED
  BY <1>1, <1>2, <1>3 DEF Gate, TypeOK, dbVars, redisVars, histVars, boundVars,
         streamVars, TablesTyped, RedisTyped, HistoryTyped

\* A claim of a cancelled payload is released.
LEMMA CancelTyped ==
  ASSUME TypeOK, NEW s \in Subs, Cancel(s)
  PROVE  TypeOK'
<1>1. TablesTyped'
  BY DEF Cancel, TypeOK, TablesTyped, Released
<1>2. TasksTyped'
  BY DEF Cancel, TypeOK, TasksTyped, Actors
<1> QED
  BY <1>1, <1>2 DEF Cancel, TypeOK, redisVars, readVars, dispatchVars, workerVars,
         histVars, boundVars, streamVars, RedisTyped, ConsumerTyped, WorkerTyped,
         HistoryTyped

\* A subscription of the payload is skipped or taken in hand.
LEMMA RecheckTyped ==
  ASSUME TypeOK, NEW s \in Subs, Recheck(s)
  PROVE  TypeOK'
<1>1. TasksTyped'
  BY NoneIsNull DEF Recheck, TypeOK, TasksTyped, Goto, WorkerPcs, Serving, Actors
<1>2. ConsumerTyped'
  BY DEF Recheck, TypeOK, ConsumerTyped, Goto, redisVars, readVars, dispatchVars,
         streamVars, TasksTyped, Actors
<1>3. WorkerTyped'
  BY DEF Recheck, TypeOK, WorkerTyped, workerVars, Serving, Epochs
<1> QED
  BY <1>1, <1>2, <1>3 DEF Recheck, TypeOK, dbVars, redisVars, histVars, boundVars,
         streamVars, TablesTyped, RedisTyped, HistoryTyped

\* The worker lets go of its payload.
LEMMA PayloadDoneTyped ==
  ASSUME TypeOK, PayloadDone
  PROVE  TypeOK'
<1>1. TasksTyped'
  BY DEF PayloadDone, TypeOK, TasksTyped, Goto, taskVars, WorkerPcs, Holding,
         Actors
<1>2. ConsumerTyped'
  BY DEF PayloadDone, TypeOK, ConsumerTyped, Goto, redisVars, readVars,
         dispatchVars, streamVars
<1>3. WorkerTyped'
  BY DEF PayloadDone, TypeOK, WorkerTyped, Goto, Serving, TasksTyped, Actors
<1> QED
  BY <1>1, <1>2, <1>3 DEF PayloadDone, TypeOK, dbVars, redisVars, histVars,
         boundVars, streamVars, TablesTyped, RedisTyped, HistoryTyped

-----------------------------------------------------------------------------
(* Either task delivers *)

\* The first attempt: history counts the message, if there is one.
LEMMA SendTyped ==
  ASSUME TypeOK, NEW a \in Actors, Send(a)
  PROVE  TypeOK'
<1>1. TasksTyped'
  BY DEF Send, TypeOK, TasksTyped, Goto, ConsumerPcs, WorkerPcs, Dispatching,
         Serving, Holding, Actors
<1>2. ConsumerTyped'
  BY DEF Send, TypeOK, ConsumerTyped, Goto, redisVars, readVars, dispatchVars,
         streamVars, ConsumerPcs, TasksTyped, Actors
<1>3. WorkerTyped'
  BY DEF Send, TypeOK, WorkerTyped, Goto, workerVars, WorkerPcs, TasksTyped,
         Actors
<1>4. HistoryTyped'
  <2>1. hand[a] \in Subs /\ Epoch(a) \in Epochs
    BY EpochTyped, HandTyped DEF Send, Holding
  <2>2. UNCHANGED <<pushes, sent, pushAge>> \/ Accepted(a)
    BY DEF Send, NotAccepted, AcceptedUnseen, histVars
  <2>3. pushes' \in [Subs -> [Epochs -> Nat]]
    <3>1. pushes \in [Subs -> [Epochs -> Nat]]
      BY DEF TypeOK, HistoryTyped
    <3> QED
      BY <2>1, <2>2, <3>1, OneMoreTyped DEF Accepted
  <2>4. pushAge' \in [Subs -> 0..Cooldown + 1]
    <3>1. pushAge' \in {pushAge, [pushAge EXCEPT ![hand[a]] = 0]}
      BY <2>2 DEF Accepted
    <3>2. 0 \in 0..Cooldown + 1
      BY ConstantsTyped
    <3> QED
      BY <3>1, <3>2 DEF TypeOK, HistoryTyped
  <2>5. excuse' \in [Subs -> [Epochs -> Nat]]
    <3>1. excuse' \in {excuse, OneMore(excuse, hand[a], Epoch(a))}
      BY DEF Send, NotAccepted, AcceptedUnseen, histVars
    <3>2. excuse \in [Subs -> [Epochs -> Nat]]
      BY DEF TypeOK, HistoryTyped
    <3> QED
      BY <2>1, <3>1, <3>2, OneMoreTyped
  <2>6. faults' \in Nat
    BY DEF Send, NotAccepted, AcceptedUnseen, TypeOK, HistoryTyped
  <2>7. sent' \in [Subs -> Nat]
    BY <2>1, <2>2 DEF Accepted, TypeOK, HistoryTyped
  <2> QED
    BY <2>3, <2>4, <2>5, <2>6, <2>7 DEF Send, TypeOK, HistoryTyped
<1> QED
  BY <1>1, <1>2, <1>3, <1>4 DEF Send, TypeOK, dbVars, redisVars, streamVars,
         TablesTyped, RedisTyped

\* A flood wait ends.
LEMMA WakeTyped ==
  ASSUME TypeOK, NEW a \in Actors, Wake(a)
  PROVE  TypeOK'
<1>1. TasksTyped'
  BY DEF Wake, TypeOK, TasksTyped, Goto, taskVars, ConsumerPcs, WorkerPcs,
         Dispatching, Serving, Holding
<1>2. ConsumerTyped'
  BY DEF Wake, TypeOK, ConsumerTyped, Goto, redisVars, readVars, dispatchVars,
         streamVars, Dispatching
<1>3. WorkerTyped'
  BY DEF Wake, TypeOK, WorkerTyped, Goto, workerVars, Serving
<1> QED
  BY <1>1, <1>2, <1>3 DEF Wake, TypeOK, dbVars, redisVars, histVars, boundVars,
         streamVars, TablesTyped, RedisTyped, HistoryTyped

\* The second attempt.
LEMMA ResendTyped ==
  ASSUME TypeOK, NEW a \in Actors, Resend(a)
  PROVE  TypeOK'
<1>1. TasksTyped'
  BY DEF Resend, TypeOK, TasksTyped, Goto, taskVars, ConsumerPcs, WorkerPcs,
         Dispatching, Serving, Holding, Actors
<1>2. ConsumerTyped'
  BY DEF Resend, TypeOK, ConsumerTyped, Goto, redisVars, readVars, dispatchVars,
         streamVars, ConsumerPcs, TasksTyped, Actors
<1>3. WorkerTyped'
  BY DEF Resend, TypeOK, WorkerTyped, Goto, workerVars, WorkerPcs, TasksTyped,
         Actors
<1>4. HistoryTyped'
  <2>1. hand[a] \in Subs /\ Epoch(a) \in Epochs
    BY EpochTyped, HandTyped DEF Resend, Holding
  <2>2. UNCHANGED <<pushes, sent, pushAge>> \/ Accepted(a)
    BY DEF Resend, NotAccepted, AcceptedUnseen, histVars
  <2>3. pushes' \in [Subs -> [Epochs -> Nat]]
    <3>1. pushes \in [Subs -> [Epochs -> Nat]]
      BY DEF TypeOK, HistoryTyped
    <3> QED
      BY <2>1, <2>2, <3>1, OneMoreTyped DEF Accepted
  <2>4. pushAge' \in [Subs -> 0..Cooldown + 1]
    <3>1. pushAge' \in {pushAge, [pushAge EXCEPT ![hand[a]] = 0]}
      BY <2>2 DEF Accepted
    <3>2. 0 \in 0..Cooldown + 1
      BY ConstantsTyped
    <3> QED
      BY <3>1, <3>2 DEF TypeOK, HistoryTyped
  <2>5. excuse' \in [Subs -> [Epochs -> Nat]]
    <3>1. excuse' \in {excuse, OneMore(excuse, hand[a], Epoch(a))}
      BY DEF Resend, NotAccepted, AcceptedUnseen, histVars
    <3>2. excuse \in [Subs -> [Epochs -> Nat]]
      BY DEF TypeOK, HistoryTyped
    <3> QED
      BY <2>1, <3>1, <3>2, OneMoreTyped
  <2>6. faults' \in Nat
    BY DEF Resend, NotAccepted, AcceptedUnseen, TypeOK, HistoryTyped
  <2>7. sent' \in [Subs -> Nat]
    BY <2>1, <2>2 DEF Accepted, TypeOK, HistoryTyped
  <2> QED
    BY <2>3, <2>4, <2>5, <2>6, <2>7 DEF Resend, TypeOK, HistoryTyped
<1> QED
  BY <1>1, <1>2, <1>3, <1>4 DEF Resend, TypeOK, dbVars, redisVars, streamVars,
         TablesTyped, RedisTyped

\* The claim in hand is deleted.
LEMMA ReleaseTyped ==
  ASSUME TypeOK, NEW a \in Actors, Release(a)
  PROVE  TypeOK'
<1>1. TablesTyped'
  BY DEF Release, TypeOK, TablesTyped, Released
<1>2. TasksTyped'
  BY DEF Release, TypeOK, TasksTyped, Drop, Goto, ConsumerPcs, WorkerPcs,
         Dispatching, Serving, Holding
<1>3. ConsumerTyped'
  BY DEF Release, TypeOK, ConsumerTyped, Goto, redisVars, readVars, dispatchVars,
         streamVars, Dispatching
<1>4. WorkerTyped'
  BY DEF Release, TypeOK, WorkerTyped, Goto, workerVars, Serving
<1> QED
  BY <1>1, <1>2, <1>3, <1>4 DEF Release, TypeOK, redisVars, histVars, boundVars,
         streamVars, RedisTyped, HistoryTyped

\* The row in hand becomes a delivered one.
LEMMA CommitTyped ==
  ASSUME TypeOK, NEW a \in Actors, Commit(a)
  PROVE  TypeOK'
<1>1. TablesTyped'
  <2>1. ASSUME NEW r \in log
        PROVE  [r EXCEPT !.delivered = TRUE, !.age = 0] \in Rows
    BY DEF TypeOK, TablesTyped, Rows
  <2>2. log' \subseteq Rows
    BY <2>1 DEF Commit, TypeOK, TablesTyped
  <2> QED
    BY <2>2 DEF Commit, TypeOK, TablesTyped
<1>2. TasksTyped'
  BY ConstantsTyped DEF Commit, TypeOK, TasksTyped, Epoch, IsRow, Goto, redisVars,
         taskVars, readVars, dispatchVars, histVars, boundVars, Event, streamVars,
         ConsumerPcs, WorkerPcs, Dispatching, Serving, Holding, WorkerTyped,
         Actors
<1>3. ConsumerTyped'
  BY ConstantsTyped DEF Commit, TypeOK, ConsumerTyped, Epoch, IsRow, Goto,
         redisVars, taskVars, readVars, dispatchVars, histVars, boundVars, Event,
         streamVars, ConsumerPcs, Dispatching, RedisTyped, TasksTyped, Actors
<1>4. WorkerTyped'
  BY ConstantsTyped DEF Commit, TypeOK, WorkerTyped, Epoch, IsRow, Goto,
         redisVars, taskVars, readVars, dispatchVars, histVars, boundVars, Event,
         streamVars, WorkerPcs, Serving, TasksTyped, RedisTyped, TablesTyped,
         Rows, Entries, Payloads, Actors, Epochs
<1> QED
  BY <1>1, <1>2, <1>3, <1>4 DEF Commit, TypeOK, redisVars, taskVars, readVars,
         dispatchVars, histVars, boundVars, streamVars, RedisTyped, HistoryTyped

\* The quota is counted.
LEMMA CountTyped ==
  ASSUME TypeOK, NEW a \in Actors, Count(a)
  PROVE  TypeOK'
<1>1. TablesTyped'
  BY DEF Count, TypeOK, TablesTyped
<1>2. TasksTyped'
  BY DEF Count, TypeOK, TasksTyped, Goto, Drop, ConsumerPcs, WorkerPcs,
         Dispatching, Serving, Holding, Actors
<1>3. ConsumerTyped'
  BY DEF Count, TypeOK, ConsumerTyped, Goto, redisVars, readVars, dispatchVars,
         streamVars, ConsumerPcs, TasksTyped, Actors
<1>4. WorkerTyped'
  BY DEF Count, TypeOK, WorkerTyped, Goto, workerVars, WorkerPcs, TasksTyped,
         Actors
<1> QED
  BY <1>1, <1>2, <1>3, <1>4 DEF Count, TypeOK, redisVars, histVars, boundVars,
         streamVars, RedisTyped, HistoryTyped

\* The subscription is deleted by its quota.
LEMMA ExpireTyped ==
  ASSUME TypeOK, NEW a \in Actors, Expire(a)
  PROVE  TypeOK'
<1>1. TablesTyped'
  BY DEF Expire, TypeOK, TablesTyped, DeleteSub
<1>2. TasksTyped'
  BY DEF Expire, TypeOK, TasksTyped, Drop, Goto, ConsumerPcs, WorkerPcs,
         Dispatching, Serving, Holding
<1>3. ConsumerTyped'
  BY DEF Expire, TypeOK, ConsumerTyped, Goto, redisVars, readVars, dispatchVars,
         streamVars, Dispatching
<1>4. WorkerTyped'
  BY DEF Expire, TypeOK, WorkerTyped, Goto, workerVars, Serving
<1> QED
  BY <1>1, <1>2, <1>3, <1>4 DEF Expire, TypeOK, redisVars, histVars, boundVars,
         streamVars, RedisTyped, HistoryTyped

-----------------------------------------------------------------------------
(* Failures, restarts and the reaper *)

\* A dispatch that raises clears the locals of the consumer.
LEMMA DispatchFaultTyped ==
  ASSUME TypeOK, DispatchFault
  PROVE  TypeOK'
<1>1. TasksTyped'
  BY ConstantsTyped DEF DispatchFault, TypeOK, TasksTyped, LeaveDispatch, Goto,
         Drop, ConsumerPcs, Holding, Actors
<1>2. ConsumerTyped'
  BY ConstantsTyped DEF DispatchFault, TypeOK, ConsumerTyped, Dispatching,
         LeaveDispatch, redisVars, readVars, Goto, streamVars, RedisTyped,
         TasksTyped, Actors
<1>3. WorkerTyped'
  BY DEF DispatchFault, TypeOK, WorkerTyped, LeaveDispatch, workerVars, Goto
<1>4. HistoryTyped'
  BY DEF DispatchFault, Fault, TypeOK, HistoryTyped, histVars
<1> QED
  BY <1>1, <1>2, <1>3, <1>4 DEF DispatchFault, TypeOK, dbVars, redisVars,
         streamVars, TablesTyped, RedisTyped

\* So does an XACK that raises.
LEMMA AckFaultTyped ==
  ASSUME TypeOK, AckFault
  PROVE  TypeOK'
<1>1. TasksTyped'
  BY DEF AckFault, TypeOK, TasksTyped, Goto, taskVars, ConsumerPcs, Holding,
         Actors
<1>2. ConsumerTyped'
  BY ConstantsTyped DEF AckFault, TypeOK, ConsumerTyped, Goto, redisVars,
         streamVars, Dispatching, RedisTyped, TasksTyped, Actors
<1>3. WorkerTyped'
  BY DEF AckFault, TypeOK, WorkerTyped, Goto, workerVars
<1>4. HistoryTyped'
  BY DEF AckFault, Fault, TypeOK, HistoryTyped, histVars
<1> QED
  BY <1>1, <1>2, <1>3, <1>4 DEF AckFault, TypeOK, dbVars, redisVars, streamVars,
         TablesTyped, RedisTyped

\* An error clears the locals of the worker.
LEMMA WorkerFaultTyped ==
  ASSUME TypeOK, WorkerFault
  PROVE  TypeOK'
<1>1. TasksTyped'
  BY DEF WorkerFault, TypeOK, TasksTyped, Goto, Drop, WorkerPcs, Holding, Actors
<1>2. ConsumerTyped'
  BY DEF WorkerFault, TypeOK, ConsumerTyped, Goto, redisVars, readVars,
         dispatchVars, streamVars
<1>3. WorkerTyped'
  BY DEF WorkerFault, TypeOK, WorkerTyped, Goto, Serving, TasksTyped, Actors
<1>4. HistoryTyped'
  BY DEF WorkerFault, Fault, TypeOK, HistoryTyped, histVars
<1> QED
  BY <1>1, <1>2, <1>3, <1>4 DEF WorkerFault, TypeOK, dbVars, redisVars,
         streamVars, TablesTyped, RedisTyped

\* A crash clears everything in memory.
LEMMA CrashTyped ==
  ASSUME TypeOK, Crash
  PROVE  TypeOK'
<1>1. TasksTyped'
  BY ConstantsTyped DEF Crash, TasksTyped, Actors, ConsumerPcs, WorkerPcs, Holding
<1>2. ConsumerTyped'
  BY ConstantsTyped DEF Crash, TypeOK, ConsumerTyped, Actors, StartCursor,
         redisVars, streamVars, Dispatching, RedisTyped
<1>3. WorkerTyped'
  BY DEF Crash, WorkerTyped, Actors, Serving
<1>4. HistoryTyped'
  BY DEF Crash, TypeOK, HistoryTyped, histVars
<1> QED
  BY <1>1, <1>2, <1>3, <1>4 DEF Crash, TypeOK, dbVars, redisVars, streamVars,
         TablesTyped, RedisTyped

\* Both tasks begin with nothing in hand.
LEMMA RestartTyped ==
  ASSUME TypeOK, Restart
  PROVE  TypeOK'
<1>1. TasksTyped'
  BY DEF Restart, TypeOK, TasksTyped, Actors, taskVars, ConsumerPcs, WorkerPcs,
         Holding
<1>2. ConsumerTyped'
  BY DEF Restart, TypeOK, ConsumerTyped, Actors, redisVars, readVars,
         dispatchVars, streamVars, Dispatching
<1>3. WorkerTyped'
  BY DEF Restart, TypeOK, WorkerTyped, Actors, workerVars, Serving
<1> QED
  BY <1>1, <1>2, <1>3 DEF Restart, TypeOK, dbVars, redisVars, histVars, boundVars,
         streamVars, TablesTyped, RedisTyped, HistoryTyped

\* The reaper deletes rows, and history counts them.
LEMMA ReapTyped ==
  ASSUME TypeOK, Reap
  PROVE  TypeOK'
<1>1. TablesTyped'
  BY DEF Reap, TypeOK, TablesTyped
<1>2. HistoryTyped'
  <2>1. excuse' \in [Subs -> [Epochs -> Nat]]
    BY DEF Reap, TypeOK, HistoryTyped
  <2> QED
    BY <2>1 DEF Reap, TypeOK, HistoryTyped, boundVars
<1> QED
  BY <1>1, <1>2 DEF Reap, TypeOK, redisVars, taskVars, readVars, dispatchVars,
         workerVars, streamVars, RedisTyped, TasksTyped, ConsumerTyped,
         WorkerTyped

-----------------------------------------------------------------------------
(* Every behaviour *)

\* The initial state is well typed.
LEMMA InitTyped == Init => TypeOK
<1> SUFFICES ASSUME Init
             PROVE  TypeOK
  OBVIOUS
<1>1. TablesTyped
  BY ConstantsTyped DEF Init, TablesTyped
<1>2. RedisTyped
  BY DEF Init, RedisTyped
<1>3. TasksTyped
  BY ConstantsTyped DEF Init, TasksTyped, Actors, ConsumerPcs, WorkerPcs, Holding
<1>4. ConsumerTyped
  BY ConstantsTyped DEF Init, ConsumerTyped, StartCursor, Dispatching, Actors
<1>5. WorkerTyped
  BY DEF Init, WorkerTyped, Serving, Actors
<1>6. HistoryTyped
  <2>1. [e \in Epochs |-> 0] \in [Epochs -> Nat]
    OBVIOUS
  <2>2. pushes \in [Subs -> [Epochs -> Nat]] /\ excuse \in [Subs -> [Epochs -> Nat]]
    BY <2>1 DEF Init
  <2>3. pushAge \in [Subs -> 0..(Cooldown + 1)]
    BY ConstantsTyped DEF Init
  <2> QED
    BY <2>2, <2>3 DEF Init, HistoryTyped
<1> QED
  BY <1>1, <1>2, <1>3, <1>4, <1>5, <1>6 DEF TypeOK

\* The steps that either task takes to deliver.
LEMMA DeliverTyped ==
  ASSUME TypeOK, NEW a \in Actors, Deliver(a)
  PROVE  TypeOK'
  BY SendTyped, WakeTyped, ResendTyped, ReleaseTyped, CommitTyped, CountTyped,
     ExpireTyped DEF Deliver

\* Every step preserves the types.
LEMMA StepTyped ==
  ASSUME TypeOK, [Next]_vars
  PROVE  TypeOK'
<1>1. CASE Consume
  BY <1>1, ReadPendingTyped, CaughtUpTyped, ReadNewTyped, NextEventTyped,
     BatchDoneTyped, AckTyped, SetStatusTyped, SelectSubsTyped, InsertClaimTyped,
     InsertFailsTyped, ClaimsDoneTyped, EnqueueTyped, CheckCooldownTyped,
     NextPaidTyped, DeliverTyped DEF Consume, Actors
<1>2. CASE ServeDelayed
  BY <1>2, TakeTyped, GateTyped, PayloadDoneTyped, CancelTyped, RecheckTyped,
     DeliverTyped DEF ServeDelayed, Actors
<1>3. CASE Environment
  BY <1>3, PublishTyped, UnsubscribeTyped, ChangeTierTyped, TickTyped
  DEF Environment
<1>4. CASE Failure \/ Restart \/ Reap
  BY <1>4, DispatchFaultTyped, AckFaultTyped, WorkerFaultTyped, CrashTyped,
     RestartTyped, ReapTyped DEF Failure
<1>5. CASE UNCHANGED vars
  BY <1>5 DEF vars, dbVars, redisVars, streamVars, taskVars, readVars, dispatchVars,
     workerVars, histVars, boundVars, TypeOK, TablesTyped, RedisTyped, TasksTyped,
     ConsumerTyped, WorkerTyped, HistoryTyped
<1> QED
  BY <1>1, <1>2, <1>3, <1>4, <1>5 DEF Next

\* Every variable keeps its type in every behaviour.
THEOREM TypeInvariant == Spec => []TypeOK
  BY InitTyped, StepTyped, PTL DEF Spec

-----------------------------------------------------------------------------
(* Turns, slots and accounts *)

\* Where the consumer has subscriptions of its event to serve.
InDispatch == {"claim", "insert", "deliver", "send", "resend", "nap", "release",
               "commit", "count", "expire"}
\* Where a task has subscriptions of its event or payload to serve.
InTurn == InDispatch \cup {"gate", "cancel"}
\* Where the subscription in hand has not got its message.
BeforeMessage == {"send", "resend", "nap", "release"}

InHand(a, s, e) == pc[a] \in BeforeMessage /\ hand[a] = s /\ Epoch(a) = e
InTodo(a, s, e) == pc[a] \in InTurn /\ s \in todo[a] /\ Epoch(a) = e
InQueue(s, e) == pc["consumer"] \in InDispatch /\ s \in queue /\ Event.epoch = e
Scheduled(s, e) == {d \in delayed : d.msg.epoch = e /\ s \in d.msg.subs}

One(yes) == IF yes THEN 1 ELSE 0
TurnOf(a, s, e) == One(InHand(a, s, e)) + One(InTodo(a, s, e))
Turns(s, e) ==
  TurnOf("consumer", s, e) + TurnOf("worker", s, e) + One(InQueue(s, e))
    + Cardinality(Scheduled(s, e))

Slot(s, e) == s \notin live \/ Conflicts(s, e)

Account(s, e) == pushes[s][e] + Turns(s, e) <= excuse[s][e] + One(Slot(s, e))
Accounts == \A s \in Subs, e \in Epochs : Account(s, e)

\* Between two dispatches nothing is left to serve; the event in hand is pending and is
\* not read twice; the ZSET is finite.
Tidy ==
  /\ pc["consumer"] \notin InDispatch => todo["consumer"] = {} /\ queue = {}
  /\ batch \subseteq pel
  /\ pc["consumer"] \in Dispatching => cur \in pel \ batch
  /\ IsFiniteSet(delayed)

\* The inductive invariant.
AccountInv == TypeOK /\ Tidy /\ Accounts

-----------------------------------------------------------------------------
(* Steps that open no account *)

\* A step gives nobody a new turn for the slot, and does not free it.
NoNewTurn(s, e) ==
  /\ \A a \in Actors : /\ InHand(a, s, e)' => InHand(a, s, e)
                       /\ InTodo(a, s, e)' => InTodo(a, s, e)
  /\ InQueue(s, e)' => InQueue(s, e)
  /\ Slot(s, e) => Slot(s, e)'

\* Nor does it send, reap or schedule anything.
Modest ==
  /\ pushes' = pushes /\ excuse' = excuse /\ delayed' = delayed
  /\ \A s \in Subs, e \in Epochs : NoNewTurn(s, e)

\* The number of a finite set's elements is one.
LEMMA ScheduledCounted ==
  ASSUME NEW s \in Subs, NEW e \in Epochs, IsFiniteSet(delayed)
  PROVE  IsFiniteSet(Scheduled(s, e)) /\ Cardinality(Scheduled(s, e)) \in Nat
<1>1. Scheduled(s, e) \in SUBSET delayed
  BY DEF Scheduled
<1>2. IsFiniteSet(Scheduled(s, e))
  BY <1>1, FS_Subset
<1> QED
  BY <1>2, FS_CardinalityType

\* Reading the stream, looking at the subscriptions and acknowledging are modest.
LEMMA ReadingModest ==
  ASSUME TypeOK, Tidy,
         \/ ReadPending \/ CaughtUp \/ ReadNew \/ NextEvent \/ BatchDone \/ Ack
         \/ SetStatus \/ SelectSubs \/ ClaimsDone \/ \E s \in Subs : CheckCooldown(s)
  PROVE  Modest
<1> USE DEF TypeOK, TasksTyped, Tidy, Actors, Modest, NoNewTurn, InHand, InTodo, InQueue,
            InDispatch, InTurn, BeforeMessage, Slot, Conflicts, Epoch, Event, Goto, Drop,
            dbVars, redisVars, streamVars, taskVars, workerVars, histVars, dispatchVars
<1>1. CASE ReadPending
  BY <1>1 DEF ReadPending
<1>2. CASE CaughtUp
  BY <1>2 DEF CaughtUp
<1>3. CASE ReadNew
  BY <1>3 DEF ReadNew
<1>4. CASE NextEvent
  BY <1>4 DEF NextEvent
<1>5. CASE BatchDone
  BY <1>5 DEF BatchDone
<1>6. CASE Ack
  BY <1>6 DEF Ack, LeaveDispatch
<1>7. CASE SetStatus
  BY <1>7 DEF SetStatus
<1>8. CASE SelectSubs
  BY <1>8 DEF SelectSubs
<1>9. CASE ClaimsDone
  BY <1>9 DEF ClaimsDone
<1>10. ASSUME NEW s \in Subs, CheckCooldown(s)
       PROVE  Modest
  BY <1>10 DEF CheckCooldown
<1> QED
  BY <1>1, <1>2, <1>3, <1>4, <1>5, <1>6, <1>7, <1>8, <1>9, <1>10

\* So is what follows a message, and what the delayed worker does around its payload: a
\* subscription that is deleted has its slot taken for good.
LEMMA ServingModest ==
  ASSUME TypeOK, Tidy,
         \/ Gate \/ PayloadDone
         \/ \E a \in Actors : Wake(a) \/ Commit(a) \/ Count(a) \/ Expire(a)
  PROVE  Modest
<1> USE DEF TypeOK, TasksTyped, Tidy, Actors, Modest, NoNewTurn, InHand, InTodo, InQueue,
            InDispatch, InTurn, BeforeMessage, Slot, Conflicts, Epoch, Event, Goto, Drop,
            dbVars, redisVars, streamVars, taskVars, workerVars, histVars, dispatchVars
<1>1. CASE Gate
  BY <1>1 DEF Gate
<1>2. CASE PayloadDone
  BY <1>2 DEF PayloadDone
<1>3. ASSUME NEW a \in Actors, Wake(a)
      PROVE  Modest
  BY <1>3 DEF Wake
<1>4. ASSUME NEW a \in Actors, Commit(a)
      PROVE  Modest
  <2>1. ASSUME NEW s \in Subs, NEW e \in Epochs, Conflicts(s, e)
        PROVE  Conflicts(s, e)'
    <3>1. PICK r \in log : IsRow(r, s, e)
      BY <2>1
    <3>2. r \in Rows
      BY DEF TablesTyped
    <3>3. PICK x \in log' :
            x = IF IsRow(r, hand[a], Epoch(a)) THEN [r EXCEPT !.delivered = TRUE, !.age = 0]
                ELSE r
      BY <1>4 DEF Commit
    <3>4. IsRow(x, s, e)
      BY <3>1, <3>2, <3>3 DEF IsRow, Rows
    <3> QED BY <3>4
  <2>2. ASSUME NEW s \in Subs, NEW e \in Epochs, Slot(s, e)
        PROVE  Slot(s, e)'
    BY <1>4, <2>1, <2>2 DEF Commit, Slot
  <2>3. ASSUME NEW s \in Subs, NEW e \in Epochs
        PROVE  NoNewTurn(s, e)
    BY <1>4, <2>2 DEF Commit, NoNewTurn, InHand, InTodo, InQueue, Epoch, Event
  <2> QED
    BY <1>4, <2>3 DEF Commit, Modest
<1>5. ASSUME NEW a \in Actors, Count(a)
      PROVE  Modest
  BY <1>5 DEF Count
<1>6. ASSUME NEW a \in Actors, Expire(a)
      PROVE  Modest
  BY <1>6 DEF Expire, DeleteSub, IsRow
<1> QED
  BY <1>1, <1>2, <1>3, <1>4, <1>5, <1>6

\* A failure, a crash and a restart only give turns up.
LEMMA FailureModest ==
  ASSUME TypeOK, Tidy, Failure \/ InsertFails \/ Restart
  PROVE  Modest
<1> USE DEF TypeOK, TasksTyped, Tidy, Actors, Modest, NoNewTurn, InHand, InTodo, InQueue,
            InDispatch, InTurn, BeforeMessage, Slot, Conflicts, Epoch, Event, Goto, Drop,
            dbVars, redisVars, streamVars, taskVars, workerVars, histVars, dispatchVars
<1>1. CASE DispatchFault
  BY <1>1 DEF DispatchFault, LeaveDispatch
<1>2. CASE AckFault
  BY <1>2 DEF AckFault
<1>3. CASE WorkerFault
  BY <1>3 DEF WorkerFault
<1>4. CASE Crash
  BY <1>4 DEF Crash
<1>5. CASE InsertFails
  BY <1>5 DEF InsertFails, LeaveDispatch
<1>6. CASE Restart
  BY <1>6 DEF Restart
<1> QED
  BY <1>1, <1>2, <1>3, <1>4, <1>5, <1>6 DEF Failure

\* An event that arrives does not change the one in hand.
LEMMA PublishKeepsEvent ==
  ASSUME TypeOK, NEW l \in Locs, NEW to \in Statuses, NEW o \in Offers, NEW e \in Epochs,
         Publish(l, to, o, e), NEW p \in 1..Len(stream)
  PROVE  stream'[p] = stream[p] /\ Len(stream') = Len(stream) + 1
  BY DEF Publish, TypeOK, RedisTyped

\* Nor do it, the users and their tiers give anybody a turn.
LEMMA EnvironmentModest ==
  ASSUME TypeOK, Tidy, Environment, ~Tick
  PROVE  Modest
<1> USE DEF TypeOK, TasksTyped, Tidy, Actors, Modest, NoNewTurn, InHand, InTodo, InQueue,
            InDispatch, InTurn, BeforeMessage, Slot, Conflicts, Epoch, Goto, Drop,
            dbVars, redisVars, taskVars, workerVars, histVars, dispatchVars
<1>1. ASSUME NEW l \in Locs, NEW to \in Statuses, NEW o \in Offers, NEW e \in Epochs,
             Publish(l, to, o, e)
      PROVE  Modest
  <2>1. pc["consumer"] \in InTurn => Event' = Event
    <3>1. SUFFICES ASSUME pc["consumer"] \in InTurn
                   PROVE  Event' = Event
      OBVIOUS
    <3>2. cur \in 1..Len(stream)
      BY <3>1 DEF ConsumerTyped, ConsumerPcs, Dispatching, RedisTyped
    <3>3. stream'[cur] = stream[cur]
      BY <1>1, <3>2, PublishKeepsEvent
    <3> QED
      BY <1>1, <3>3 DEF Publish, Event
  <2> QED
    BY <1>1, <2>1 DEF Publish
<1>2. ASSUME NEW s \in Subs, Unsubscribe(s)
      PROVE  Modest
  BY <1>2 DEF Unsubscribe, DeleteSub, IsRow, Event, streamVars
<1>3. ASSUME NEW s \in Subs, ChangeTier(s)
      PROVE  Modest
  BY <1>3 DEF ChangeTier, Event, streamVars
<1> QED
  BY <1>1, <1>2, <1>3 DEF Environment

-----------------------------------------------------------------------------
(* Steps that move, add or spend a turn *)

\* What the accounts are kept in.
LEMMA Counted ==
  ASSUME NEW s \in Subs, NEW e \in Epochs
  PROVE  /\ \A a \in Actors :
              /\ One(InHand(a, s, e)) \in {0, 1} /\ One(InHand(a, s, e))' \in {0, 1}
              /\ One(InTodo(a, s, e)) \in {0, 1} /\ One(InTodo(a, s, e))' \in {0, 1}
         /\ One(InQueue(s, e)) \in {0, 1} /\ One(InQueue(s, e))' \in {0, 1}
         /\ One(Slot(s, e)) \in {0, 1} /\ One(Slot(s, e))' \in {0, 1}
  BY DEF One

\* An account, its parts, and what it was.
LEMMA AccountKnown ==
  ASSUME AccountInv, NEW s \in Subs, NEW e \in Epochs
  PROVE  /\ Account(s, e) /\ IsFiniteSet(Scheduled(s, e))
         /\ Cardinality(Scheduled(s, e)) \in Nat
         /\ pushes[s][e] \in Nat /\ excuse[s][e] \in Nat
  BY ScheduledCounted DEF AccountInv, Tidy, Accounts, TypeOK, HistoryTyped

\* An account that is not touched is kept.
LEMMA UntouchedAccount ==
  ASSUME AccountInv, NEW s \in Subs, NEW e \in Epochs, NoNewTurn(s, e),
         pushes'[s][e] = pushes[s][e], excuse'[s][e] = excuse[s][e],
         Cardinality(Scheduled(s, e)') \in Nat,
         Cardinality(Scheduled(s, e)') <= Cardinality(Scheduled(s, e))
  PROVE  Account(s, e)'
<1>1. /\ \A a \in Actors : /\ One(InHand(a, s, e))' <= One(InHand(a, s, e))
                           /\ One(InTodo(a, s, e))' <= One(InTodo(a, s, e))
      /\ One(InQueue(s, e))' <= One(InQueue(s, e))
      /\ One(Slot(s, e)) <= One(Slot(s, e))'
  BY DEF NoNewTurn, One
<1>2. TurnOf("consumer", s, e)' <= TurnOf("consumer", s, e)
      /\ TurnOf("worker", s, e)' <= TurnOf("worker", s, e)
  BY <1>1, Counted DEF TurnOf, Actors
<1>3. Turns(s, e)' <= Turns(s, e)
  BY <1>1, <1>2, Counted, AccountKnown DEF Turns, TurnOf, Actors
<1> QED
  BY <1>1, <1>3, Counted, AccountKnown DEF Account, Turns, TurnOf, Actors

\* A modest step keeps the accounts.
LEMMA ModestStep ==
  ASSUME AccountInv, Modest
  PROVE  Accounts'
<1>1. ASSUME NEW s \in Subs, NEW e \in Epochs
      PROVE  Account(s, e)'
  <2>1. Scheduled(s, e)' = Scheduled(s, e)
    BY DEF Modest, Scheduled
  <2> QED
    BY <2>1, AccountKnown, UntouchedAccount DEF Modest
<1> QED
  BY <1>1 DEF Accounts

\* A claim is a turn, and takes the slot.
LEMMA InsertClaimAccounts ==
  ASSUME AccountInv, TypeOK', InsertClaim
  PROVE  Accounts'
<1> DEFINE k == hand["consumer"]
           f == Event.epoch
<1> USE DEF Actors
<1>1. TypeOK /\ Tidy /\ pc["consumer"] = "insert" /\ k \in live /\ delayed' = delayed
      /\ pushes' = pushes /\ excuse' = excuse /\ live' = live /\ msg' = msg /\ Event' = Event
  BY DEF AccountInv, InsertClaim, redisVars, streamVars, histVars, workerVars, Event
<1>2. CASE Conflicts(k, f)
  <2>1. Modest
    BY <1>1, <1>2 DEF InsertClaim, Modest, NoNewTurn, InHand, InTodo, InQueue, InDispatch,
          InTurn, BeforeMessage, Slot, Conflicts, Epoch, Event, Goto, Drop, TypeOK, TasksTyped
  <2> QED BY <2>1, ModestStep
<1>3. CASE ~Conflicts(k, f)
  <2> SUFFICES ASSUME NEW s \in Subs, NEW e \in Epochs
               PROVE  Account(s, e)'
    BY DEF Accounts
  <2>1. CASE s = k /\ e = f
    <3>1. One(Slot(s, e)) = 0 /\ One(Slot(s, e))' = 1
      <4>1. ~Slot(s, e)
        BY <1>1, <1>3, <2>1 DEF Slot
      <4>2. NewClaim(s, e) \in log' /\ IsRow(NewClaim(s, e), s, e)
        BY <1>1, <1>3, <2>1 DEF InsertClaim, NewClaim, IsRow
      <4>3. Slot(s, e)'
        BY <4>2 DEF Slot, Conflicts
      <4> QED BY <4>1, <4>3 DEF One
    <3>2. /\ InHand("worker", s, e)' = InHand("worker", s, e)
          /\ InTodo("worker", s, e)' = InTodo("worker", s, e)
          /\ ~InHand("consumer", s, e)'
      BY <1>1, <1>3, <2>1 DEF InsertClaim, InHand, InTodo, InTurn, InDispatch,
         BeforeMessage, Epoch, Goto, Drop, TypeOK, TasksTyped
    <3>3. ASSUME s \in vip
          PROVE  One(InTodo("consumer", s, e))' + One(InQueue(s, e))'
                   <= One(InTodo("consumer", s, e)) + One(InQueue(s, e)) + 1
      <4>1. InQueue(s, e)' = InQueue(s, e)
        BY <1>1, <1>3, <2>1, <3>3
        DEF InsertClaim, InQueue, InDispatch, Goto, Actors, TypeOK, TasksTyped
      <4>2. One(InQueue(s, e))' = One(InQueue(s, e))
        BY <4>1 DEF One
      <4> QED BY <4>2, Counted
    <3>4. ASSUME s \notin vip
          PROVE  One(InTodo("consumer", s, e))' + One(InQueue(s, e))'
                   <= One(InTodo("consumer", s, e)) + One(InQueue(s, e)) + 1
      <4>1. InTodo("consumer", s, e)' = InTodo("consumer", s, e)
        BY <1>1, <1>3, <2>1, <3>4 DEF InsertClaim, InTodo, InTurn, InDispatch, Goto, Epoch,
           TypeOK, TasksTyped
      <4>2. One(InTodo("consumer", s, e))' = One(InTodo("consumer", s, e))
        BY <4>1 DEF One
      <4> QED BY <4>2, Counted
    <3>5. One(InTodo("consumer", s, e))' + One(InQueue(s, e))'
            <= One(InTodo("consumer", s, e)) + One(InQueue(s, e)) + 1
      BY <3>3, <3>4
    <3>6. /\ One(InHand("worker", s, e))' = One(InHand("worker", s, e))
          /\ One(InTodo("worker", s, e))' = One(InTodo("worker", s, e))
          /\ One(InHand("consumer", s, e))' = 0
      BY <3>2 DEF One
    <3>7. Scheduled(s, e)' = Scheduled(s, e)
      BY <1>1 DEF Scheduled
    <3> QED
      BY <1>1, <3>1, <3>5, <3>6, <3>7, Counted, AccountKnown DEF Account, Turns, TurnOf
  <2>2. CASE ~(s = k /\ e = f)
    <3>1. NoNewTurn(s, e)
      BY <1>1, <1>3, <2>2 DEF InsertClaim, NoNewTurn, InHand, InTodo, InQueue, InDispatch,
         InTurn, BeforeMessage, Slot, Conflicts, Epoch, Goto, Drop, TypeOK, TasksTyped
    <3>2. Scheduled(s, e)' = Scheduled(s, e)
      BY <1>1 DEF Scheduled
    <3> QED
      BY <1>1, <3>1, <3>2, UntouchedAccount, AccountKnown
  <2> QED BY <2>1, <2>2
<1> QED BY <1>2, <1>3

\* A subscription in todo comes in hand: it had a turn, and has it still.
LEMMA NextPaidAccounts ==
  ASSUME AccountInv, NEW k \in Subs, NextPaid(k)
  PROVE  Accounts'
<1> USE DEF Actors
<1>1. TypeOK /\ Tidy /\ pc["consumer"] = "deliver" /\ delayed' = delayed
      /\ pushes' = pushes /\ excuse' = excuse /\ live' = live /\ log' = log /\ msg' = msg
      /\ Event' = Event
  BY DEF AccountInv, NextPaid, redisVars, streamVars, histVars, workerVars, dispatchVars,
     dbVars, Event
<1> SUFFICES ASSUME NEW s \in Subs, NEW e \in Epochs
             PROVE  Account(s, e)'
  BY DEF Accounts
<1>2. Scheduled(s, e)' = Scheduled(s, e)
  BY <1>1 DEF Scheduled
<1>3. CASE s = k /\ e = Event.epoch
  <2>1. InTodo("consumer", s, e) /\ ~InTodo("consumer", s, e)'
        /\ InHand("consumer", s, e)'
    BY <1>1, <1>3 DEF NextPaid, InTodo, InHand, InTurn, InDispatch, BeforeMessage, Epoch, Goto,
       TypeOK, TasksTyped
  <2>2. /\ InHand("worker", s, e)' = InHand("worker", s, e)
        /\ InTodo("worker", s, e)' = InTodo("worker", s, e)
        /\ InQueue(s, e)' = InQueue(s, e)
        /\ Slot(s, e)' = Slot(s, e)
    BY <1>1 DEF NextPaid, InTodo, InHand, InQueue, InTurn, InDispatch, BeforeMessage, Epoch,
       Goto, TypeOK, TasksTyped, Slot, Conflicts, dispatchVars
  <2>3. /\ One(InTodo("consumer", s, e)) = 1 /\ One(InTodo("consumer", s, e))' = 0
        /\ One(InHand("consumer", s, e))' = 1
        /\ One(InHand("worker", s, e))' = One(InHand("worker", s, e))
        /\ One(InTodo("worker", s, e))' = One(InTodo("worker", s, e))
        /\ One(InQueue(s, e))' = One(InQueue(s, e))
        /\ One(Slot(s, e))' = One(Slot(s, e))
    BY <2>1, <2>2 DEF One
  <2> QED
    BY <1>1, <1>2, <2>3, Counted, AccountKnown DEF Account, Turns, TurnOf
<1>4. CASE ~(s = k /\ e = Event.epoch)
  <2>1. NoNewTurn(s, e)
    BY <1>1, <1>4 DEF NextPaid, NoNewTurn, InTodo, InHand, InQueue, InTurn, InDispatch,
       BeforeMessage, Epoch, Goto, TypeOK, TasksTyped, Slot, Conflicts, dispatchVars
  <2> QED
    BY <1>1, <1>2, <2>1, UntouchedAccount, AccountKnown
<1> QED BY <1>3, <1>4

\* The same in the delayed worker, where a subscription that is gone loses its turn.
LEMMA RecheckAccounts ==
  ASSUME AccountInv, NEW k \in Subs, Recheck(k)
  PROVE  Accounts'
<1> USE DEF Actors
<1>1. TypeOK /\ Tidy /\ pc["worker"] = "deliver" /\ delayed' = delayed
      /\ pushes' = pushes /\ excuse' = excuse /\ live' = live /\ log' = log /\ msg' = msg
      /\ Event' = Event
  BY DEF AccountInv, Recheck, redisVars, streamVars, histVars, workerVars, dispatchVars,
     dbVars, Event
<1> SUFFICES ASSUME NEW s \in Subs, NEW e \in Epochs
             PROVE  Account(s, e)'
  BY DEF Accounts
<1>2. Scheduled(s, e)' = Scheduled(s, e)
  BY <1>1 DEF Scheduled
<1>3. CASE s = k /\ e = msg.epoch
  <2>1. InTodo("worker", s, e) /\ ~InTodo("worker", s, e)'
    BY <1>1, <1>3 DEF Recheck, InTodo, InHand, InTurn, InDispatch, BeforeMessage, Epoch, Goto,
       TypeOK, TasksTyped
  <2>2. /\ InHand("consumer", s, e)' = InHand("consumer", s, e)
        /\ InTodo("consumer", s, e)' = InTodo("consumer", s, e)
        /\ InQueue(s, e)' = InQueue(s, e)
        /\ Slot(s, e)' = Slot(s, e)
    BY <1>1 DEF Recheck, InTodo, InHand, InQueue, InTurn, InDispatch, BeforeMessage, Epoch,
       Goto, TypeOK, TasksTyped, Slot, Conflicts, dispatchVars
  <2>3. /\ One(InTodo("worker", s, e)) = 1 /\ One(InTodo("worker", s, e))' = 0
        /\ One(InHand("consumer", s, e))' = One(InHand("consumer", s, e))
        /\ One(InTodo("consumer", s, e))' = One(InTodo("consumer", s, e))
        /\ One(InQueue(s, e))' = One(InQueue(s, e))
        /\ One(Slot(s, e))' = One(Slot(s, e))
    BY <2>1, <2>2 DEF One
  <2> QED
    BY <1>1, <1>2, <2>3, Counted, AccountKnown DEF Account, Turns, TurnOf
<1>4. CASE ~(s = k /\ e = msg.epoch)
  <2>1. NoNewTurn(s, e)
    BY <1>1, <1>4 DEF Recheck, NoNewTurn, InTodo, InHand, InQueue, InTurn, InDispatch,
       BeforeMessage, Epoch, Goto, TypeOK, TasksTyped, Slot, Conflicts, dispatchVars
  <2> QED
    BY <1>1, <1>2, <2>1, UntouchedAccount, AccountKnown
<1> QED BY <1>3, <1>4

\* A turn in free_queue becomes one in the ZSET.
LEMMA EnqueueAccounts ==
  ASSUME AccountInv, Enqueue
  PROVE  Accounts'
<1> DEFINE m == [loc |-> Event.loc, epoch |-> Event.epoch, subs |-> queue]
           d == [msg |-> m, due |-> timer]
<1> USE DEF Actors
<1>1. TypeOK /\ Tidy /\ pc["consumer"] = "deliver" /\ pc'["consumer"] = "ack"
      /\ delayed' \subseteq (delayed \cup {d}) /\ (queue = {} => delayed' = delayed)
      /\ pushes' = pushes /\ excuse' = excuse /\ live' = live /\ log' = log /\ msg' = msg
      /\ Event' = Event /\ pc'["worker"] = pc["worker"] /\ todo' = todo /\ hand' = hand
  BY DEF AccountInv, Enqueue, streamVars, histVars, workerVars, taskVars, dbVars, Event, Goto,
     TypeOK, TasksTyped
<1> SUFFICES ASSUME NEW s \in Subs, NEW e \in Epochs
             PROVE  Account(s, e)'
  BY DEF Accounts
<1>2. NoNewTurn(s, e) /\ ~InQueue(s, e)'
  BY <1>1 DEF NoNewTurn, InTodo, InHand, InQueue, InTurn, InDispatch, BeforeMessage, Epoch,
     Slot, Conflicts
<1>3. IsFiniteSet(Scheduled(s, e)) /\ Cardinality(Scheduled(s, e)) \in Nat
  BY AccountKnown
<1>4. CASE InQueue(s, e)
  <2>1. Scheduled(s, e)' \subseteq (Scheduled(s, e) \cup {d})
    BY <1>1 DEF Scheduled
  <2>2. /\ IsFiniteSet(Scheduled(s, e) \cup {d})
        /\ Cardinality(Scheduled(s, e) \cup {d}) \in Nat
        /\ Cardinality(Scheduled(s, e) \cup {d}) <= Cardinality(Scheduled(s, e)) + 1
    <3>1. IsFiniteSet(Scheduled(s, e) \cup {d})
      BY <1>3, FS_AddElement
    <3>2. Cardinality(Scheduled(s, e) \cup {d}) \in
            {Cardinality(Scheduled(s, e)), Cardinality(Scheduled(s, e)) + 1}
      BY <1>3, FS_AddElement
    <3> QED
      BY <1>3, <3>1, <3>2
  <2>3. /\ Cardinality(Scheduled(s, e)') \in Nat
        /\ Cardinality(Scheduled(s, e)') <= Cardinality(Scheduled(s, e)) + 1
    BY <2>1, <2>2, FS_Subset, FS_CardinalityType
  <2>4. One(InQueue(s, e)) = 1 /\ One(InQueue(s, e))' = 0
    BY <1>2, <1>4 DEF One
  <2>5. \A a \in Actors : /\ One(InHand(a, s, e))' <= One(InHand(a, s, e))
                          /\ One(InTodo(a, s, e))' <= One(InTodo(a, s, e))
    BY <1>2 DEF NoNewTurn, One
  <2>6. One(Slot(s, e)) <= One(Slot(s, e))'
    BY <1>2 DEF NoNewTurn, One
  <2>7. Turns(s, e)' <= Turns(s, e)
    BY <1>3, <2>3, <2>4, <2>5, Counted DEF Turns, TurnOf
  <2> QED
    BY <1>1, <2>3, <2>6, <2>7, Counted, AccountKnown DEF Account, Turns, TurnOf
<1>5. CASE ~InQueue(s, e)
  <2>1. Scheduled(s, e)' \subseteq Scheduled(s, e)
    BY <1>1, <1>5 DEF Scheduled, InQueue, InDispatch
  <2>2. Cardinality(Scheduled(s, e)') \in Nat
        /\ Cardinality(Scheduled(s, e)') <= Cardinality(Scheduled(s, e))
    BY <1>3, <2>1, FS_Subset, FS_CardinalityType
  <2> QED
    BY <1>1, <1>2, <2>2, UntouchedAccount
<1> QED BY <1>4, <1>5

\* A turn in the ZSET becomes one in the hands of the worker, which had none.
LEMMA TakeAccounts ==
  ASSUME AccountInv, NEW d \in delayed, Take(d)
  PROVE  Accounts'
<1> USE DEF Actors
<1>1. TypeOK /\ Tidy /\ pc["worker"] = "idle" /\ pc'["worker"] = "gate"
      /\ delayed' = delayed \ {d} /\ msg' = d.msg /\ todo'["worker"] = d.msg.subs
      /\ pushes' = pushes /\ excuse' = excuse /\ live' = live /\ log' = log
      /\ Event' = Event /\ pc'["consumer"] = pc["consumer"]
      /\ todo'["consumer"] = todo["consumer"] /\ hand' = hand /\ queue' = queue
  BY DEF AccountInv, Take, streamVars, histVars, dispatchVars, dbVars, Event, Goto,
     TypeOK, TasksTyped
<1> SUFFICES ASSUME NEW s \in Subs, NEW e \in Epochs
             PROVE  Account(s, e)'
  BY DEF Accounts
<1>2. /\ InHand("consumer", s, e)' = InHand("consumer", s, e)
      /\ InTodo("consumer", s, e)' = InTodo("consumer", s, e)
      /\ InQueue(s, e)' = InQueue(s, e) /\ Slot(s, e)' = Slot(s, e)
      /\ ~InHand("worker", s, e)'
      /\ InTodo("worker", s, e)' => d \in Scheduled(s, e)
  BY <1>1 DEF InTodo, InHand, InQueue, InTurn, InDispatch, BeforeMessage, Epoch, Slot,
     Conflicts, Scheduled
<1>3. IsFiniteSet(Scheduled(s, e)) /\ Cardinality(Scheduled(s, e)) \in Nat
  BY AccountKnown
<1>4. Scheduled(s, e)' = Scheduled(s, e) \ {d}
  BY <1>1 DEF Scheduled
<1>5. Cardinality(Scheduled(s, e)') =
        IF d \in Scheduled(s, e) THEN Cardinality(Scheduled(s, e)) - 1
        ELSE Cardinality(Scheduled(s, e))
  BY <1>3, <1>4, FS_RemoveElement
<1>6. Cardinality(Scheduled(s, e)') + One(InTodo("worker", s, e))'
        <= Cardinality(Scheduled(s, e))
  BY <1>2, <1>3, <1>5 DEF One
<1>7. Cardinality(Scheduled(s, e)') \in Int
  BY <1>3, <1>5
<1>8. /\ One(InHand("consumer", s, e))' = One(InHand("consumer", s, e))
      /\ One(InTodo("consumer", s, e))' = One(InTodo("consumer", s, e))
      /\ One(InQueue(s, e))' = One(InQueue(s, e)) /\ One(Slot(s, e))' = One(Slot(s, e))
      /\ One(InHand("worker", s, e))' = 0
  BY <1>2 DEF One
<1> QED
  BY <1>1, <1>6, <1>7, <1>8, Counted, AccountKnown DEF Account, Turns, TurnOf

\* What deletes the claim of k for event f gives up a turn for it, and touches nothing else.
Withdraws(k, f) ==
  /\ pushes' = pushes /\ excuse' = excuse /\ delayed' = delayed /\ live' = live
  /\ log' = Released(k, f)
  /\ Event' = Event /\ queue' = queue /\ msg' = msg

\* A row of another slot survives it.
LEMMA OthersKeepTheirSlot ==
  ASSUME NEW k \in Subs, NEW f \in Epochs, Withdraws(k, f), NEW s \in Subs, NEW e \in Epochs,
         ~(s = k /\ e = f), Slot(s, e)
  PROVE  Slot(s, e)'
  BY DEF Withdraws, Released, Slot, Conflicts, IsRow

\* A subscription of a cancelled payload gives up its turn and its slot together.
LEMMA CancelAccounts ==
  ASSUME AccountInv, NEW k \in Subs, Cancel(k)
  PROVE  Accounts'
<1> USE DEF Actors
<1>1. TypeOK /\ Tidy /\ pc["worker"] = "cancel" /\ pc' = pc /\ hand' = hand
      /\ k \in todo["worker"] /\ todo' = [todo EXCEPT !["worker"] = @ \ {k}]
      /\ Withdraws(k, msg.epoch)
  BY DEF AccountInv, Cancel, redisVars, streamVars, histVars, workerVars, dispatchVars,
     Event, Withdraws
<1>2. msg.epoch \in Epochs
  BY <1>1 DEF TypeOK, WorkerTyped, Serving, Payloads
<1> SUFFICES ASSUME NEW s \in Subs, NEW e \in Epochs
             PROVE  Account(s, e)'
  BY DEF Accounts
<1>3. Scheduled(s, e)' = Scheduled(s, e)
  BY <1>1 DEF Scheduled, Withdraws
<1>4. /\ InHand("consumer", s, e)' = InHand("consumer", s, e)
      /\ InTodo("consumer", s, e)' = InTodo("consumer", s, e)
      /\ InQueue(s, e)' = InQueue(s, e)
      /\ InHand("worker", s, e)' = InHand("worker", s, e)
      /\ InTodo("worker", s, e)' => InTodo("worker", s, e)
  BY <1>1 DEF InTodo, InHand, InQueue, InTurn, InDispatch, BeforeMessage, Epoch, TypeOK,
     TasksTyped, Withdraws
<1>5. CASE s = k /\ e = msg.epoch
  <2>1. InTodo("worker", s, e) /\ ~InTodo("worker", s, e)'
    BY <1>1, <1>5 DEF InTodo, InTurn, Epoch, TypeOK, TasksTyped
  <2>2. /\ One(InTodo("worker", s, e)) = 1 /\ One(InTodo("worker", s, e))' = 0
        /\ One(InHand("consumer", s, e))' = One(InHand("consumer", s, e))
        /\ One(InTodo("consumer", s, e))' = One(InTodo("consumer", s, e))
        /\ One(InQueue(s, e))' = One(InQueue(s, e))
        /\ One(InHand("worker", s, e))' = One(InHand("worker", s, e))
    BY <1>4, <2>1 DEF One
  <2> QED
    BY <1>1, <1>3, <2>2, Counted, AccountKnown DEF Account, Turns, TurnOf, Withdraws
<1>6. CASE ~(s = k /\ e = msg.epoch)
  <2>1. NoNewTurn(s, e)
    BY <1>1, <1>2, <1>4, <1>6, OthersKeepTheirSlot DEF NoNewTurn
  <2> QED
    BY <1>1, <1>3, <2>1, UntouchedAccount, AccountKnown DEF Withdraws
<1> QED BY <1>5, <1>6

\* A failed delivery does the same.
LEMMA ReleaseAccounts ==
  ASSUME AccountInv, NEW a \in Actors, Release(a)
  PROVE  Accounts'
<1> DEFINE k == hand[a]
           f == Epoch(a)
<1> USE DEF Actors
<1>1. TypeOK /\ Tidy /\ pc[a] = "release" /\ pc' = [pc EXCEPT ![a] = "deliver"]
      /\ todo' = todo /\ hand' = [hand EXCEPT ![a] = None] /\ Withdraws(k, f)
  BY DEF AccountInv, Release, redisVars, streamVars, histVars, workerVars, dispatchVars,
     Event, Withdraws, Drop, Goto
<1>2. k \in Subs /\ f \in Epochs
  BY <1>1, HandTyped, EpochTyped DEF Holding
<1> SUFFICES ASSUME NEW s \in Subs, NEW e \in Epochs
             PROVE  Account(s, e)'
  BY DEF Accounts
<1>3. Scheduled(s, e)' = Scheduled(s, e)
  BY <1>1 DEF Scheduled, Withdraws
<1>4. /\ \A b \in Actors : /\ InHand(b, s, e)' => InHand(b, s, e)
                           /\ InTodo(b, s, e)' => InTodo(b, s, e)
      /\ InQueue(s, e)' => InQueue(s, e)
  BY <1>1 DEF InTodo, InHand, InQueue, InTurn, InDispatch, BeforeMessage, Epoch, TypeOK,
     TasksTyped, Withdraws
<1>5. CASE s = k /\ e = f
  <2>1. InHand(a, s, e) /\ ~InHand(a, s, e)'
    BY <1>1, <1>5 DEF InHand, BeforeMessage, TypeOK, TasksTyped
  <2>2. /\ One(InHand(a, s, e)) = 1 /\ One(InHand(a, s, e))' = 0
        /\ \A b \in Actors : /\ One(InHand(b, s, e))' <= One(InHand(b, s, e))
                             /\ One(InTodo(b, s, e))' <= One(InTodo(b, s, e))
        /\ One(InQueue(s, e))' <= One(InQueue(s, e))
    BY <1>4, <2>1 DEF One
  <2>3. Turns(s, e)' <= Turns(s, e) - 1
    BY <1>3, <2>2, Counted, AccountKnown DEF Turns, TurnOf
  <2> QED
    BY <1>1, <1>3, <2>3, Counted, AccountKnown DEF Account, Turns, TurnOf, Withdraws
<1>6. CASE ~(s = k /\ e = f)
  <2>1. NoNewTurn(s, e)
    BY <1>1, <1>2, <1>4, <1>6, OthersKeepTheirSlot DEF NoNewTurn
  <2> QED
    BY <1>1, <1>3, <2>1, UntouchedAccount, AccountKnown DEF Withdraws
<1> QED BY <1>5, <1>6

\* A message spends the turn of the subscription in hand; one whose answer is lost leaves
\* the turn and an excuse.
LEMMA SendAccounts ==
  ASSUME AccountInv, NEW a \in Actors, Send(a) \/ Resend(a)
  PROVE  Accounts'
<1> DEFINE k == hand[a]
           f == Epoch(a)
<1> USE DEF Actors
<1>1. TypeOK /\ Tidy /\ pc[a] \in {"send", "resend"}
      /\ \E where \in {"commit", "release", "resend", "nap"} :
           /\ pc' = [pc EXCEPT ![a] = where]
           /\ where # "commit" => pushes' = pushes \/ AcceptedUnseen(a)
      /\ delayed' = delayed /\ todo' = todo /\ hand' = hand /\ live' = live /\ log' = log
      /\ Event' = Event /\ queue' = queue /\ msg' = msg
  BY DEF AccountInv, Send, Resend, redisVars, streamVars, workerVars, dispatchVars, dbVars,
     taskVars, Event, Goto, NotAccepted, histVars
<1>2. k \in Subs /\ f \in Epochs
  BY <1>1, HandTyped, EpochTyped DEF Holding
<1>3. \/ pushes' = pushes /\ excuse' = excuse
      \/ pushes' = OneMore(pushes, k, f) /\ excuse' = excuse /\ pc'[a] = "commit"
      \/ pushes' = OneMore(pushes, k, f) /\ excuse' = OneMore(excuse, k, f)
  BY <1>1 DEF Send, Resend, Accepted, AcceptedUnseen, NotAccepted, histVars, Goto, TypeOK,
     TasksTyped
<1> SUFFICES ASSUME NEW s \in Subs, NEW e \in Epochs
             PROVE  Account(s, e)'
  BY DEF Accounts
<1>4. Scheduled(s, e)' = Scheduled(s, e)
  BY <1>1 DEF Scheduled
<1>5. NoNewTurn(s, e)
  BY <1>1 DEF NoNewTurn, InTodo, InHand, InQueue, InTurn, InDispatch, BeforeMessage, Epoch,
     TypeOK, TasksTyped, Slot, Conflicts
<1>6. CASE s = k /\ e = f
  <2>1. InHand(a, s, e) /\ (pc'[a] = "commit" => ~InHand(a, s, e)')
    BY <1>1, <1>6 DEF InHand, BeforeMessage
  <2>2. /\ One(InHand(a, s, e)) = 1
        /\ pc'[a] = "commit" => One(InHand(a, s, e))' = 0
        /\ \A b \in Actors : /\ One(InHand(b, s, e))' <= One(InHand(b, s, e))
                             /\ One(InTodo(b, s, e))' <= One(InTodo(b, s, e))
        /\ One(InQueue(s, e))' <= One(InQueue(s, e))
        /\ One(Slot(s, e)) <= One(Slot(s, e))'
    BY <1>5, <2>1 DEF One, NoNewTurn
  <2>3. Turns(s, e)' <= Turns(s, e)
        /\ (pc'[a] = "commit" => Turns(s, e)' <= Turns(s, e) - 1)
    BY <1>4, <2>2, Counted, AccountKnown DEF Turns, TurnOf
  <2>4. Turns(s, e) \in Int /\ Turns(s, e)' \in Int
    BY <1>4, Counted, AccountKnown DEF Turns, TurnOf
  <2>5. \/ pushes'[s][e] = pushes[s][e] /\ excuse'[s][e] = excuse[s][e]
        \/ pushes'[s][e] = pushes[s][e] + 1 /\ excuse'[s][e] = excuse[s][e] /\ pc'[a] = "commit"
        \/ pushes'[s][e] = pushes[s][e] + 1 /\ excuse'[s][e] = excuse[s][e] + 1
    BY <1>1, <1>3, <1>6 DEF OneMore, TypeOK, HistoryTyped
  <2> QED
    BY <2>2, <2>3, <2>4, <2>5, Counted, AccountKnown DEF Account
<1>7. CASE ~(s = k /\ e = f)
  <2>1. pushes'[s][e] = pushes[s][e] /\ excuse'[s][e] = excuse[s][e]
    BY <1>1, <1>2, <1>3, <1>7 DEF OneMore, TypeOK, HistoryTyped
  <2> QED
    BY <1>4, <1>5, <2>1, UntouchedAccount, AccountKnown
<1> QED BY <1>6, <1>7

\* The reaper takes a slot for an excuse.
LEMMA ReapAccounts ==
  ASSUME AccountInv, Reap
  PROVE  Accounts'
<1> USE DEF Actors
<1>1. TypeOK /\ Tidy /\ pushes' = pushes /\ delayed' = delayed /\ live' = live
      /\ pc' = pc /\ hand' = hand /\ todo' = todo /\ queue' = queue /\ msg' = msg
      /\ Event' = Event
  BY DEF AccountInv, Reap, redisVars, streamVars, workerVars, dispatchVars, taskVars, Event
<1> SUFFICES ASSUME NEW s \in Subs, NEW e \in Epochs
             PROVE  Account(s, e)'
  BY DEF Accounts
<1>2. Scheduled(s, e)' = Scheduled(s, e)
  BY <1>1 DEF Scheduled
<1>3. /\ \A b \in Actors : /\ InHand(b, s, e)' = InHand(b, s, e)
                           /\ InTodo(b, s, e)' = InTodo(b, s, e)
      /\ InQueue(s, e)' = InQueue(s, e)
  BY <1>1 DEF InTodo, InHand, InQueue, Epoch
<1>4. CASE \E r \in log : IsRow(r, s, e) /\ Stale(r)
  <2>1. excuse'[s][e] = excuse[s][e] + 1
    BY <1>4 DEF Reap
  <2>2. /\ \A b \in Actors : /\ One(InHand(b, s, e))' = One(InHand(b, s, e))
                             /\ One(InTodo(b, s, e))' = One(InTodo(b, s, e))
        /\ One(InQueue(s, e))' = One(InQueue(s, e))
    BY <1>3 DEF One
  <2>3. Turns(s, e)' = Turns(s, e)
    BY <1>2, <2>2 DEF Turns, TurnOf
  <2>4. Turns(s, e) \in Int
    BY Counted, AccountKnown DEF Turns, TurnOf
  <2> QED
    BY <1>1, <2>1, <2>3, <2>4, Counted, AccountKnown DEF Account
<1>5. CASE ~\E r \in log : IsRow(r, s, e) /\ Stale(r)
  <2>1. excuse'[s][e] = excuse[s][e]
    BY <1>5 DEF Reap
  <2>2. Slot(s, e) => Slot(s, e)'
    BY <1>1, <1>5 DEF Reap, Slot, Conflicts
  <2>3. NoNewTurn(s, e)
    BY <1>3, <2>2 DEF NoNewTurn
  <2> QED
    BY <1>1, <1>2, <2>1, <2>3, UntouchedAccount, AccountKnown
<1> QED BY <1>4, <1>5

\* The scheduled payloads after a tick are those before it, and no more.
LEMMA TickSchedules ==
  ASSUME AccountInv, Tick, NEW s \in Subs, NEW e \in Epochs
  PROVE  /\ IsFiniteSet(Scheduled(s, e)') /\ Cardinality(Scheduled(s, e)') \in Nat
         /\ Cardinality(Scheduled(s, e)') <= Cardinality(Scheduled(s, e))
<1> DEFINE S == Scheduled(s, e)
           T == Scheduled(s, e)'
           sooner(d) == [d EXCEPT !.due = IF @ = 0 THEN 0 ELSE @ - 1]
           f == [d \in S |-> sooner(d)]
<1>1. \A d \in delayed : sooner(d).msg = d.msg
  BY DEF AccountInv, TypeOK, RedisTyped, Entries
<1>2. delayed' = {sooner(d) : d \in delayed}
  BY DEF Tick
<1>3. f \in Surjection(S, T)
  <2>1. \A d \in S : f[d] \in T
    BY <1>1, <1>2 DEF Scheduled
  <2>2. \A t \in T : \E d \in S : f[d] = t
    <3> SUFFICES ASSUME NEW t \in T
                 PROVE  \E d \in S : f[d] = t
      OBVIOUS
    <3>1. t \in delayed' /\ t.msg.epoch = e /\ s \in t.msg.subs
      BY DEF Scheduled
    <3>2. PICK d \in delayed : t = sooner(d)
      BY <1>2, <3>1
    <3>3. d \in S
      BY <1>1, <3>1, <3>2 DEF Scheduled
    <3>4. f[d] = t
      BY <3>2, <3>3
    <3> QED BY <3>3, <3>4
  <2>3. f \in [S -> T]
    BY <2>1
  <2> QED
    BY <2>2, <2>3 DEF Surjection
<1>4. IsFiniteSet(S)
  BY AccountKnown
<1>5. IsFiniteSet(T) /\ Cardinality(T) <= Cardinality(S)
  BY <1>3, <1>4, FS_Surjection
<1> QED
  BY <1>5, FS_CardinalityType

\* Time gives nobody a turn.
LEMMA TickAccounts ==
  ASSUME AccountInv, Tick
  PROVE  Accounts'
<1> USE DEF Actors
<1>1. TypeOK /\ Tidy /\ pushes' = pushes /\ excuse' = excuse /\ live' = live
      /\ pc' = pc /\ hand' = hand /\ todo' = todo /\ queue' = queue /\ msg' = msg
      /\ Event' = Event /\ log' = {Older(r) : r \in log}
  BY DEF AccountInv, Tick, streamVars, workerVars, Event
<1> SUFFICES ASSUME NEW s \in Subs, NEW e \in Epochs
             PROVE  Account(s, e)'
  BY DEF Accounts
<1>2. Conflicts(s, e) => Conflicts(s, e)'
  BY <1>1, OlderTyped DEF TypeOK, TablesTyped, Conflicts, IsRow
<1>3. NoNewTurn(s, e)
  BY <1>1, <1>2 DEF NoNewTurn, InTodo, InHand, InQueue, Epoch, Slot
<1> QED
  BY <1>1, <1>3, TickSchedules, UntouchedAccount

-----------------------------------------------------------------------------
(* Between two dispatches *)

\* Reading and acknowledging: what is read is pending, and nothing is read twice.
LEMMA ReadingTidy ==
  ASSUME TypeOK, Tidy,
         ReadPending \/ CaughtUp \/ ReadNew \/ NextEvent \/ BatchDone \/ Ack \/ SetStatus
  PROVE  Tidy'
<1> USE DEF TypeOK, TasksTyped, Tidy, Actors, InDispatch, Dispatching, Goto, Drop,
            dbVars, redisVars, streamVars, taskVars, workerVars, histVars, dispatchVars,
            readVars
<1>1. CASE ReadPending
  BY <1>1 DEF ReadPending
<1>2. CASE CaughtUp
  BY <1>2 DEF CaughtUp
<1>3. CASE ReadNew
  BY <1>3 DEF ReadNew
<1>4. CASE NextEvent
  BY <1>4 DEF NextEvent
<1>5. CASE BatchDone
  BY <1>5 DEF BatchDone
<1>6. CASE Ack
  BY <1>6 DEF Ack, LeaveDispatch
<1>7. CASE SetStatus
  BY <1>7 DEF SetStatus
<1> QED
  BY <1>1, <1>2, <1>3, <1>4, <1>5, <1>6, <1>7

\* Dispatching leaves with everybody claimed, served or scheduled.
LEMMA DispatchingTidy ==
  ASSUME TypeOK, Tidy,
         \/ SelectSubs \/ InsertClaim \/ InsertFails \/ ClaimsDone \/ Enqueue
         \/ \E s \in Subs : CheckCooldown(s) \/ NextPaid(s)
  PROVE  Tidy'
<1> USE DEF TypeOK, TasksTyped, Tidy, Actors, InDispatch, Dispatching, Goto, Drop,
            dbVars, redisVars, streamVars, taskVars, workerVars, histVars, dispatchVars,
            readVars
<1>1. CASE SelectSubs
  <2>1. todo["consumer"] = {} /\ queue = {}
    BY <1>1 DEF SelectSubs
  <2> QED BY <1>1, <2>1 DEF SelectSubs
<1>2. CASE InsertClaim
  BY <1>2 DEF InsertClaim
<1>3. CASE InsertFails
  BY <1>3 DEF InsertFails, LeaveDispatch
<1>4. CASE ClaimsDone
  BY <1>4 DEF ClaimsDone
<1>5. CASE Enqueue
  <2>1. IsFiniteSet(delayed')
    <3>1. PICK d : delayed' \subseteq delayed \cup {d}
      BY <1>5 DEF Enqueue
    <3>2. IsFiniteSet(delayed \cup {d})
      BY FS_AddElement
    <3> QED BY <3>1, <3>2, FS_Subset
  <2> QED BY <1>5, <2>1 DEF Enqueue
<1>6. ASSUME NEW s \in Subs, CheckCooldown(s)
      PROVE  Tidy'
  BY <1>6 DEF CheckCooldown
<1>7. ASSUME NEW s \in Subs, NextPaid(s)
      PROVE  Tidy'
  BY <1>7 DEF NextPaid
<1> QED
  BY <1>1, <1>2, <1>3, <1>4, <1>5, <1>6, <1>7

\* Neither the worker nor a message, whoever sends it, touches what the consumer has to do.
LEMMA ServingTidy ==
  ASSUME TypeOK, Tidy,
         \/ Gate \/ PayloadDone \/ \E d \in delayed : Take(d)
         \/ \E s \in Subs : Cancel(s) \/ Recheck(s)
         \/ \E a \in Actors : Deliver(a)
  PROVE  Tidy'
<1> USE DEF TypeOK, TasksTyped, Tidy, Actors, InDispatch, Dispatching, Goto, Drop,
            dbVars, redisVars, streamVars, taskVars, workerVars, histVars, dispatchVars,
            readVars
<1>1. CASE Gate \/ PayloadDone
  BY <1>1 DEF Gate, PayloadDone
<1>2. ASSUME NEW d \in delayed, Take(d)
      PROVE  Tidy'
  <2>1. IsFiniteSet(delayed')
    BY <1>2, FS_RemoveElement DEF Take
  <2> QED BY <1>2, <2>1 DEF Take
<1>3. ASSUME NEW s \in Subs, Cancel(s) \/ Recheck(s)
      PROVE  Tidy'
  BY <1>3 DEF Cancel, Recheck
<1>4. ASSUME NEW a \in Actors, Deliver(a)
      PROVE  Tidy'
  <2>1. CASE Send(a)
    BY <2>1 DEF Send
  <2>2. CASE Resend(a)
    BY <2>2 DEF Resend
  <2>3. CASE Wake(a) \/ Release(a) \/ Commit(a) \/ Count(a) \/ Expire(a)
    BY <2>3 DEF Wake, Release, Commit, Count, Expire
  <2> QED
    BY <1>4, <2>1, <2>2, <2>3 DEF Deliver
<1> QED
  BY <1>1, <1>2, <1>3, <1>4

\* A failure clears it, and the others leave it alone.
LEMMA OthersTidy ==
  ASSUME AccountInv, Failure \/ Restart \/ Reap \/ Environment
  PROVE  Tidy'
<1> USE DEF AccountInv, TypeOK, TasksTyped, Tidy, Actors, InDispatch, Dispatching, Goto, Drop,
            dbVars, redisVars, streamVars, taskVars, workerVars, histVars, dispatchVars,
            readVars
<1>1. CASE DispatchFault \/ Crash
  BY <1>1 DEF DispatchFault, LeaveDispatch, Crash
<1>2. CASE AckFault \/ WorkerFault
  <2>1. CASE AckFault
    BY <2>1 DEF AckFault
  <2>2. CASE WorkerFault
    BY <2>2 DEF WorkerFault
  <2> QED BY <1>2, <2>1, <2>2
<1>3. CASE Restart \/ Reap
  BY <1>3 DEF Restart, Reap, Up
<1>4. CASE Tick
  <2>1. IsFiniteSet(delayed')
    <3> DEFINE sooner(d) == [d EXCEPT !.due = IF @ = 0 THEN 0 ELSE @ - 1]
               f == [d \in delayed |-> sooner(d)]
    <3>1. delayed' = {sooner(d) : d \in delayed}
      BY <1>4 DEF Tick
    <3>2. f \in Surjection(delayed, delayed')
      BY <3>1 DEF Surjection
    <3> QED BY <3>2, FS_Surjection
  <2> QED BY <1>4, <2>1 DEF Tick
<1>5. ASSUME NEW l \in Locs, NEW to \in Statuses, NEW o \in Offers, NEW e \in Epochs,
             Publish(l, to, o, e)
      PROVE  Tidy'
  BY <1>5 DEF Publish
<1>6. ASSUME NEW s \in Subs, Unsubscribe(s) \/ ChangeTier(s)
      PROVE  Tidy'
  BY <1>6 DEF Unsubscribe, ChangeTier
<1> QED
  BY <1>1, <1>2, <1>3, <1>4, <1>5, <1>6 DEF Failure, Environment

-----------------------------------------------------------------------------
(* Every behaviour *)

\* Every account is empty at first.
LEMMA InitAccounts == Init => AccountInv
<1> SUFFICES ASSUME Init
             PROVE  AccountInv
  OBVIOUS
<1>1. Tidy
  BY FS_EmptySet DEF Init, Tidy, Dispatching, Actors
<1>2. ASSUME NEW s \in Subs, NEW e \in Epochs
      PROVE  Account(s, e)
  <2>1. Scheduled(s, e) = {}
    BY DEF Init, Scheduled
  <2>2. Cardinality(Scheduled(s, e)) = 0
    BY <2>1, FS_EmptySet
  <2>3. \A a \in Actors : ~InHand(a, s, e) /\ ~InTodo(a, s, e)
    BY DEF Init, InHand, InTodo, BeforeMessage, InTurn, InDispatch
  <2>4. ~InQueue(s, e)
    BY DEF Init, InQueue, InDispatch, Actors
  <2>5. Turns(s, e) = 0
    BY <2>2, <2>3, <2>4 DEF Turns, TurnOf, One, Actors
  <2>6. pushes[s][e] = 0 /\ excuse[s][e] = 0
    BY DEF Init
  <2> QED
    BY <2>5, <2>6 DEF Account, One
<1> QED
  BY <1>1, <1>2, InitTyped DEF AccountInv, Accounts

\* Every step keeps the accounts.
LEMMA AccountStep ==
  ASSUME AccountInv, [Next]_vars
  PROVE  AccountInv'
<1>1. TypeOK /\ TypeOK' /\ Tidy
  BY StepTyped DEF AccountInv
<1>2. CASE Consume
  <2>1. Tidy'
    BY <1>1, <1>2, ReadingTidy, DispatchingTidy, ServingTidy DEF Consume, Actors
  <2>2. Accounts'
    <3>1. CASE Deliver("consumer")
      BY <1>1, <3>1, ServingModest, ModestStep, SendAccounts, ReleaseAccounts
      DEF Deliver, Actors
    <3>2. CASE InsertClaim \/ Enqueue \/ \E s \in Subs : NextPaid(s)
      BY <1>1, <3>2, InsertClaimAccounts, EnqueueAccounts, NextPaidAccounts
    <3>3. CASE InsertFails
      BY <1>1, <3>3, FailureModest, ModestStep
    <3>4. CASE \/ ReadPending \/ CaughtUp \/ ReadNew \/ NextEvent \/ BatchDone \/ Ack
               \/ SetStatus \/ SelectSubs \/ ClaimsDone \/ \E s \in Subs : CheckCooldown(s)
      BY <1>1, <3>4, ReadingModest, ModestStep
    <3> QED
      BY <1>2, <3>1, <3>2, <3>3, <3>4 DEF Consume
  <2> QED BY <1>1, <2>1, <2>2 DEF AccountInv
<1>3. CASE ServeDelayed
  <2>1. Tidy'
    BY <1>1, <1>3, ServingTidy DEF ServeDelayed, Actors
  <2>2. Accounts'
    <3>1. CASE Deliver("worker")
      BY <1>1, <3>1, ServingModest, ModestStep, SendAccounts, ReleaseAccounts
      DEF Deliver, Actors
    <3>2. CASE Gate \/ PayloadDone
      BY <1>1, <3>2, ServingModest, ModestStep
    <3> QED
      BY <1>3, <3>1, <3>2, TakeAccounts, CancelAccounts, RecheckAccounts DEF ServeDelayed
  <2> QED BY <1>1, <2>1, <2>2 DEF AccountInv
<1>4. CASE Environment
  <2>1. CASE Tick
    BY <1>1, <1>4, <2>1, TickAccounts, OthersTidy DEF AccountInv
  <2>2. CASE ~Tick
    BY <1>1, <1>4, <2>2, EnvironmentModest, ModestStep, OthersTidy DEF AccountInv
  <2> QED BY <2>1, <2>2
<1>5. CASE Failure \/ Restart
  BY <1>1, <1>5, FailureModest, ModestStep, OthersTidy DEF AccountInv
<1>6. CASE Reap
  BY <1>1, <1>6, ReapAccounts, OthersTidy DEF AccountInv
<1>7. CASE UNCHANGED vars
  <2> USE <1>7 DEF vars, dbVars, redisVars, streamVars, taskVars, readVars, dispatchVars,
          workerVars, histVars, boundVars
  <2>1. Tidy'
    BY <1>1 DEF Tidy
  <2>2. Modest
    BY DEF Modest, NoNewTurn, InHand, InTodo, InQueue, Slot, Conflicts, Epoch, Event
  <2> QED BY <1>1, <2>1, <2>2, ModestStep DEF AccountInv
<1> QED
  BY <1>2, <1>3, <1>4, <1>5, <1>6, <1>7 DEF Next

\* The accounts balance in every behaviour.
LEMMA AccountsBalance == Spec => []AccountInv
  BY InitAccounts, AccountStep, PTL DEF Spec

\* A subscription gets one alert per event, and one more for each claim the reaper deleted
\* and each message whose answer was lost, whatever crashes, fails, is replayed or races.
THEOREM NoUnexcusedRepeat == Spec => []RepeatsAccounted
<1>1. AccountInv => RepeatsAccounted
  <2> SUFFICES ASSUME AccountInv, NEW s \in Subs, NEW e \in Epochs
               PROVE  pushes[s][e] <= 1 + excuse[s][e]
    BY DEF RepeatsAccounted
  <2> QED
    BY Counted, AccountKnown DEF Account, Turns, TurnOf, Actors
<1> QED
  BY <1>1, AccountsBalance, PTL

-----------------------------------------------------------------------------
(* The promise: what its phases are made of *)

\* An event of the epoch has been published.
Published(e) == \E p \in 1..Len(stream) : stream[p].epoch = e
\* An entry of it is not read, or not acknowledged.
Unacked(e) == \E p \in 1..Len(stream) : stream[p].epoch = e /\ (p > last \/ p \in pel)
InZset(e) == \E d \in delayed : d.msg.epoch = e
InWork(e) == msg # None /\ msg.epoch = e

\* The phases, told by what is pending.
LEMMA PhaseIs ==
  ASSUME NEW e \in Epochs
  PROVE  /\ Pending(e) <=> Unacked(e) \/ InZset(e) \/ InWork(e)
         /\ Phase(e) = IF Pending(e) THEN "open" ELSE IF Published(e) THEN "closed" ELSE "new"
  BY DEF Phase, Pending, Published, Unacked, InZset, InWork

\* The phases stay as they are.
SamePhases == \A e \in Epochs : Phase(e)' = Phase(e)

\* A step that leaves alerts, excuses and phases alone is no step of the promise.
LEMMA Stutters ==
  ASSUME pushes' = pushes, excuse' = excuse, SamePhases
  PROVE  P!Next \/ UNCHANGED P!promiseVars
  BY DEF P!promiseVars, SamePhases

\* What the phases depend on.
LEMMA SameHolders ==
  ASSUME stream' = stream, last' = last, pel' = pel, delayed' = delayed, msg' = msg
  PROVE  SamePhases
  BY PhaseIs DEF SamePhases, Phase, Pending

\* A step that changes the phase of one epoch at most, towards "closed".
Closes(f) ==
  /\ pushes' = pushes /\ excuse' = excuse
  /\ \A e \in Epochs \ {f} : Phase(e)' = Phase(e)
  /\ Pending(f) /\ Published(f)'

\* It closes that epoch or nothing.
LEMMA ClosesOne ==
  ASSUME NEW f \in Epochs, Closes(f)
  PROVE  P!Next \/ UNCHANGED P!promiseVars
<1>1. CASE Pending(f)'
  <2>1. Phase(f)' = Phase(f)
    BY <1>1 DEF Closes, Phase
  <2>2. SamePhases
    BY <2>1 DEF SamePhases, Closes
  <2> QED BY <2>2, Stutters DEF Closes
<1>2. CASE ~Pending(f)'
  <2>1. Phase(f) = "open" /\ Phase(f)' = "closed"
    BY <1>2 DEF Closes, Phase, Published
  <2>2. P!Close(f)
    BY <2>1 DEF P!Close, Closes
  <2> QED BY <2>2 DEF P!Next
<1> QED BY <1>1, <1>2

\* A payload is in the hand of a worker that serves it, and what is scheduled or served is
\* about an event that was published.
EmptyHanded == pc["worker"] \notin Serving => msg = None
HoldersPublished == \A e \in Epochs : InZset(e) \/ InWork(e) => Published(e)

PromiseInv == AccountInv /\ EmptyHanded /\ HoldersPublished

-----------------------------------------------------------------------------
(* Steps of the invariant *)

\* A step that leaves the payloads and the worker's place among them alone.
Aside ==
  /\ pc'["worker"] = pc["worker"] \/ pc'["worker"] \in Serving
  /\ msg' = msg /\ delayed' = delayed /\ stream' = stream

\* It keeps what is told of them.
LEMMA AsideKeeps ==
  ASSUME PromiseInv, Aside
  PROVE  EmptyHanded' /\ HoldersPublished'
  BY DEF PromiseInv, Aside, EmptyHanded, HoldersPublished, InZset, InWork, Published

\* Most of what the two tasks do is such a step, and it tells and acknowledges nothing.
LEMMA QuietlyAside ==
  ASSUME TypeOK,
         \/ ReadPending \/ CaughtUp \/ NextEvent \/ BatchDone \/ SetStatus \/ SelectSubs
         \/ InsertClaim \/ InsertFails \/ ClaimsDone \/ Gate
         \/ \E s \in Subs : CheckCooldown(s) \/ NextPaid(s) \/ Cancel(s) \/ Recheck(s)
         \/ \E a \in Actors : Wake(a) \/ Release(a) \/ Commit(a) \/ Count(a) \/ Expire(a)
  PROVE  Aside /\ pushes' = pushes /\ excuse' = excuse /\ last' = last /\ pel' = pel
<1> USE DEF TypeOK, TasksTyped, Actors, Aside, Goto, Drop, dbVars, redisVars, streamVars,
            taskVars, workerVars, histVars, dispatchVars, readVars, Serving
<1>1. CASE ReadPending \/ CaughtUp \/ NextEvent \/ BatchDone \/ SetStatus \/ SelectSubs
  BY <1>1 DEF ReadPending, CaughtUp, NextEvent, BatchDone, SetStatus, SelectSubs
<1>2. CASE InsertClaim \/ InsertFails \/ ClaimsDone \/ Gate
  BY <1>2 DEF InsertClaim, InsertFails, LeaveDispatch, ClaimsDone, Gate
<1>3. ASSUME NEW s \in Subs, CheckCooldown(s) \/ NextPaid(s) \/ Cancel(s) \/ Recheck(s)
      PROVE  Aside /\ pushes' = pushes /\ excuse' = excuse /\ last' = last /\ pel' = pel
  BY <1>3 DEF CheckCooldown, NextPaid, Cancel, Recheck
<1>4. ASSUME NEW a \in Actors, Wake(a) \/ Release(a) \/ Commit(a) \/ Count(a) \/ Expire(a)
      PROVE  Aside /\ pushes' = pushes /\ excuse' = excuse /\ last' = last /\ pel' = pel
  BY <1>4 DEF Wake, Release, Commit, Count, Expire
<1> QED
  BY <1>1, <1>2, <1>3, <1>4

\* So is what the users do, and most of what goes wrong.
LEMMA QuietlyElsewhere ==
  ASSUME TypeOK,
         \/ DispatchFault \/ AckFault
         \/ \E s \in Subs : Unsubscribe(s) \/ ChangeTier(s)
         \/ UNCHANGED vars
  PROVE  Aside /\ pushes' = pushes /\ excuse' = excuse /\ last' = last /\ pel' = pel
<1> USE DEF TypeOK, TasksTyped, Actors, Aside, Goto, Drop, vars, dbVars, redisVars, streamVars,
            taskVars, workerVars, histVars, dispatchVars, readVars, boundVars
<1>1. CASE DispatchFault
  BY <1>1 DEF DispatchFault, LeaveDispatch
<1>2. CASE AckFault
  BY <1>2 DEF AckFault
<1>3. ASSUME NEW s \in Subs, Unsubscribe(s) \/ ChangeTier(s)
      PROVE  Aside /\ pushes' = pushes /\ excuse' = excuse /\ last' = last /\ pel' = pel
  BY <1>3 DEF Unsubscribe, ChangeTier
<1>4. CASE UNCHANGED vars
  BY <1>4
<1> QED
  BY <1>1, <1>2, <1>3, <1>4

\* A step of the promise, the invariant kept.
Kept == EmptyHanded' /\ HoldersPublished' /\ (P!Next \/ UNCHANGED P!promiseVars)

\* Steps aside keep it.
LEMMA AsideStep ==
  ASSUME PromiseInv, Aside, pushes' = pushes, excuse' = excuse, last' = last, pel' = pel
  PROVE  Kept
  BY AsideKeeps, SameHolders, Stutters DEF Kept, Aside

\* What is read becomes pending as it stops being unread.
LEMMA ReadNewStep ==
  ASSUME PromiseInv, ReadNew
  PROVE  Kept
<1>1. TypeOK /\ Aside /\ pushes' = pushes /\ excuse' = excuse
  BY DEF ReadNew, PromiseInv, AccountInv, Aside, Goto, TypeOK, TasksTyped, Actors, workerVars,
     histVars
<1>2. ASSUME NEW e \in Epochs
      PROVE  Phase(e)' = Phase(e)
  <2>1. last' \in last..Len(stream)
    BY <1>1, ConstantsTyped DEF ReadNew, TypeOK, RedisTyped, Lesser
  <2>2. Unacked(e)' <=> Unacked(e)
    BY <1>1, <2>1 DEF ReadNew, Unacked, TypeOK, RedisTyped
  <2> QED
    BY <1>1, <2>2 DEF Phase, Pending, Unacked, Aside
<1> QED
  BY <1>1, <1>2, AsideKeeps, Stutters DEF Kept, SamePhases

\* Time moves no payload.
LEMMA TickStep ==
  ASSUME PromiseInv, Tick
  PROVE  Kept
<1>1. TypeOK /\ pushes' = pushes /\ excuse' = excuse /\ pc' = pc /\ msg' = msg
      /\ stream' = stream /\ last' = last /\ pel' = pel
  BY DEF Tick, PromiseInv, AccountInv, workerVars, streamVars
<1>2. ASSUME NEW e \in Epochs
      PROVE  InZset(e)' <=> InZset(e)
  <2>1. \A d \in delayed :
          [d EXCEPT !.due = IF @ = 0 THEN 0 ELSE @ - 1].msg = d.msg
    BY <1>1 DEF TypeOK, RedisTyped, Entries
  <2> QED
    BY <2>1 DEF Tick, InZset
<1>3. SamePhases
  <2> SUFFICES ASSUME NEW e \in Epochs
               PROVE  Phase(e)' = Phase(e)
    BY DEF SamePhases
  <2> QED
    BY <1>1, <1>2 DEF Phase, Pending, InZset
<1>4. EmptyHanded' /\ HoldersPublished'
  BY <1>1, <1>2 DEF PromiseInv, EmptyHanded, HoldersPublished, InWork, Published
<1> QED
  BY <1>1, <1>3, <1>4, Stutters DEF Kept

-----------------------------------------------------------------------------
(* Steps that open, hand over and close *)

\* The event in hand is pending.
LEMMA EventPending ==
  ASSUME PromiseInv, pc["consumer"] \in Dispatching
  PROVE  /\ Event.epoch \in Epochs /\ cur \in pel /\ cur \in 1..Len(stream)
         /\ Pending(Event.epoch) /\ Published(Event.epoch)
<1>1. TypeOK /\ cur \in pel
  BY DEF PromiseInv, AccountInv, Tidy
<1>2. cur \in 1..last /\ cur \in 1..Len(stream)
  BY <1>1 DEF TypeOK, RedisTyped
<1>3. Event \in Events
  BY <1>1, <1>2, EventTyped DEF TypeOK
<1> QED
  BY <1>1, <1>2, <1>3 DEF Pending, Published, Event, Events

\* What is published opens its epoch, unless it is open already.
LEMMA PublishStep ==
  ASSUME PromiseInv, NEW l \in Locs, NEW to \in Statuses, NEW o \in Offers, NEW f \in Epochs,
         Publish(l, to, o, f)
  PROVE  Kept
<1>1. TypeOK /\ pushes' = pushes /\ excuse' = excuse /\ pc' = pc /\ msg' = msg
      /\ delayed' = delayed /\ last' = last /\ pel' = pel
  BY DEF Publish, PromiseInv, AccountInv, workerVars, histVars
<1>2. /\ Len(stream') = Len(stream) + 1 /\ Len(stream) \in Nat /\ last \in 0..Len(stream)
      /\ stream'[Len(stream) + 1].epoch = f
      /\ \A p \in 1..Len(stream) : stream'[p] = stream[p]
  BY <1>1, PublishKeepsEvent DEF Publish, TypeOK, RedisTyped
<1>3. ASSUME NEW e \in Epochs
      PROVE  /\ Published(e)' <=> Published(e) \/ e = f
             /\ Unacked(e)' <=> Unacked(e) \/ e = f
  BY <1>1, <1>2 DEF Published, Unacked
<1>4. EmptyHanded' /\ HoldersPublished'
  BY <1>1, <1>3 DEF PromiseInv, EmptyHanded, HoldersPublished, InWork, InZset
<1>5. ASSUME NEW e \in Epochs
      PROVE  Phase(e)' = IF e = f THEN "open" ELSE Phase(e)
  <2>1. /\ Pending(e)' <=> Unacked(e)' \/ InZset(e)' \/ InWork(e)'
        /\ Phase(e)' = IF Pending(e)' THEN "open" ELSE IF Published(e)' THEN "closed" ELSE "new"
    BY DEF Phase, Pending, Published, Unacked, InZset, InWork
  <2>2. InZset(e)' = InZset(e) /\ InWork(e)' = InWork(e)
    BY <1>1 DEF InZset, InWork
  <2> QED
    BY <1>3, <2>1, <2>2, PhaseIs
<1>6. CASE Phase(f) = "open"
  <2>1. SamePhases
    BY <1>5, <1>6 DEF SamePhases
  <2> QED
    BY <1>1, <1>4, <2>1, Stutters DEF Kept
<1>7. CASE Phase(f) # "open"
  <2>1. P!Open(f)
    BY <1>1, <1>5, <1>7 DEF P!Open
  <2> QED
    BY <1>4, <2>1 DEF Kept, P!Next
<1> QED BY <1>6, <1>7

\* The entry in hand is pending before and after its free subscriptions are scheduled.
LEMMA EnqueueStep ==
  ASSUME PromiseInv, Enqueue
  PROVE  Kept
<1> DEFINE f == Event.epoch
<1>1. TypeOK /\ pushes' = pushes /\ excuse' = excuse /\ pc'["worker"] = pc["worker"]
      /\ msg' = msg /\ stream' = stream /\ last' = last /\ pel' = pel
      /\ pc["consumer"] \in Dispatching
  BY DEF Enqueue, PromiseInv, AccountInv, workerVars, histVars, streamVars, Goto, TypeOK,
     TasksTyped, Actors, Dispatching
<1>2. Pending(f) /\ Published(f) /\ f \in Epochs /\ cur \in pel /\ cur \in 1..Len(stream)
  BY <1>1, EventPending
<1>3. ASSUME NEW e \in Epochs, e # f
      PROVE  InZset(e)' <=> InZset(e)
  BY <1>3 DEF Enqueue, InZset
<1>4. EmptyHanded' /\ HoldersPublished'
  BY <1>1, <1>2, <1>3 DEF PromiseInv, EmptyHanded, HoldersPublished, InWork, Published
<1>5. ASSUME NEW e \in Epochs
      PROVE  Phase(e)' = Phase(e)
  <2>1. CASE e = f
    BY <1>1, <1>2, <2>1 DEF Phase, Pending, Event
  <2>2. CASE e # f
    BY <1>1, <1>3, <2>2 DEF Phase, Pending, InZset
  <2> QED BY <2>1, <2>2
<1> QED
  BY <1>1, <1>4, <1>5, Stutters DEF Kept, SamePhases

\* A payload that leaves the ZSET is in hand.
LEMMA TakeStep ==
  ASSUME PromiseInv, NEW d \in delayed, Take(d)
  PROVE  Kept
<1>1. TypeOK /\ pushes' = pushes /\ excuse' = excuse /\ msg = None /\ msg' = d.msg
      /\ stream' = stream /\ last' = last /\ pel' = pel /\ delayed' = delayed \ {d}
      /\ pc'["worker"] = "gate"
  BY DEF Take, PromiseInv, AccountInv, EmptyHanded, Serving, histVars, streamVars, Goto,
     TypeOK, TasksTyped, Actors
<1>2. d.msg # None
  BY <1>1, NoneIsNull DEF TypeOK, RedisTyped, Entries
<1>3. ASSUME NEW e \in Epochs
      PROVE  InZset(e)' \/ InWork(e)' <=> InZset(e) \/ InWork(e)
  BY <1>1, <1>2 DEF InZset, InWork
<1>4. EmptyHanded' /\ HoldersPublished'
  BY <1>1, <1>3 DEF PromiseInv, EmptyHanded, Serving, HoldersPublished, Published
<1>5. ASSUME NEW e \in Epochs
      PROVE  Phase(e)' = Phase(e)
  BY <1>1, <1>3 DEF Phase, Pending, InZset, InWork
<1> QED
  BY <1>1, <1>4, <1>5, Stutters DEF Kept, SamePhases

\* An acknowledgement may close the epoch of its entry.
LEMMA AckStep ==
  ASSUME PromiseInv, Ack
  PROVE  Kept
<1>1. TypeOK /\ pushes' = pushes /\ excuse' = excuse /\ Aside /\ last' = last
      /\ pel' = pel \ {cur} /\ pc["consumer"] \in Dispatching
  BY DEF Ack, LeaveDispatch, PromiseInv, AccountInv, workerVars, histVars, Goto, TypeOK,
     TasksTyped, Actors, Dispatching, Aside
<1>2. PICK f \in Epochs : f = Event.epoch /\ Pending(f) /\ cur \in 1..Len(stream)
  BY <1>1, EventPending
<1>3. ASSUME NEW e \in Epochs \ {f}
      PROVE  Phase(e)' = Phase(e)
  <2>1. Unacked(e)' <=> Unacked(e)
    BY <1>1, <1>2 DEF Unacked, Aside, Event
  <2> QED
    BY <1>1, <2>1 DEF Phase, Pending, Unacked, Aside
<1>4. Published(f)'
  BY <1>1, <1>2 DEF Aside, Published, Event
<1>5. Closes(f)
  BY <1>1, <1>2, <1>3, <1>4 DEF Closes
<1> QED
  BY <1>1, <1>2, <1>5, AsideKeeps, ClosesOne DEF Kept

\* A worker that lets its payload go, because it is served or lost, may close its epoch.
LEMMA LetGoStep ==
  ASSUME PromiseInv, PayloadDone \/ WorkerFault \/ Crash
  PROVE  Kept
<1>1. TypeOK /\ pushes' = pushes /\ excuse' = excuse /\ msg' = None /\ delayed' = delayed
      /\ stream' = stream /\ last' = last /\ pel' = pel
  BY DEF PayloadDone, WorkerFault, Crash, PromiseInv, AccountInv, histVars, redisVars,
     streamVars
<1>2. EmptyHanded' /\ HoldersPublished'
  BY <1>1 DEF PromiseInv, EmptyHanded, HoldersPublished, InWork, InZset, Published
<1>3. CASE msg = None
  BY <1>1, <1>2, <1>3, SameHolders, Stutters DEF Kept
<1>4. CASE msg # None
  <2>1. PICK f \in Epochs : f = msg.epoch
    BY <1>1, <1>4 DEF TypeOK, WorkerTyped, Payloads
  <2>2. Pending(f) /\ Published(f)
    BY <1>4, <2>1 DEF Pending, PromiseInv, HoldersPublished, InWork
  <2>3. Published(f)'
    BY <1>1, <2>1, <2>2 DEF Published
  <2>4. ASSUME NEW e \in Epochs \ {f}
        PROVE  Phase(e)' = Phase(e)
    BY <1>1, <1>4, <2>1 DEF Phase, Pending
  <2>5. Closes(f)
    BY <1>1, <2>2, <2>3, <2>4 DEF Closes
  <2> QED
    BY <1>2, <2>1, <2>5, ClosesOne DEF Kept
<1> QED BY <1>3, <1>4

-----------------------------------------------------------------------------
(* Steps that tell and excuse *)

\* Whoever has a message to send has a turn, and its event is pending.
LEMMA TurnInHand ==
  ASSUME PromiseInv, NEW a \in Actors, pc[a] \in {"send", "resend"}
  PROVE  /\ hand[a] \in Subs /\ Epoch(a) \in Epochs
         /\ Phase(Epoch(a)) = "open"
         /\ pushes[hand[a]][Epoch(a)] <= excuse[hand[a]][Epoch(a)]
<1> USE DEF Actors
<1>1. TypeOK /\ hand[a] \in Subs /\ Epoch(a) \in Epochs
  BY HandTyped, EpochTyped DEF PromiseInv, AccountInv, Holding
<1>2. Pending(Epoch(a))
  <2>1. CASE a = "consumer"
    BY <2>1, EventPending DEF Dispatching, Epoch
  <2>2. CASE a = "worker"
    BY <1>1, <2>2 DEF Epoch, Pending, TypeOK, WorkerTyped, Serving
  <2> QED BY <2>1, <2>2
<1>3. PICK s \in Subs, e \in Epochs : s = hand[a] /\ e = Epoch(a)
  BY <1>1
<1>4. One(InHand(a, s, e)) = 1
  BY <1>3 DEF One, InHand, BeforeMessage
<1>5. pushes[s][e] <= excuse[s][e]
  BY <1>4, Counted, AccountKnown DEF Account, Turns, TurnOf, PromiseInv
<1> QED
  BY <1>1, <1>2, <1>3, <1>5 DEF Phase

\* A message, seen or not, tells the subscription in hand of its event.
LEMMA SendStep ==
  ASSUME PromiseInv, NEW a \in Actors, Send(a) \/ Resend(a)
  PROVE  Kept
<1>1. /\ TypeOK /\ Aside /\ last' = last /\ pel' = pel
      /\ pc[a] \in {"send", "resend"}
      /\ \/ pushes' = pushes /\ excuse' = excuse
         \/ pushes' = OneMore(pushes, hand[a], Epoch(a)) /\ excuse' = excuse
         \/ /\ pushes' = OneMore(pushes, hand[a], Epoch(a))
            /\ excuse' = OneMore(excuse, hand[a], Epoch(a))
  BY DEF Send, Resend, Accepted, AcceptedUnseen, NotAccepted, histVars, Goto, PromiseInv,
     AccountInv, TypeOK, TasksTyped, Actors, Aside, workerVars, redisVars, streamVars, Serving
<1>2. SamePhases
  BY <1>1, SameHolders DEF Aside
<1>3. PICK s \in Subs, e \in Epochs :
        /\ s = hand[a] /\ e = Epoch(a) /\ Phase(e) = "open" /\ pushes[s][e] <= excuse[s][e]
  BY <1>1, TurnInHand
<1>4. [f \in Epochs |-> Phase(f)]' = [f \in Epochs |-> Phase(f)]
  BY <1>2 DEF SamePhases
<1>5. CASE pushes' = pushes /\ excuse' = excuse
  BY <1>1, <1>2, <1>5, AsideKeeps, Stutters DEF Kept
<1>6. CASE pushes' = OneMore(pushes, s, e) /\ excuse' = excuse
  <2>1. P!Tell(s, e)
    BY <1>3, <1>4, <1>6 DEF P!Tell, OneMore
  <2> QED
    BY <1>1, <2>1, AsideKeeps DEF Kept, P!Next
<1>7. CASE pushes' = OneMore(pushes, s, e) /\ excuse' = OneMore(excuse, s, e)
  <2>1. P!TellUnseen(s, e)
    BY <1>3, <1>4, <1>7 DEF P!TellUnseen, OneMore
  <2> QED
    BY <1>1, <2>1, AsideKeeps DEF Kept, P!Next
<1> QED
  BY <1>1, <1>3, <1>5, <1>6, <1>7

\* The reaper excuses one more alert of each claim it deletes.
LEMMA ReapStep ==
  ASSUME PromiseInv, Reap
  PROVE  Kept
<1> DEFINE slots == {x \in Subs \X Epochs : \E r \in log : IsRow(r, x[1], x[2]) /\ Stale(r)}
<1>1. TypeOK /\ Aside /\ pushes' = pushes /\ last' = last /\ pel' = pel
  BY DEF Reap, PromiseInv, AccountInv, Aside, redisVars, streamVars, workerVars
<1>2. SamePhases
  BY <1>1, SameHolders DEF Aside
<1>3. excuse' = [s \in Subs |-> [e \in Epochs |->
                   IF <<s, e>> \in slots THEN excuse[s][e] + 1 ELSE excuse[s][e]]]
  BY DEF Reap
<1>4. P!Excuse(slots)
  BY <1>1, <1>2, <1>3 DEF P!Excuse, SamePhases
<1> QED
  BY <1>1, <1>4, AsideKeeps DEF Kept, P!Next

-----------------------------------------------------------------------------
(* Every behaviour *)

\* Every epoch is new and nobody has been told anything at first.
LEMMA InitPromise == Init => PromiseInv /\ P!Init
<1> SUFFICES ASSUME Init
             PROVE  PromiseInv /\ P!Init
  OBVIOUS
<1>1. stream = <<>> /\ delayed = {} /\ msg = None
  BY DEF Init
<1>2. EmptyHanded /\ HoldersPublished
  BY <1>1 DEF EmptyHanded, HoldersPublished, InZset, InWork
<1>3. \A e \in Epochs : Phase(e) = "new"
  BY <1>1 DEF Phase, Pending
<1>4. P!Init
  BY <1>3 DEF P!Init, Init
<1> QED
  BY <1>2, <1>4, InitAccounts DEF PromiseInv

\* Every step keeps the promise.
LEMMA PromiseStep ==
  ASSUME PromiseInv, [Next]_vars
  PROVE  PromiseInv' /\ [P!Next]_P!promiseVars
<1>1. TypeOK /\ AccountInv'
  BY AccountStep DEF PromiseInv, AccountInv
<1> SUFFICES Kept
  BY <1>1 DEF Kept, PromiseInv
<1>2. CASE Consume
  <2>1. CASE Deliver("consumer")
    BY <1>1, <2>1, SendStep, QuietlyAside, AsideStep DEF Deliver, Actors
  <2>2. CASE ReadNew \/ Ack \/ Enqueue
    BY <2>2, ReadNewStep, AckStep, EnqueueStep
  <2>3. CASE ~Deliver("consumer") /\ ~ReadNew /\ ~Ack /\ ~Enqueue
    BY <1>1, <1>2, <2>3, QuietlyAside, AsideStep DEF Consume
  <2> QED BY <2>1, <2>2, <2>3
<1>3. CASE ServeDelayed
  <2>1. CASE Deliver("worker")
    BY <1>1, <2>1, SendStep, QuietlyAside, AsideStep DEF Deliver, Actors
  <2>2. CASE PayloadDone \/ \E d \in delayed : Take(d)
    BY <2>2, LetGoStep, TakeStep
  <2>3. CASE Gate \/ \E s \in Subs : Cancel(s) \/ Recheck(s)
    BY <1>1, <2>3, QuietlyAside, AsideStep
  <2> QED BY <1>3, <2>1, <2>2, <2>3 DEF ServeDelayed
<1>4. CASE Environment
  BY <1>1, <1>4, PublishStep, TickStep, QuietlyElsewhere, AsideStep DEF Environment
<1>5. CASE Failure
  BY <1>1, <1>5, LetGoStep, QuietlyElsewhere, AsideStep DEF Failure
<1>6. CASE Restart
  <2>1. /\ pushes' = pushes /\ excuse' = excuse /\ last' = last /\ pel' = pel
        /\ msg' = msg /\ delayed' = delayed /\ stream' = stream
    BY <1>6 DEF Restart, redisVars, streamVars, workerVars, histVars
  <2>2. msg = None
    BY <1>6 DEF Restart, Up, Serving, Actors, PromiseInv, EmptyHanded
  <2>3. EmptyHanded' /\ HoldersPublished'
    BY <2>1, <2>2 DEF PromiseInv, EmptyHanded, HoldersPublished, InZset, InWork, Published
  <2> QED BY <2>1, <2>3, SameHolders, Stutters DEF Kept
<1>7. CASE Reap \/ UNCHANGED vars
  BY <1>1, <1>7, ReapStep, QuietlyElsewhere, AsideStep
<1> QED
  BY <1>2, <1>3, <1>4, <1>5, <1>6, <1>7 DEF Next

\* The notifier implements the promise: alerts of an event only while something of it is
\* pending, one per subscription and one more per excuse.
THEOREM PromiseIsKept == Spec => PromiseKept
  BY InitPromise, PromiseStep, PTL DEF Spec, PromiseKept, P!Spec
=============================================================================
