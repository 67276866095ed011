------------------------------ MODULE Notifier ------------------------------
(***************************************************************************)
(* The notifier of the bot process (src/bot/notifier.py): the consumer of  *)
(* the Redis stream "charger:events", the delayed worker that serves the   *)
(* ZSET of free-tier notifications, and the reaper of stale claims, over   *)
(* the tables `subscriptions` and `notification_log`.                      *)
(*                                                                         *)
(* The two workers are asyncio tasks: every `await` on Redis, Postgres or  *)
(* Telegram is a point where the other one, a handler of the bot, or a     *)
(* crash may intervene, so every such call is an action of its own.        *)
(*                                                                         *)
(* Time is kept as ages and countdowns in ticks of one minute, never as    *)
(* dates: an age stops growing one past the largest threshold that reads   *)
(* it.  The code's thresholds are Cooldown = 1, Delay = 2, ReapAge = 5.    *)
(***************************************************************************)
EXTENDS Integers, Sequences, FiniteSets

CONSTANTS
  Subs,        \* ids of the subscriptions rows
  Locs,        \* charging locations
  Types,       \* connector types
  None,        \* NULL: no subscription or payload in hand, no status, no filter
  SubLoc,      \* [Subs -> Locs]: subscriptions.location_id
  SubType,     \* [Subs -> Types \cup {None}]: subscriptions.connector_type
  SubLimit,    \* [Subs -> Nat]: subscriptions.notify_limit, 0 standing for NULL
  Leavers,     \* the subscriptions whose owner may unsubscribe or delete the account
  PaidAtStart, \* the subscriptions whose owner is on the paid tier at first
  Offers,      \* the [freed, free] connector types a published event may carry
  Cooldown,    \* notify_cooldown_sec
  Delay,       \* free_tier_notify_delay_sec
  ReapAge,     \* _STALE_CLAIM_CUTOFF_MIN
  FloodWait,   \* the longest retry_after Telegram asks for
  ReadCount,   \* count=50 of XREADGROUP
  Prompt,      \* TRUE: time passes only while both workers wait
  TierMoves,   \* which changes of tier happen: a subset of {"up", "down"}
  MaxEvents, MaxCrashes, MaxFaults   \* bounds of the instance

Actors == {"consumer", "worker"}
Epochs == 1..MaxEvents
Statuses == {"AVAILABLE", "FULLY_USED"}
Events == [loc : Locs, to : Statuses, freed : SUBSET Types,
           free : SUBSET Types, epoch : Epochs]
Rows == [sub : Subs, epoch : Epochs, delivered : BOOLEAN, age : Nat]
Payloads == [loc : Locs, epoch : Epochs, subs : SUBSET Subs]
Entries == [msg : Payloads, due : 0..Delay]

ASSUME ConstantsTyped ==
  /\ SubLoc \in [Subs -> Locs]
  /\ SubType \in [Subs -> Types \cup {None}]
  /\ SubLimit \in [Subs -> Nat]
  /\ PaidAtStart \subseteq Subs /\ Leavers \subseteq Subs
  /\ Offers \subseteq [freed : SUBSET Types, free : SUBSET Types]
  /\ Cooldown \in Nat /\ Delay \in Nat /\ ReapAge \in Nat
  /\ FloodWait \in Nat /\ ReadCount \in Nat \ {0}
  /\ Prompt \in BOOLEAN
  /\ TierMoves \subseteq {"up", "down"}
  /\ MaxEvents \in Nat /\ MaxCrashes \in Nat /\ MaxFaults \in Nat

\* NULL is no subscription, connector type, status or payload.
ASSUME NoneIsNull == None \notin Subs \cup Types \cup Statuses \cup Payloads

VARIABLES
  \* Postgres
  live,      \* the rows of `subscriptions` that still exist
  count,     \* subscriptions.notify_count
  paid,      \* subscriptions whose owner is effectively on the paid tier
  log,       \* `notification_log`; age is that of sent_at, then of delivered_at
  \* Redis
  stream,    \* charger:events
  last,      \* last-delivered position of the group "notifier-group"
  pel,       \* positions delivered to "notifier-1" and not acknowledged
  status,    \* charger:location_status
  delayed,   \* charger:notify:delayed
  \* the memory of the two tasks
  pc,        \* where each task is
  hand,      \* the subscription a task is delivering to
  todo,      \* the subscriptions a task has still to serve: paid_now, tg_ids_subs
  nap,       \* what is left of a flood wait
  cursor,    \* of XREADGROUP: "0" replays the pending entries, ">" reads new ones
  batch,     \* entries of the last XREADGROUP still to dispatch
  cur,       \* the entry being dispatched
  rows,      \* selected subscriptions that are still to be claimed
  vip,       \* those of them that were paid when they were selected
  queue,     \* free_queue
  timer,     \* what is left, since `now`, of the delay of free notifications
  msg,       \* the payload the delayed worker has taken
  old,       \* the delivered rows that precede the delayed worker's cutoff
  \* history: what happened, which no code reads
  pushes,    \* alerts Telegram accepted, per subscription and event
  sent,      \* those of a subscription in all
  excuse,    \* claims reaped and replies lost, per subscription and event
  pushAge,   \* ticks since the last alert to a subscription
  second,    \* TRUE until a tick follows the last XADD
  crashes, faults

dbVars == <<live, count, paid, log>>
streamVars == <<stream, last, pel>>
redisVars == <<streamVars, status, delayed>>
readVars == <<cursor, batch>>
dispatchVars == <<cur, rows, vip, queue, timer>>
workerVars == <<msg, old>>
taskVars == <<hand, todo, nap>>
histVars == <<pushes, sent, excuse, pushAge>>
boundVars == <<second, crashes, faults>>
vars == <<dbVars, redisVars, pc, taskVars, readVars, dispatchVars, workerVars,
          histVars, boundVars>>

\* Faulty: only what arrives after the start, like the "$" cursor of old.
TailOnly == ">"

\* consume_events begins with the entries an earlier run left unacknowledged.
StartCursor == "0"

Init ==
  /\ live = Subs /\ count = [s \in Subs |-> 0] /\ paid = PaidAtStart /\ log = {}
  /\ stream = <<>> /\ last = 0 /\ pel = {}
  /\ status = [l \in Locs |-> None] /\ delayed = {}
  /\ pc = [a \in Actors |-> "idle"]
  /\ hand = [a \in Actors |-> None] /\ todo = [a \in Actors |-> {}]
  /\ nap = [a \in Actors |-> 0]
  /\ cursor = StartCursor /\ batch = {}
  /\ cur = 0 /\ rows = {} /\ vip = {} /\ queue = {} /\ timer = 0
  /\ msg = None /\ old = {}
  /\ pushes = [s \in Subs |-> [e \in Epochs |-> 0]] /\ sent = [s \in Subs |-> 0]
  /\ excuse = [s \in Subs |-> [e \in Epochs |-> 0]]
  /\ pushAge = [s \in Subs |-> Cooldown + 1]
  /\ second = FALSE /\ crashes = 0 /\ faults = 0

-----------------------------------------------------------------------------
(* Helpers *)

Lesser(m, n) == IF m < n THEN m ELSE n

\* The event the consumer is dispatching, and the epoch a task is delivering.
Event == stream[cur]
Epoch(a) == IF a = "consumer" THEN Event.epoch ELSE msg.epoch

Goto(a, where) == pc' = [pc EXCEPT ![a] = where]
Drop(a) == hand' = [hand EXCEPT ![a] = None]

OneMore(tally, s, e) == [tally EXCEPT ![s][e] = @ + 1]

IsRow(r, s, e) == r.sub = s /\ r.epoch = e
Claimed(s, e) == \E r \in log : IsRow(r, s, e) /\ ~r.delivered

\* Faulty: the slot counts as delivered from the start, so that a failed send
\* consumes the cooldown.
NewDelivery(s, e) == [sub |-> s, epoch |-> e, delivered |-> TRUE, age |-> 0]
\* Faulty: an undelivered claim does not count as a conflict.
ConflictsIfDelivered(s, e) == \E r \in log : IsRow(r, s, e) /\ r.delivered

\* The row that _claim_slot inserts, and the unique key that may prevent it.
NewClaim(s, e) == [sub |-> s, epoch |-> e, delivered |-> FALSE, age |-> 0]
Conflicts(s, e) == \E r \in log : IsRow(r, s, e)

\* Faulty: the delivered row instead of the undelivered one.
DeliveryReleased(s, e) == {r \in log : ~(IsRow(r, s, e) /\ r.delivered)}
\* The DELETE of _release_slot.
Released(s, e) == {r \in log : ~(IsRow(r, s, e) /\ ~r.delivered)}

\* ON DELETE CASCADE of notification_log.subscription_id.
DeleteSub(s) ==
  /\ live' = live \ {s}
  /\ log' = {r \in log : r.sub # s}

\* A delivered row no older than the cooldown, as of now.
InCooldown(s) == \E r \in log : r.sub = s /\ r.delivered /\ r.age <= Cooldown

\* Faulty: no second look at the cooldown when a delayed alert is delivered.
NoSecondLook(s) == FALSE

\* The same, as of the cutoff the delayed worker computed for its payload.
InCooldownSinceCutoff(s) ==
  \E r \in log : r.sub = s /\ r.delivered /\ <<s, r.epoch>> \notin old

\* Faulty: what is free now, instead of what has just been freed.
FreeNow(ev) == ev.free

\* transitioned_connector_types, or what an older poller sent in their place.
Transitioned(ev) == IF ev.freed # {} THEN ev.freed ELSE ev.free

Matches(s, ev) ==
  \/ SubType[s] = None
  \/ Transitioned(ev) = {}
  \/ SubType[s] \in Transitioned(ev)

\* Faulty: > for >=.
Overrun(s, n) == SubLimit[s] # 0 /\ n > SubLimit[s]

\* count >= limit in _increment_quota_and_check.
Exhausted(s, n) == SubLimit[s] # 0 /\ n >= SubLimit[s]

Up == \E a \in Actors : pc[a] # "down"

-----------------------------------------------------------------------------
(* The environment: the poller, the users, the clock *)

\* XADD by the poller: an alert or its opposite, stamped in whole seconds.
Publish(l, to, o, e) ==
  LET latest == IF stream = <<>> THEN 0 ELSE stream[Len(stream)].epoch
  IN  /\ Len(stream) < MaxEvents
      /\ e = latest + 1 \/ (second /\ e = latest)
      /\ stream' = Append(stream, [loc |-> l, to |-> to, freed |-> o.freed,
                                   free |-> o.free, epoch |-> e])
      /\ second' = TRUE
      /\ UNCHANGED <<dbVars, last, pel, status, delayed, pc, taskVars, readVars,
                     dispatchVars, workerVars, histVars, crashes, faults>>

\* A handler of the bot deletes the subscription (button, /unsubscribe, /delete_me).
Unsubscribe(s) ==
  /\ s \in live \cap Leavers
  /\ DeleteSub(s)
  /\ UNCHANGED <<count, paid, redisVars, pc, taskVars, readVars, dispatchVars,
                 workerVars, histVars, boundVars>>

\* A payment, a refund or the end of paid_until.
ChangeTier(s) ==
  /\ \/ s \notin paid /\ "up" \in TierMoves /\ paid' = paid \cup {s}
     \/ s \in paid /\ "down" \in TierMoves /\ paid' = paid \ {s}
  /\ UNCHANGED <<live, count, log, redisVars, pc, taskVars, readVars, dispatchVars,
                 workerVars, histVars, boundVars>>

\* A task sleeps: in XREADGROUP, between two polls of the ZSET, or in a flood wait.
Waits(a) ==
  \/ pc[a] \in {"down", "dead"}
  \/ pc[a] = "nap" /\ nap[a] > 0
  \/ a = "consumer" /\ pc[a] = "idle" /\ cursor = ">" /\ last = Len(stream)
  \/ a = "worker" /\ pc[a] = "idle" /\ \A d \in delayed : d.due > 0

Older(r) == [r EXCEPT !.age = Lesser(@ + 1, IF r.delivered THEN Cooldown + 1
                                            ELSE ReapAge + 1)]

Tick ==
  /\ Prompt => \A a \in Actors : Waits(a)
  /\ log' = {Older(r) : r \in log}
  /\ delayed' = {[d EXCEPT !.due = IF @ = 0 THEN 0 ELSE @ - 1] : d \in delayed}
  /\ nap' = [a \in Actors |-> IF nap[a] = 0 THEN 0 ELSE nap[a] - 1]
  /\ timer' = IF timer = 0 THEN 0 ELSE timer - 1
  /\ pushAge' = [s \in Subs |-> Lesser(pushAge[s] + 1, Cooldown + 1)]
  /\ second' = FALSE
  /\ UNCHANGED <<live, count, paid, streamVars, status, pc, hand, todo, readVars,
                 cur, rows, vip, queue, workerVars, pushes, sent, excuse, crashes, faults>>

-----------------------------------------------------------------------------
(* consume_events: reading the stream *)

\* XREADGROUP with cursor "0": the entries read before and never acknowledged.
\* Those of them the answer holds are the first ReadCount.
ReadPending ==
  /\ pc["consumer"] = "idle" /\ cursor = "0" /\ pel # {}
  /\ batch' = {p \in pel : Cardinality({q \in pel : q < p}) < ReadCount}
  /\ Goto("consumer", "next")
  /\ UNCHANGED <<dbVars, redisVars, taskVars, cursor, dispatchVars, workerVars,
                 histVars, boundVars>>

\* An empty answer: on to the live tail.
CaughtUp ==
  /\ pc["consumer"] = "idle" /\ cursor = "0" /\ pel = {}
  /\ cursor' = ">"
  /\ UNCHANGED <<dbVars, redisVars, pc, taskVars, batch, dispatchVars, workerVars,
                 histVars, boundVars>>

\* XREADGROUP with cursor ">": new entries, which become pending.
ReadNew ==
  /\ pc["consumer"] = "idle" /\ cursor = ">" /\ last < Len(stream)
  /\ last' = Lesser(last + ReadCount, Len(stream))
  /\ batch' = last + 1..last'
  /\ pel' = pel \cup batch'
  /\ Goto("consumer", "next")
  /\ UNCHANGED <<dbVars, stream, status, delayed, taskVars, cursor, dispatchVars,
                 workerVars, histVars, boundVars>>

NextEvent ==
  /\ pc["consumer"] = "next"
  /\ \E p \in batch :
       /\ \A q \in batch : p <= q
       /\ cur' = p
       /\ batch' = batch \ {p}
  /\ Goto("consumer", "hset")
  /\ UNCHANGED <<dbVars, redisVars, taskVars, cursor, rows, vip, queue, timer,
                 workerVars, histVars, boundVars>>

BatchDone ==
  /\ pc["consumer"] = "next" /\ batch = {}
  /\ Goto("consumer", "idle")
  /\ UNCHANGED <<dbVars, redisVars, taskVars, readVars, dispatchVars, workerVars,
                 histVars, boundVars>>

\* Faulty: on to the next dispatch without an event.
LeaveTwice ==
  /\ Goto("consumer", "hset")
  /\ cur' = 0 /\ rows' = {} /\ vip' = {} /\ queue' = {} /\ timer' = 0
  /\ Drop("consumer")
  /\ todo' = [todo EXCEPT !["consumer"] = {}]
  /\ nap' = [nap EXCEPT !["consumer"] = 0]

\* The consumer forgets the event in hand and turns to the next of its batch.
LeaveDispatch ==
  /\ Goto("consumer", "next")
  /\ cur' = 0 /\ rows' = {} /\ vip' = {} /\ queue' = {} /\ timer' = 0
  /\ Drop("consumer")
  /\ todo' = [todo EXCEPT !["consumer"] = {}]
  /\ nap' = [nap EXCEPT !["consumer"] = 0]

Ack ==
  /\ pc["consumer"] = "ack"
  /\ pel' = pel \ {cur}
  /\ LeaveDispatch
  /\ UNCHANGED <<dbVars, stream, last, status, delayed, readVars, workerVars,
                 histVars, boundVars>>

-----------------------------------------------------------------------------
(* dispatch_event *)

\* Faulty: an event that is no alert returns before the HSET.
MarkedIfAlert(ev) ==
  IF ev.to = "AVAILABLE" THEN [status EXCEPT ![ev.loc] = ev.to] ELSE status
\* The HSET of the location's current status.
Marked(ev) == [status EXCEPT ![ev.loc] = ev.to]

SetStatus ==
  /\ pc["consumer"] = "hset"
  /\ status' = Marked(Event)
  /\ Goto("consumer", IF Event.to = "AVAILABLE" THEN "select" ELSE "ack")
  /\ UNCHANGED <<dbVars, streamVars, delayed, taskVars, readVars, dispatchVars,
                 workerVars, histVars, boundVars>>

\* The SELECT of the location's subscriptions; the tier is read here, `now` taken
\* here, and the connector filter depends on nothing that changes later.
SelectSubs ==
  /\ pc["consumer"] = "select"
  /\ rows' = {s \in live : SubLoc[s] = Event.loc /\ Matches(s, Event)}
  /\ vip' = rows' \cap paid
  /\ timer' = Delay
  /\ Goto("consumer", "claim")
  /\ UNCHANGED <<dbVars, redisVars, taskVars, readVars, cur, queue, workerVars,
                 histVars, boundVars>>

\* _claim_slot, its SELECT: a subscription in cooldown is skipped.
CheckCooldown(s) ==
  /\ pc["consumer"] = "claim" /\ s \in rows
  /\ rows' = rows \ {s}
  /\ IF InCooldown(s)
     THEN UNCHANGED <<pc, hand>>
     ELSE /\ hand' = [hand EXCEPT !["consumer"] = s]
          /\ Goto("consumer", "insert")
  /\ UNCHANGED <<dbVars, redisVars, todo, nap, readVars, cur, vip, queue, timer,
                 workerVars, histVars, boundVars>>

\* _claim_slot, its INSERT ... ON CONFLICT DO NOTHING: the slot is taken and the
\* subscription joins paid_now or free_queue, unless a row of this event exists.
InsertClaim ==
  LET s == hand["consumer"]
  IN  /\ pc["consumer"] = "insert" /\ s \in live
      /\ IF Conflicts(s, Event.epoch)
         THEN UNCHANGED <<log, todo, queue>>
         ELSE /\ log' = log \cup {NewClaim(s, Event.epoch)}
              /\ IF s \in vip
                 THEN /\ todo' = [todo EXCEPT !["consumer"] = @ \cup {s}]
                      /\ UNCHANGED queue
                 ELSE /\ queue' = queue \cup {s}
                      /\ UNCHANGED todo
      /\ Drop("consumer")
      /\ Goto("consumer", "claim")
      /\ UNCHANGED <<live, count, paid, redisVars, nap, readVars, cur, rows, vip,
                     timer, workerVars, histVars, boundVars>>

\* The subscription was deleted since the SELECT: its foreign key is gone, the
\* INSERT raises, and the whole dispatch is given up.
InsertFails ==
  /\ pc["consumer"] = "insert" /\ hand["consumer"] \notin live
  /\ LeaveDispatch
  /\ UNCHANGED <<dbVars, redisVars, readVars, workerVars, histVars, boundVars>>

ClaimsDone ==
  /\ pc["consumer"] = "claim" /\ rows = {}
  /\ Goto("consumer", "deliver")
  /\ UNCHANGED <<dbVars, redisVars, taskVars, readVars, dispatchVars, workerVars,
                 histVars, boundVars>>

\* The next of paid_now.
NextPaid(s) ==
  /\ pc["consumer"] = "deliver" /\ s \in todo["consumer"]
  /\ todo' = [todo EXCEPT !["consumer"] = @ \ {s}]
  /\ hand' = [hand EXCEPT !["consumer"] = s]
  /\ Goto("consumer", "send")
  /\ UNCHANGED <<dbVars, redisVars, nap, readVars, dispatchVars, workerVars,
                 histVars, boundVars>>

\* All paid are served: ZADD of the free ones, if any.  A member that is already
\* there only gets a new score.
Enqueue ==
  LET m == [loc |-> Event.loc, epoch |-> Event.epoch, subs |-> queue]
  IN  /\ pc["consumer"] = "deliver" /\ todo["consumer"] = {}
      /\ delayed' = IF queue = {} THEN delayed
                    ELSE {d \in delayed : d.msg # m} \cup {[msg |-> m, due |-> timer]}
      /\ queue' = {}
      /\ Goto("consumer", "ack")
      /\ UNCHANGED <<dbVars, streamVars, status, taskVars, readVars, cur, rows, vip,
                     timer, workerVars, histVars, boundVars>>

-----------------------------------------------------------------------------
(* delayed_worker *)

\* Faulty: the present, in seconds, against a score in another unit.
DueInAnotherUnit(d) == d.due > Delay

\* ZRANGEBYSCORE: the entry's score is not in the future.
Due(d) == d.due = 0

\* ZRANGEBYSCORE and ZREM: the entry leaves Redis before it is served.
Take(d) ==
  /\ pc["worker"] = "idle" /\ d \in delayed /\ Due(d)
  /\ delayed' = delayed \ {d}
  /\ msg' = d.msg
  /\ todo' = [todo EXCEPT !["worker"] = d.msg.subs]
  /\ Goto("worker", "gate")
  /\ UNCHANGED <<dbVars, streamVars, status, hand, nap, readVars, dispatchVars, old,
                 histVars, boundVars>>

\* HGET of the current status: the payload is cancelled unless the location is
\* AVAILABLE or unknown.  Otherwise the cutoff is fixed, once for the payload.
Gate ==
  /\ pc["worker"] = "gate"
  /\ IF status[msg.loc] \in Statuses \ {"AVAILABLE"}
     THEN /\ Goto("worker", "cancel")
          /\ UNCHANGED old
     ELSE /\ Goto("worker", "deliver")
          /\ old' = {<<r.sub, r.epoch>> :
                       r \in {x \in log : x.delivered /\ x.age > Cooldown}}
  /\ UNCHANGED <<dbVars, redisVars, taskVars, readVars, dispatchVars, msg, histVars,
                 boundVars>>

\* One _release_slot of a cancelled payload.
Cancel(s) ==
  /\ pc["worker"] = "cancel" /\ s \in todo["worker"]
  /\ log' = Released(s, msg.epoch)
  /\ todo' = [todo EXCEPT !["worker"] = @ \ {s}]
  /\ UNCHANGED <<live, count, paid, redisVars, pc, hand, nap, readVars, dispatchVars,
                 workerVars, histVars, boundVars>>

\* The check before each delayed delivery: the subscription still exists and has
\* received nothing since the cutoff.
Recheck(s) ==
  /\ pc["worker"] = "deliver" /\ s \in todo["worker"]
  /\ todo' = [todo EXCEPT !["worker"] = @ \ {s}]
  /\ IF s \notin live
     THEN UNCHANGED <<pc, hand>>
     ELSE /\ hand' = [hand EXCEPT !["worker"] = s]
          /\ Goto("worker", IF InCooldownSinceCutoff(s) THEN "release" ELSE "send")
  /\ UNCHANGED <<dbVars, redisVars, nap, readVars, dispatchVars, workerVars,
                 histVars, boundVars>>

PayloadDone ==
  /\ pc["worker"] \in {"cancel", "deliver"} /\ todo["worker"] = {}
  /\ Goto("worker", "idle")
  /\ msg' = None /\ old' = {}
  /\ UNCHANGED <<dbVars, redisVars, taskVars, readVars, dispatchVars, histVars,
                 boundVars>>

-----------------------------------------------------------------------------
(* _send_with_slot, run by either task *)

\* Telegram accepts the message for subscription s.
Accepted(a) ==
  /\ pushes' = OneMore(pushes, hand[a], Epoch(a))
  /\ sent' = [sent EXCEPT ![hand[a]] = @ + 1]
  /\ pushAge' = [pushAge EXCEPT ![hand[a]] = 0]

\* The message arrives but the task is told otherwise (connection lost, answer
\* not understood).  A bounded number of times.
AcceptedUnseen(a) ==
  /\ faults < MaxFaults
  /\ faults' = faults + 1
  /\ Accepted(a)
  /\ excuse' = OneMore(excuse, hand[a], Epoch(a))

NotAccepted == UNCHANGED <<histVars, faults>>

\* The first attempt: accepted; refused for good (blocked, bad payload, unknown
\* error); flood wait; network error.
Send(a) ==
  /\ pc[a] = "send"
  /\ \/ Accepted(a) /\ Goto(a, "commit") /\ UNCHANGED <<excuse, faults, nap>>
     \/ (NotAccepted \/ AcceptedUnseen(a)) /\ Goto(a, "release") /\ UNCHANGED nap
     \/ (NotAccepted \/ AcceptedUnseen(a)) /\ Goto(a, "resend") /\ UNCHANGED nap
     \/ /\ NotAccepted /\ Goto(a, "nap")
        /\ \E n \in 1..FloodWait : nap' = [nap EXCEPT ![a] = n]
  /\ UNCHANGED <<dbVars, redisVars, hand, todo, readVars, dispatchVars, workerVars,
                 second, crashes>>

Wake(a) ==
  /\ pc[a] = "nap" /\ nap[a] = 0
  /\ Goto(a, "resend")
  /\ UNCHANGED <<dbVars, redisVars, taskVars, readVars, dispatchVars, workerVars,
                 histVars, boundVars>>

\* The only other attempt: whatever goes wrong is a failure.
Resend(a) ==
  /\ pc[a] = "resend"
  /\ \/ Accepted(a) /\ Goto(a, "commit") /\ UNCHANGED <<excuse, faults>>
     \/ (NotAccepted \/ AcceptedUnseen(a)) /\ Goto(a, "release")
  /\ UNCHANGED <<dbVars, redisVars, taskVars, readVars, dispatchVars, workerVars,
                 second, crashes>>

\* _release_slot: DELETE of the row, if it is still an undelivered one.
Release(a) ==
  /\ pc[a] = "release"
  /\ log' = Released(hand[a], Epoch(a))
  /\ Drop(a)
  /\ Goto(a, "deliver")
  /\ UNCHANGED <<live, count, paid, redisVars, todo, nap, readVars, dispatchVars,
                 workerVars, histVars, boundVars>>

\* _commit_delivery: UPDATE of the row, if it is still there.  Its delivered_at
\* is now later than any cutoff the delayed worker may hold.
Commit(a) ==
  LET s == hand[a]
      e == Epoch(a)
  IN  /\ pc[a] = "commit"
      /\ log' = {IF IsRow(r, s, e) THEN [r EXCEPT !.delivered = TRUE, !.age = 0]
                 ELSE r : r \in log}
      /\ old' = old \ {<<s, e>>}
      /\ Goto(a, "count")
      /\ UNCHANGED <<live, count, paid, redisVars, taskVars, readVars, dispatchVars,
                     msg, histVars, boundVars>>

\* _increment_quota_and_check: UPDATE ... RETURNING, if the subscription is there.
Count(a) ==
  LET s == hand[a]
  IN  /\ pc[a] = "count"
      /\ IF s \in live
         THEN count' = [count EXCEPT ![s] = @ + 1]
         ELSE UNCHANGED count
      /\ IF s \in live /\ Exhausted(s, count[s] + 1)
         THEN /\ Goto(a, "expire") /\ UNCHANGED hand
         ELSE /\ Goto(a, "deliver") /\ Drop(a)
      /\ UNCHANGED <<live, paid, log, redisVars, todo, nap, readVars, dispatchVars,
                     workerVars, histVars, boundVars>>

\* _handle_quota_exhausted: the subscription is deleted.  The farewell message
\* that follows changes no state, whether it arrives or not.  It may wait out a flood
\* wait of its own (notifier.py:234), and the rest of the batch with it: with
\* Prompt = FALSE the ticks between any two steps stand for that delay.
Expire(a) ==
  /\ pc[a] = "expire"
  /\ DeleteSub(hand[a])
  /\ Drop(a)
  /\ Goto(a, "deliver")
  /\ UNCHANGED <<count, paid, redisVars, todo, nap, readVars, dispatchVars,
                 workerVars, histVars, boundVars>>

-----------------------------------------------------------------------------
(* Failures, restarts and the reaper *)

Dispatching == {"hset", "select", "claim", "insert", "deliver", "send", "resend",
                "nap", "release", "commit", "count", "expire", "ack"}

Fault == faults < MaxFaults /\ faults' = faults + 1

\* Postgres or Redis raises inside dispatch_event: the entry is not acknowledged
\* and the loop goes on with the next one.  A call that took effect before it
\* raised is a fault at the place that follows it, "ack" for the last one.
DispatchFault ==
  /\ pc["consumer"] \in Dispatching \ {"nap"}
  /\ Fault
  /\ LeaveDispatch
  /\ UNCHANGED <<dbVars, redisVars, readVars, workerVars, histVars, second, crashes>>

\* Redis raises at XACK, which nothing catches: the task ends.
AckFault ==
  /\ pc["consumer"] = "ack"
  /\ Fault
  /\ Goto("consumer", "dead")
  /\ batch' = {} /\ cur' = 0 /\ rows' = {} /\ vip' = {} /\ queue' = {} /\ timer' = 0
  /\ UNCHANGED <<dbVars, redisVars, taskVars, cursor, workerVars, histVars, second,
                 crashes>>

\* Postgres or Redis raises in delayed_worker, which nothing catches.
WorkerFault ==
  /\ pc["worker"] \notin {"nap", "dead", "down"}
  /\ Fault
  /\ Goto("worker", "dead")
  /\ Drop("worker")
  /\ todo' = [todo EXCEPT !["worker"] = {}]
  /\ msg' = None /\ old' = {}
  /\ UNCHANGED <<dbVars, redisVars, nap, readVars, dispatchVars, histVars, second,
                 crashes>>

\* The process stops, at any point; what it had in memory is gone.
Crash ==
  /\ Up /\ crashes < MaxCrashes
  /\ crashes' = crashes + 1
  /\ pc' = [a \in Actors |-> "down"]
  /\ hand' = [a \in Actors |-> None] /\ todo' = [a \in Actors |-> {}]
  /\ nap' = [a \in Actors |-> 0]
  /\ cursor' = StartCursor /\ batch' = {}
  /\ cur' = 0 /\ rows' = {} /\ vip' = {} /\ queue' = {} /\ timer' = 0
  /\ msg' = None /\ old' = {}
  /\ UNCHANGED <<dbVars, redisVars, histVars, second, faults>>

Restart ==
  /\ ~Up
  /\ pc' = [a \in Actors |-> "idle"]
  /\ UNCHANGED <<dbVars, redisVars, taskVars, readVars, dispatchVars, workerVars,
                 histVars, boundVars>>

\* Faulty: delivered rows instead of undelivered ones.
StaleDelivery(r) == r.delivered /\ r.age > ReapAge

\* stale_claim_reaper, a task of the same process.
Stale(r) == ~r.delivered /\ r.age > ReapAge

Reap ==
  /\ Up /\ \E r \in log : Stale(r)
  /\ log' = {r \in log : ~Stale(r)}
  /\ excuse' = [s \in Subs |-> [e \in Epochs |->
                  IF \E r \in log : IsRow(r, s, e) /\ Stale(r) THEN excuse[s][e] + 1
                  ELSE excuse[s][e]]]
  /\ UNCHANGED <<live, count, paid, redisVars, pc, taskVars, readVars, dispatchVars,
                 workerVars, pushes, sent, pushAge, boundVars>>

-----------------------------------------------------------------------------
Deliver(a) ==
  Send(a) \/ Wake(a) \/ Resend(a) \/ Release(a) \/ Commit(a) \/ Count(a) \/ Expire(a)

Consume ==
  \/ ReadPending \/ CaughtUp \/ ReadNew \/ NextEvent \/ BatchDone \/ Ack
  \/ SetStatus \/ SelectSubs \/ InsertClaim \/ InsertFails \/ ClaimsDone \/ Enqueue
  \/ \E s \in Subs : CheckCooldown(s) \/ NextPaid(s)
  \/ Deliver("consumer")

ServeDelayed ==
  \/ \E d \in delayed : Take(d)
  \/ Gate \/ PayloadDone
  \/ \E s \in Subs : Cancel(s) \/ Recheck(s)
  \/ Deliver("worker")

Environment ==
  \/ \E l \in Locs, to \in Statuses, o \in Offers, e \in Epochs : Publish(l, to, o, e)
  \/ \E s \in Subs : Unsubscribe(s) \/ ChangeTier(s)
  \/ Tick

Failure == DispatchFault \/ AckFault \/ WorkerFault \/ Crash

Next == Consume \/ ServeDelayed \/ Reap \/ Restart \/ Environment \/ Failure

Spec == Init /\ [][Next]_vars

\* What the event loop guarantees: a task that can go on does, the process is
\* started again, the reaper runs, and time passes.  Users and failures owe nothing.
Fairness ==
  /\ WF_vars(Consume) /\ WF_vars(ServeDelayed) /\ WF_vars(Reap)
  /\ WF_vars(Restart) /\ WF_vars(Tick)

FairSpec == Spec /\ Fairness

-----------------------------------------------------------------------------
(* Properties *)

ConsumerPcs == {"idle", "next", "down", "dead"} \cup Dispatching
Serving == {"gate", "cancel", "deliver", "send", "resend", "nap", "release",
            "commit", "count", "expire"}
WorkerPcs == {"idle", "down", "dead"} \cup Serving

\* Where a task has a subscription in hand.
Holding == {"insert", "send", "resend", "nap", "release", "commit", "count", "expire"}

TablesTyped ==
  /\ live \subseteq Subs /\ count \in [Subs -> Nat] /\ paid \subseteq Subs
  /\ log \subseteq Rows

RedisTyped ==
  /\ stream \in Seq(Events) /\ last \in 0..Len(stream) /\ pel \subseteq 1..last
  /\ status \in [Locs -> Statuses \cup {None}]
  /\ delayed \subseteq Entries

TasksTyped ==
  /\ pc \in [Actors -> ConsumerPcs \cup WorkerPcs]
  /\ pc["consumer"] \in ConsumerPcs /\ pc["worker"] \in WorkerPcs
  /\ hand \in [Actors -> Subs \cup {None}] /\ todo \in [Actors -> SUBSET Subs]
  /\ nap \in [Actors -> 0..FloodWait]
  /\ \A a \in Actors : pc[a] \in Holding => hand[a] # None

ConsumerTyped ==
  /\ cursor \in {"0", ">"} /\ batch \subseteq 1..last
  /\ cur \in 0..last /\ rows \subseteq Subs /\ vip \subseteq Subs
  /\ queue \subseteq Subs /\ timer \in 0..Delay
  /\ pc["consumer"] \in Dispatching => cur # 0

WorkerTyped ==
  /\ msg \in Payloads \cup {None} /\ old \subseteq Subs \X Epochs
  /\ pc["worker"] \in Serving => msg # None

HistoryTyped ==
  /\ pushes \in [Subs -> [Epochs -> Nat]] /\ excuse \in [Subs -> [Epochs -> Nat]]
  /\ sent \in [Subs -> Nat] /\ pushAge \in [Subs -> 0..Cooldown + 1]
  /\ second \in BOOLEAN /\ crashes \in Nat /\ faults \in Nat

\* Every variable keeps its type, and a task that uses an event, a payload or a
\* subscription has one: no step reads a local that a restart, a failure or the
\* end of a loop has cleared.
TypeOK ==
  TablesTyped /\ RedisTyped /\ TasksTyped /\ ConsumerTyped /\ WorkerTyped /\ HistoryTyped

\* A failed send never consumes the cooldown (notifier.py:22-28): a row counts as
\* delivered only for an event of which Telegram took a message.
DeliveredWasPushed ==
  \A r \in log : r.delivered => pushes[r.sub][r.epoch] > 0

\* One alert per subscription and event, whatever crashes, faults, replays and
\* races happen, except for one more per claim the reaper deleted and per message
\* Telegram took while the bot was told it had not.
RepeatsAccounted ==
  \A s \in Subs, e \in Epochs : pushes[s][e] <= 1 + excuse[s][e]

\* An alert is warranted by an event on the subscription's location, of the same
\* second, that freed a connector of the type it waits for, or did not tell which
\* type it freed (notifier.py:452-489).
AlertsAreWarranted ==
  \A s \in Subs, e \in Epochs : pushes[s][e] > 0 =>
    \E p \in 1..Len(stream) :
      /\ stream[p].loc = SubLoc[s] /\ stream[p].epoch = e
      /\ stream[p].to = "AVAILABLE"
      /\ stream[p].freed = {} \/ SubType[s] \in stream[p].freed \cup {None}

\* A task is in the middle of a dispatch or of a payload that includes s.
Holds(a, s, e) ==
  /\ pc[a] \notin {"idle", "next", "down", "dead"}
  /\ Epoch(a) = e
  /\ s = hand[a] \/ s \in todo[a] \/ (a = "consumer" /\ s \in queue)

\* The claim is in the hands of a task or in a scheduled payload.
Owned(s, e) ==
  \/ \E a \in Actors : Holds(a, s, e)
  \/ \E d \in delayed : d.msg.epoch = e /\ s \in d.msg.subs

\* No claim is orphaned as long as nothing crashes and no call fails: whoever
\* must commit or delete the row still knows of it (notifier.py:736-746).
EveryClaimOwned ==
  (crashes = 0 /\ faults = 0) =>
    \A s \in Subs, e \in Epochs : Claimed(s, e) => Owned(s, e)

\* What is left of it when subscriptions vanish while an event is dispatched: the
\* event of an orphaned claim is still unacknowledged.
EveryClaimKnown ==
  \A s \in Subs, e \in Epochs :
    Claimed(s, e) => Owned(s, e) \/ \E p \in pel : stream[p].epoch = e

\* The limit the user chose bounds the alerts of the subscription.
QuotaRespected ==
  \A s \in Subs : SubLimit[s] # 0 => sent[s] <= SubLimit[s]

\* Two alerts of one subscription are at least the cooldown apart (config.py:40-44),
\* but for the alerts whose claim the reaper deleted before they were logged.
CooldownRespected ==
  [][\A s \in Subs : pushes'[s] # pushes[s] =>
       pushAge[s] > Cooldown \/ \E e \in Epochs : excuse[s][e] > 0]_vars

\* The status the delayed worker consults is that of the latest event the consumer
\* has done with ("marker of the current status", notifier.py:81-82).
StatusIsLatest ==
  pel = {} =>
    \A p \in 1..last :
      (\A q \in p + 1..last : stream[q].loc # stream[p].loc) =>
        status[stream[p].loc] = stream[p].to

\* A row the reaper deletes will be inserted again, and its alert delivered: its
\* event is still to be dispatched (notifier.py:749-750).
ReapedIsRetried ==
  [][\A s \in Subs, e \in Epochs : excuse'[s][e] > excuse[s][e] =>
       Owned(s, e) \/ \E p \in pel : stream[p].epoch = e]_vars

\* Every event is read and acknowledged, across restarts (notifier.py:36-39), as long as
\* no dispatch raises: one that did, for an error of a call or because a subscription it
\* had selected was deleted before its INSERT, waits for the next restart.
EventsAcked ==
  \A p \in Epochs : (p <= Len(stream)) ~> (p <= last /\ p \notin pel)

\* Every payload of the ZSET is served in the end (notifier.py:16).
DelayedServed ==
  \A e \in Epochs :
    (\E d \in delayed : d.msg.epoch = e) ~> ~(\E d \in delayed : d.msg.epoch = e)

\* Every claim ends: committed, released, cascaded or reaped.
ClaimsResolved ==
  \A s \in Subs, e \in Epochs : Claimed(s, e) ~> ~Claimed(s, e)

-----------------------------------------------------------------------------
(* What the subscribers are promised *)

\* Something may still lead to an alert of the epoch: an entry of the stream that is not
\* acknowledged, a scheduled payload, the payload the worker has in hand.
Pending(e) ==
  \/ \E p \in 1..Len(stream) : stream[p].epoch = e /\ (p > last \/ p \in pel)
  \/ \E d \in delayed : d.msg.epoch = e
  \/ msg # None /\ msg.epoch = e

Phase(e) ==
  CASE Pending(e) -> "open"
    [] ~Pending(e) /\ (\E p \in 1..Len(stream) : stream[p].epoch = e) -> "closed"
    [] OTHER -> "new"

P == INSTANCE Promise WITH phase <- [e \in Epochs |-> Phase(e)], told <- pushes

\* The notifier keeps its promise (module Promise): no alert of an event once nothing of it
\* is pending, none before it, and never one more than its excuses allow.
PromiseKept == P!Spec
=============================================================================
