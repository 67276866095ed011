# Charger-Watcher: specifications, checks and proofs

Charger-Watcher tells Telegram users when a charging station they subscribed to
becomes free. Two Python processes share Postgres and Redis: the *poller*
watches three provider networks and writes status changes to a Redis stream; the
*bot* reads the stream, sends the alerts, and handles commands and payments.

This directory holds TLA+ modules translated from `src/src/**`, the TLC
configurations that check them on small instances, and proofs, checked by TLAPS,
for every value of the constants. Paths below are relative to the repository's
`src/src/`. `PROJECT.json` maps each definition to the lines it models.

## 1. Inventory

| part | state it keeps | operations | interacts with |
|---|---|---|---|
| **REST diff** `poller/main.py:101-292, 640-726` | `prev` in memory, `REST_PREV_HASH` in Redis | one tick per 10 s: list each operator, compare, publish, save; load at start | provider (HTTP), Postgres (upsert), stream (XADD) |
| **SSE worker** `poller/main.py:349-497` | labels free at the last frame (memory, `SSE_PREV_FREE_HASH`), connector states of the device | read frames, diff, save, publish; reconnect with back-off | provider (SSE), Postgres (`last_status`), stream |
| **SSE manager** `poller/main.py:515-584` | `_workers`, `_loc_devices` | tick: read subscriptions, discover devices, start and cancel workers | Postgres, SSE workers |
| **Catalogue** `poller/main.py:104-118, 587-636` | tables `locations`, list of connector types | periodic idempotent refresh | provider, Postgres, Redis |
| **Consumer** `bot/notifier.py:275-535, 632-726` | position in the stream, claims in `notification_log`, the event in hand | replay, read, set the status marker, select and claim subscriptions, deliver to paid, schedule for free, acknowledge | stream, Postgres, ZSET, Telegram |
| **Delayed worker** `bot/notifier.py:537-630` | the payload in hand | take a due payload, cancel it if the location is taken again, recheck, deliver | ZSET, status hash, Postgres, Telegram |
| **Stale-claim reaper** `bot/notifier.py:728-774` | none | delete undelivered claims older than five minutes | Postgres |
| **Tier reaper** `bot/notifier.py:776-840` | none | downgrade users whose `paid_until` has passed | Postgres, Telegram |
| **Subscriptions** `bot/main.py` | table `subscriptions`; the wizard keeps its state in `callback_data` only | three taps (location, connector, limit of alerts) under the tier's limit, delete, delete the account, trim at a refund | Postgres, `location_connectors`, `last_status` |
| **Payments** `bot/main.py` | `users.tier`, `paid_until`, `payments`, `referrals` | pre-checkout, payment, refund, referral reward and reversal, account deletion | Telegram Stars, Postgres |
| **Quiet hours** `bot/notifier.py:84-130` | `users.quiet_*` | is it night for this user; a message sent then is silent | none |
| **Provider client** `api/client.py`, `api/models.py` | none | HTTP and JSON decoding | provider |

How they interact. The stream `charger:events` is the only path from poller to
bot. The consumer and the delayed worker are asyncio tasks of one process: they
share the claims of `notification_log` (its unique key is the only lock), the
quota counters of `subscriptions`, the ZSET, and the status hash that the first
writes and the second reads. The handlers of the bot delete subscriptions and
change tiers under them. Every `await` on Redis, Postgres or Telegram is a point
where another task, a handler or a crash may intervene.

What is hard, and what makes each part correct (all of it, at its line, is in
`PROJECT.json` under `hazards`):

* **Notifier.** Claim, send, commit are three transactions of two services.
  A replayed event must not alert twice, a failed send must not consume the
  cooldown, a claim must end, quota and cooldown must hold when both tasks
  deliver to the same subscription, no event may be lost.
* **REST diff.** Publication and baseline are saved at different times; listings
  fail, ticks abort, the process restarts. No transition may be lost or told twice.
* **SSE.** State is saved before the event is published; frames arrive connector
  by connector; nothing publishes that a location is taken again; workers start
  and end with subscriptions.
* **Subscriptions, payments.** Read-then-write transactions of concurrent
  handlers; money and tier change in different systems.

## 2. Plan

| order | module | what | state |
|---|---|---|---|
| 1 | `Notifier` | consumer, delayed worker, delivery, reaper | done |
| 2 | `RestDiff` | REST half of the poller | done |
| 3 | `SseWorker`, `SseManager` | frames, reconnection, registry of workers | done |
| 4 | `Payments` | payment, refund, referral, tier reaper, account deletion | done |
| 5 | `Subscriptions` | wizard, tier limit, deletion, refund trimming, catalogue ticks | done |
| 6 | `QuietHours` | the window on the clock, and an alert on its way to Telegram | done |
| 7 | `Promise` | what a subscriber is promised, refined by `Notifier` | done |

A composition of poller, stream and notifier was planned and is not a module of its own, because its
meeting points are in the modules above: `told` in `RestDiff` and `SseWorker` is what the readers of the
stream believe, and `Subscriptions` holds the poller (`follows`, `prev`, `telling`), the stream
(`events`), the dispatch and the wizard together. What no module has is the trimming of the stream
at 10000 entries (`poller/main.py:122`): nothing in the code waits for its readers, and an
instance trimmed at one or two entries would lose events by the choice of the bound alone.

Every safety property of a passing run is proved (section 9). Left to TLC are the liveness properties,
which the prover does not handle.

## 3. `Notifier`

State: the tables (`live`, `count`, `paid`, `log`), Redis (`stream`, the group's
`last` and `pel`, `status`, `delayed`), and what each task remembers (`pc`, `hand`,
`todo`, `nap`, and the locals of `consume_events`, `dispatch_event` and
`delayed_worker`). Five variables only record history: `pushes` counts the messages
Telegram took per subscription and event, `sent` those of a subscription in all, `excuse` the
claims reaped and the answers lost, `pushAge` the time since the last message, `second` whether
the current second still lasts.

One action per database, Redis or Telegram call; what happens between two awaits
is part of the action before it. `_claim_slot` is `CheckCooldown` then
`InsertClaim` (or `InsertFails`, when the foreign key is gone); `_send_with_slot` is
`Send`, `Wake`, `Resend`, then `Release`, or `Commit`, `Count` and perhaps `Expire`,
and is shared by both tasks as in the code. `DispatchFault`, `AckFault` and
`WorkerFault` are exceptions of Redis or Postgres at any call, `Crash` and `Restart`
the process. `AcceptedUnseen` is a message that arrives while the bot is told it did not.

Abstractions, each chosen so that no property below can tell:

* Time is kept as ages and countdowns in ticks of one minute, capped one past the
  largest threshold that reads them. Deployed: cooldown 1, free-tier delay 2, reaper 5.
* With `Prompt = TRUE` time passes only while both tasks wait (in XREADGROUP, between
  polls, or in a flood wait): calls take no time at the scale of minutes. It is an
  assumption; properties that depend on it are read under it.
* A flood wait takes any number of ticks from 1 to `FloodWait`.
* The event's `ts`, in whole seconds, is the epoch: two events may share one.
* The farewell after a spent quota (`Expire`) changes no state and is left out, and with it the flood wait it may
  sleep (`notifier.py:435`, `notifier.py:234`) while the rest of its batch waits. With `Prompt = FALSE` time may pass
  between any two steps: the theorems, which hold for it too, cover the delay; the runs have `Prompt = TRUE` and do not.
* A consumer group deleted while the bot runs, which the consumer creates again (`NOGROUP`, `notifier.py:677`), is not
  modelled: nothing in the repository deletes it.
* Message text, keyboards, the rate limiter, quiet hours (a silent message is a
  message: see `QuietHours`) and trimming of the stream at 10000 entries are left out.
* ZRANGEBYSCORE returns a batch of payloads; each is removed and served before the next,
  so that choosing one due payload at a time covers every order of a batch.

### `Promise`

What all of this promises a subscriber is a module of six actions. An event is *new*, *open*, then
*closed*; while it is open its subscribers may be told once, and once more for each excuse; an excuse is
a reaped claim or an answer that was lost. `Notifier` maps to it (`P == INSTANCE Promise WITH ...`): an
event is open while something of it is under way (`Pending`: an entry of the stream not acknowledged, a
payload scheduled, a payload in the worker's hand), closed when it was published and nothing is, and
`told` is `pushes`. `PromiseKept` says that every step of the notifier is one of the promise or a stutter: no
alert of an event that nobody holds any more, and none beyond its excuses.

### Runs

| run | expects | bounds | shows |
|---|---|---|---|
| `notifier_quota` | pass | limits 1 and 2, a connector filter, subscriptions deleted at any moment, a tier that ends, 2 locations, 2 events that tell what freed in 4 ways, flood waits up to 2 min, deployed thresholds | `QuotaRespected`, `EveryClaimKnown`, `StatusIsLatest`, `AlertsAreWarranted`, `CooldownRespected` |
| `notifier_crash` | pass | 2 subscriptions of one location, 2 events, 1 crash and 1 fault anywhere, entries read one by one | `TypeOK`, `EveryClaimOwned` (until the first failure), `DeliveredWasPushed`, `RepeatsAccounted` |
| `notifier_live` | pass | 1 subscription, 2 events, 1 crash, tier changing at any moment | `EventsAcked`, `DelayedServed`, `ClaimsResolved`, `PromiseKept` |
| `crash_loses` | violation | 1 crash | after a crash between claim and message the replay meets its own claim and acknowledges; when the reaper deletes it nothing sends the alert, though the comment says so (`notifier.py:749-750`) |

Why the bounds are enough: two subscriptions are what a dispatch needs to be
half done; two events are what replay, cooldown and quota compare, and let a delayed
payload overlap the next dispatch; one crash or fault at every point of the
delivery produces each half-done state, and a second one starts from a state of the
same kind. `ReadCount` 1 or 2 makes a replay take several reads.

Fairness (`Fairness`): weak fairness of the consumer, of the delayed worker, of
the reaper and of restarting (an asyncio task that can go on does; the
container is restarted by Docker: `restart: unless-stopped`), and of time. None for users, for the
poller, for tiers or for failures.

What the passing runs leave out is left out because the property is false there:

* `CooldownRespected` without upgrades: a user who pays while a delayed alert waits may get
  two alerts within the cooldown, because `notifier.py:275` does not see an alert sent and not yet committed.
* `QuotaRespected` without upgrades, crashes and faults: the same user is served by both tasks, and
  each may send the last alert of the limit; a message whose task ends before the count is not counted.
* The liveness properties without faults: an event whose dispatch raised is read again only after a
  restart (the cursor is `>`), and one error of Redis or Postgres ends the delayed worker for good. `EventsAcked`
  also runs without deletions and limits: a subscription that goes between the SELECT of a dispatch and its INSERT
  makes the dispatch raise on the foreign key, and the event waits for a restart in the same way.
* `StatusIsLatest` without faults and crashes: a replayed event overwrites the status of a later one.
* `EveryClaimOwned` with a quota: it may expire between the SELECT of one task and the INSERT of the
  other, whose dispatch aborts on the foreign key (`notifier.py:745`); the claims of the other users
  selected are orphaned, and never retried, though nothing crashed. `EveryClaimKnown` bounds that.

## 4. `RestDiff`

`rest_diff_once` as `StartTick`, `List` or `ListFails` per operator, `Compare` per
location, `Save`; `TickFails` is an exception that `_periodic` swallows, `SaveUnseen` a
pipeline executed whose answer is lost, `Stop` and `Start` the process with
`load_rest_prev`. `told` keeps, per location, the last status published: what readers of
the stream believe. Operators may be listed in any order, which includes the code's.
With `Gaps` a listing may omit a location or its status. Two variables record history:
`omitted`, the locations a listing left out, and `faults`, the ticks that a failing call or a stop (`Cuts`) cut short.

| run | expects | bounds | shows |
|---|---|---|---|
| `rest_ticks` | pass | 2 locations of an operator each, 2 statuses, gaps, 1 tick cut short anywhere, any number of ticks and restarts | `TypeOK`, `ToldIsBaseline`, `PublishedBeforeSaved`, `BaselineKept`, `StatusTold` |

Two locations of different operators are what a failing listing must keep apart and what
leaves a tick half done; two statuses give every outcome of a comparison. Before the first
cut there is no bound on ticks or restarts; after it `PublishedBeforeSaved` and `BaselineKept` are
checked from every state it can leave. A location that a listing omits does lose its baseline and its next transition:
`omitted` exempts it, which is what the code does and not what a reader might expect. A stop between the
publication and the save has a loss of its own, hence the condition on `faults` in
`ToldIsBaseline` and `StatusTold`: if the location changes back while the poller is down, it agrees with the
baseline that was not replaced, and nobody is told (`main.py:138`).

`FairSpec`: the loop of `_periodic` goes on, a stopped process starts, it is not
always stopped before its next tick (strong fairness of `StartTick`), and an operator asked again and
again answers in the end (strong fairness of `List`): without the last one no poller could tell anything.

## 5. `SseWorker` and `SseManager`

`SseWorker` is one run after the other of `_sse_worker` for one device: `Start` (HGET
of the baseline), `Frame(c)` (one connector's status, compared at once unless the
database must be written first), and the calls a frame may make: `Sync`, `Seed`, `Save`,
`Flip`, `Publish`. `CallFails` is any of them raising: the worker keeps what it
has in memory and reconnects. `Stop` and `Cancel` end it; `Cancel` also deletes the baseline. The
environment changes connectors at any moment. Three variables record history: `gone`, the connectors
taken since they were last announced, or found free with nothing to announce; `told`, the status in the
last event published; and `faults`, the frames cut short.

`SseManager` is `tick` (`StartTick`, `Recall` or `Discover` or `DiscoveryFails` per
location, `Spawn`, `CancelStale` per device, `EndTick`), the process (`Stop`, `Start`) and what
happens around it: subscriptions come and go, workers save baselines (`Persist`) or
end (`WorkerEnds`). The two modules share the entry of `SSE_PREV_FREE_HASH`; each takes the
other's actions on it as its environment: `Cancel` and `Start` there, `Persist` and `WorkerEnds` here.

| run | expects | bounds | shows |
|---|---|---|---|
| `sse_frames` | pass | 3 connectors of 2 types, any number of restarts and cancellations, 2 frames cut short | `TypeOK`, `DbFollows`, `OnlyFreedIsAnnouncedOnceSeen`, `FreedIsAnnounced` |
| `sse_status` | violation | 2 connectors, no failure | a worker publishes only what becomes free (`main.py:457`): the database says the location is full while the last event says AVAILABLE, so that the status marker of `notifier.py:81-82`, "updated on every event", never cancels a delayed alert of the central network |
| `mgr_ticks` | pass | 3 devices, 2 locations, 2 calls that fail, 1 restart | `TypeOK`, `NoStaleBaseline`, `KeepersFollowed`, `OthersDropped` |

Two types are what a partial snapshot confuses; the third connector shares a type, so
that a label stays free when one of its connectors is taken. One device at the location that may
lose its subscribers and two at the one that keeps them let a tick start, keep
and cancel workers together. Counters bound only failures and restarts.

`DbFollows` and `FreedIsAnnounced` speak of the time before a frame is cut short: a
failure between the save and the XADD does lose the event. `OnlyFreedIsAnnouncedOnceSeen` speaks
of a worker that has seen every connector: the first frame of a cold start shows one, and the others, free all
along, are announced when they come (`main.py:427`). `KeepersFollowed` exempts a
location whose discovery failed: `main.py:539` caches the empty answer for good. `NoStaleBaseline`
speaks of one life of the process: across restarts it is false, because `SseManager.tick` looks for what is
stale in its own registry only, and a location whose last subscription ends while the poller is down, or
before its first tick, keeps its baseline.

The worker's `FairSpec`: it goes on when it can, the manager starts one that ended, and the
provider repeats every connector's status (strong fairness of each `Frame`; "a heartbeat every
~2s", `main.py:367`). The manager's: its loop ticks and Docker restarts the process.

## 6. `Payments`

State: the tables `users` (tier and what is left of `paid_until`), `referrals` (`ref`) and
`payments` (`ledger` says for each payment which ones have an earlier `paid_at`, None if it has no
row; `owner`, `refunded`); Telegram's side (`invoice`, `update`,
`returned`); what each handler has read (`view`, `link`, `hand`); the tier reaper. History: how often
a charge extended a tier, whom it rewarded, how often that was taken back and from whom, which handlers failed, who has `left`, and `stale`.

A handler is one READ COMMITTED transaction that reads without locks and writes the columns that
differ from what it read. SQLAlchemy's autoflush sends the pending UPDATEs before the next SELECT,
so `ReadReferral` and `FindReferral` also take the lock of the user's row, `ReadInviter` that of the
referral; the rest is written by `CommitPayment` and `CommitRefund`. `Holds`, `Wants`, `Blocked` and `Deadlocked`
are those locks; the effect of an UPDATE is seen at the COMMIT, and nobody else can write the row in between.
`Kept` are the users that `/delete_me` has to wait for: the payer of a payment that is inserted, the user of a refund that
has found its referral, and whom a locked referral names as inviter. An UPDATE whose row is gone raises (`Misses`). A deletion that has itself locked a row and
makes a handler the victim of a deadlock is one of the calls that raise (`Upset`).

| run | expects | bounds | shows |
|---|---|---|---|
| `payments` | pass | 2 users who may invite each other, 2 payments by either, with or without the discount, 1 refund at a time, the reaper, 1 upset (an account deleted, a call that raises, a lost answer or a crash); a payment is worth 2 periods, a referral 1 | `TypeOK`, `GrantedIsRecorded`, `MemberPaymentRecorded`, `RewardedOnce`, `RefundedIsReturned`, `DaysAreBought`, `TierFollowsDays` |
| `payments_lost` | violation | 1 payment | a payer without a row in `users` is told the payment was counted; it is stored nowhere (`main.py:938`) |

Two users are an inviter and a guest, or two guests of each other, who deadlock; two payments are
what a referral may be claimed by, a refund chooses from and an update can be lost between. All handlers
may run at once. The upset may come at any step; a crash redelivers any subset of the payments already
taken. A period is half of the thirty days paid, the fifteen of a reward: time passes only while no handler runs.
Users are interchangeable, and charges are: the runs use that symmetry.

`DaysAreBought` and `TierFollowsDays` exempt the users in `stale`: their row changed between a transaction's
SELECT and its end, and the update that came first is lost in part (a payment during
the refund's call of Telegram, two payments at once, a payment between the reaper's SELECT and UPDATE, which
leaves a payer on the free tier; a user who was free when the refund read the row, and who keeps the tier that
was refunded). `RewardedOnce` has no such exemption: the lock that autoflush takes
before it reads the referral is enough. Not claimed, because false: that a refund whose process stops after
Telegram's answer is ever recorded, and that a payment whose handler raised is delivered again.

## 7. `Subscriptions`

State: the tables (`tier` and `payments` of each user, `subs`, `station` = `last_status`), Redis (`kinds` =
`location_connectors`, `events`, the alerts of the stream not dispatched yet), the keyboards on the users' screens
(`chat`), the taps being handled (`job`), a refund between its SELECT and its commit (`trim`), and the poller
(`follows`, `prev`, `telling`). The state of the wizard is nowhere but in `callback_data`: a keyboard
repeats what was chosen, never expires, and may be tapped at any time, as often as its user likes.

aiogram handles each update in a task of its own, so a handler is a record in `job` and one action per transaction:
`EnsureUser`, `CountRows`, then `ShowTypes` or `LoadLocation`, `Insert`, `Hint`. `TapConnector` only edits a message.
`Unsubscribe`, `DeleteMe`, `Pay`, `Lapse` and the refund change rows under it; `Locked` is the row of `users`
that the refund's autoflush has locked. The poller writes the status (`Observe`), then publishes
(`Publish`), the notifier selects the rows (`Dispatch`); `Follow` and `Unfollow` are the ticks of the SSE
manager, `CatalogueSync` and `ConnectorsTick` those of the catalogue: an upsert without a status
(`Coalesced` keeps the old one), a new list of types for one location.

History: `ear`, per row, what its owner knows of the location; `label` and `edition`, what the button said and
the list it came from; `widened`, who has had the paid limit since the last cut; `raced`, whose insertions have
overlapped with each other, a refund or a deletion; `erased`, who has tapped nothing since `/delete_me`, though a tap
from before it may still be handled; `revived`, who of them has an account again by such a tap.

| run | expects | bounds | shows |
|---|---|---|---|
| `subs` | pass | 1 user, 2 taps handled at once, 1 location followed by SSE and 1 listed by REST, 2 lists of types, limits 1 and 2, 5 inputs, 1 handler that fails | `TypeOK`, `LimitUnlessRaced`, `ChosenConnector`, `ToldOrAlerted`, `ErasedStaysErased` |

Two taps are what overlaps; a user meets no row of another one; a list that loses its first type moves what a token
stands for and shortens the range of tokens; limits 1 and 2 leave a row to cut. An input is a tap
that starts a transaction, a payment, a change of status or a new list: two taps with their wizard, a payment and
two changes fit. Taps are interchangeable. Deadlock is not checked: once the inputs are spent the system
may rest.

What is left out of the properties is left out because it is false there:

* The limit itself: the count and the INSERT are two transactions (`main.py:629`), so that two taps on the last
  step exceed it, and the rows of an expired user stay, though the terms of service say the surplus is
  deactivated (`docs/legal/terms_of_service.md:22`).
* The type on the button, once the list has changed: the button holds an index into `location_connectors` as it
  was when the keyboard was made (`main.py:240`, `main.py:253`).
* The hint "it is free right now" (`main.py:684`) says what was read before the INSERT. A location that becomes free and
  is dispatched in between is told by neither the hint nor the alert (`missed`).
* Any IntegrityError is answered as "already subscribed", that of a deleted user's foreign key too.
* That a deleted account stays deleted ("удалить навсегда", `main.py:343`): a tap made before `/delete_me` whose
  `ensure_user` runs after it (`main.py:549`, `main.py:629`) creates the account again, and a tap on the last step then inserts its
  subscription (`main.py:645`). `ErasedStaysErased` says that this is the only way back: `revived` is who came back
  so, and a subscription comes back only with the account, by a tap that the deletion overtook (`raced`).

## 8. `QuietHours`

`_quiet_until_utc` as `InWindow`, `NextEnd` and `QuietUntil` over ticks; `SetQuiet` for the settings; and an alert from the
decision that it is silent to the call of Telegram: `SelectPaid`, which decides for the whole batch with one `now`, and
`Turn`; or `Enqueue` and `Take`, which decides when the payload is served; `Sleep` and `Wake` around the second
attempt; `Answer`. `EndIsRight` compares the code's arithmetic with a hand that walks from one end of the window to the other;
`OnlyTheBoundary` says that a message differs from the hour in which it is sent only by a boundary crossed while it waited.

| run | expects | bounds | shows |
|---|---|---|---|
| `quiet` | pass | a day of 5 ticks, 2 ticks from UTC, every window, equal ends included, a horizon of 11 ticks, delay 1 | `EndIsRight`, `OnlyTheBoundary` |

Five hours hold windows inside a day, across midnight, of one tick, of all but one, and empty; the offset puts the user's
midnight inside a day of UTC; the horizon is two days of either. Deadlock is not checked: the clock stops at the horizon.

Two comments say otherwise than the code: `db/models.py:44` that the delivery is deferred until the window ends
(it is sent at once, without sound), `bot/main.py:1085` that messages of the window come without sound (the
farewell of a spent quota is always loud, `notifier.py:434`). The zone has a fixed offset: no code changes `users.tz`,
whose default has no summer time.

## 9. Proofs

| module | theorem | for every value of the constants |
|---|---|---|
| `NotifierProofs` | `TypeInvariant` | `Spec => []TypeOK` |
| `NotifierProofs` | `NoUnexcusedRepeat` | `Spec => []RepeatsAccounted` |
| `NotifierProofs` | `PromiseIsKept` | `Spec => PromiseKept` |
| `NotifierDeliveryProofs` | `DeliveredHasMessage` | `Spec => []DeliveredWasPushed` |
| `NotifierDeliveryProofs` | `AlertsWarranted` | `Spec => []AlertsAreWarranted` |
| `NotifierDeliveryProofs` | `StatusFollows` | `Spec => [](crashes = 0 => StatusIsLatest)` |
| `NotifierDeliveryProofs` | `ClaimsAreKnown` | `Spec => [](crashes = 0 /\ pc["worker"] # "dead" => EveryClaimKnown)` |
| `NotifierDeliveryProofs` | `ClaimsAreOwned` | `Spec => [](live = Subs => EveryClaimOwned)` |
| `NotifierDeliveryProofs` | `AlertsWithinLimit` | `Spec => [](crashes = 0 /\ faults = 0 => QuotaRespected)`, if `"up" \notin TierMoves` |
| `NotifierDeliveryProofs` | `AlertsApart` | `Spec => CooldownRespected`, if `"up" \notin TierMoves` and no crash or fault is allowed |
| `RestDiffProofs` | `TypeCorrect` | `Spec => []TypeOK` |
| `RestDiffProofs` | `PublicationFirst` | `Spec => PublishedBeforeSaved` |
| `RestDiffProofs` | `BaselineSurvives` | `Spec => BaselineKept` |
| `RestDiffProofs` | `ReadersKnowBaseline` | `Spec => [](ToldIsBaseline /\ SavedIsPrev)` |
| `SseWorkerProofs` | `TypeCorrect` | `Spec => []TypeOK` |
| `SseWorkerProofs` | `DatabaseFollows` | `Spec => []DbFollows` |
| `SseWorkerProofs` | `AnnouncedWasTaken` | `Spec => OnlyFreedIsAnnouncedOnceSeen` |
| `SseManagerProofs` | `TypeCorrect` | `Spec => []TypeOK` |
| `SseManagerProofs` | `NoBaselineLeft` | `Spec => []NoStaleBaseline` |
| `PaymentsProofs` | `TypeCorrect` | `Spec => []TypeOK` |
| `PaymentsProofs` | `RefundsAreReturned` | `Spec => []RefundedIsReturned` |
| `PaymentsProofs` | `GrantsAreRecorded` | `Spec => []GrantedIsRecorded` |
| `PaymentsProofs` | `PaymentsAreRecorded` | `Spec => []MemberPaymentRecorded` |
| `PaymentsProofs` | `RewardsAreSingle` | `Spec => []RewardedOnce` |
| `PaymentsProofs` | `NobodyGetsMore` | `Spec => []DaysAreBought` |
| `PaymentsProofs` | `TiersFollow` | `Spec => []TierFollowsDays` |
| `SubscriptionsProofs` | `TypeInvariant` | `Spec => []TypeOK` |
| `SubscriptionsProofs` | `LimitHolds` | `Spec => []LimitUnlessRaced` |
| `SubscriptionsProofs` | `ButtonIsMeant` | `Spec => []ChosenConnector` |
| `SubscriptionsProofs` | `FreeIsTold` | `Spec => []ToldOrAlerted` |
| `SubscriptionsProofs` | `DeletedStaysDeleted` | `Spec => []ErasedStaysErased` |
| `QuietHoursProofs` | `EndsAreRight` | `Spec => []EndIsRight` |
| `QuietHoursProofs` | `SilenceByTheHour` | `Spec => []OnlyTheBoundary` |

Assumptions: the named ASSUMEs of the modules, which type the constants and keep `None` and `Unknown` apart from
data (`ConstantsTyped`, `NoneIsNull`; `OperatorsTyped`, `NoneIsNoStatus`; `WorkerConstants`; `ManagerConstants`,
`UnknownIsNoSet`; `PaymentConstants`, `NoneIsNoRow`; `SubscriptionConstants`, `NoneIsNoJob`; `QuietConstants`), and
what the table says: the number of subscriptions, locations, devices, events, users, payments, taps, crashes and
faults, and every threshold, is arbitrary. The conditions in the table are those under which the runs check the
property; section 3 says why it is false without them.

* `TypeInvariant` of `Notifier`. `TypeOK` is inductive because it also says when a local is set: a
  task that uses an event, payload or subscription has one. One lemma per action, one step
  per group of variables the action touches.
* `NoUnexcusedRepeat`. An argument of accounts. A *turn* is a right to send one more alert: a
  subscription in `todo`, in `queue`, in a payload, or in a hand before its message. A *slot* is what prevents new turns: a row
  of the log, or the absence of the subscription. *Alerts + turns <= excuses + slot* starts as 0 <= 0; a
  claim adds a turn and the slot, a message spends its turn, a release takes both away, the reaper trades the slot for an excuse.
* `PromiseIsKept`. Each action maps to one of `Promise` or to a stutter. That a message is covered
  by its excuses is the account of its turn; that its event is open is the unacknowledged entry or the
  payload it came from. `HoldersPublished`, that what is scheduled or served was published, makes what closes an event close an open one; `EmptyHanded`: a
  worker that serves nothing holds no payload.
* `DeliveredHasMessage`. `DeliveredWasPushed` is not inductive: `Commit` marks a row
  delivered and does not look at messages. The strengthening `CommitsPushed` says
  that a task at the commit has sent its message. All actions but `Send`,
  `Resend` and `Commit` are `Quiet` (they deliver no row and let no task reach
  a commit), which one lemma turns into preservation.
* `AlertsWarranted`. Whoever is chosen (in `paid_now`, `free_queue`, a payload or a hand) or pushed has its event in the
  stream: the consumer's SELECT is the only step that chooses, the others pass it on.
* `StatusFollows`. `InOrder`: in the first life of the process entries are dispatched in the order of the stream and each
  once, so the hash follows what is `Done` (`Followed`). `FirstLife`: nothing is replayed before a crash.
* `ClaimsAreKnown`, `ClaimsAreOwned`. `ClaimInv`: a claim that nobody `Owns` is of an event that a dispatch gave up
  (`Skipped`), and that one stays pending; a dispatch is given up by a fault or because a subscription it
  claims is gone. While every row of `subscriptions` is there and nothing fails, nothing is given up.
* `AlertsWithinLimit`. `LanesApart`: a subscription is in the paid lane (paid when selected: served by the consumer) or in
  the free one (served by the worker), never in both, as long as tiers only go down; so at most one message of it is
  not counted yet (`OneHolder`). `QuotaKept`: while the row is there `notify_count` is right but for that one and
  below the limit (`Counting`), and later what may still be sent fits (`Finished`).
* `AlertsApart`. `AlertsLogged`: a recent alert is logged, with an age no greater than its own, unless its task is
  at the commit; the row is still there by the account of its claim. Whoever looks finds it, because the task at the commit
  would be in the other lane. `ClearedRested`: until the message nobody else sends to the
  subscription, and `CutoffSound`: what the worker's cutoff ignores is older than the cooldown. `Prompt` is not used.
* `PublicationFirst`. The strengthening `ChangesTold`: what a tick has noted as a
  change, it has published; `Compare` does both, everything else clears the notes or
  notes nothing new.
* `BaselineSurvives`. `BaselineFollows`: a location with a baseline that no listing left out,
  and whose operator is dealt with, is still to be compared or has its new one, so `Save`
  deletes no known field.
* `ReadersKnowBaseline`. `BaselineInv`: inside a tick, readers know the new status of
  what is noted and the saved one of the rest, and nothing is noted twice.
* `DatabaseFollows`, `AnnouncedWasTaken`. `WorkerInv`: inside a frame `cur` is what the worker sees (`FrameInv`), the
  database is behind by no more than the flip under way (`Behind`), and who is taken, or was seen taken under a
  label that is not free, is in `gone` or shares its label with one that is (`TakenKnown`).
* `NoBaselineLeft`. `BaselineHasWorker`: also inside a tick, a device with a baseline is in the registry or its deletion
  failed, because a worker saves only while its task runs and a running task is registered.
* `RefundsAreReturned`. `PastTheCall`: a refund that goes on after its call of Telegram is about a
  charge that was returned. `Harmless` says how little every other step moves the refunds; one lemma
  turns it into preservation, and only `CallTelegram` and `CommitRefund` need an argument of their own.
* `Payments`, the others. `PayInv` says what a handler at each place has read (`PaymentAt`, `RefundAt`) and how the
  tables agree; a step of one handler moves no other (`OnlyMoves`). `RewardsAreSingle` is the argument of the
  locks: two payments of one guest that are past the SELECT of the referral would both hold the guest's row (`OneClaimer`),
  so who has read it unclaimed has it to itself (`LinkSound`), and the commit leaves it claimed (`ClaimSound`).
  `NobodyGetsMore` and `TiersFollow` keep an account of days (`DaysInv`) by the sets of payments and rewards that
  count for a user (`PaidBy`, `EarnedBy`): a commit writes what it has read plus or minus what one of them is
  worth, unless the row has changed since, which makes its user `stale`.
* `LimitHolds`. A user who has not raced has at most one tap past the limit (`LastStepInserts`), which has read a limit the user still
  has, or had since the last cut (`WidenedByTier`, `TierReadHolds`), and its place is kept (`PlaceKept`); a refund that commits
  leaves one row (`CutLeavesOne`).
* `ButtonIsMeant`. `ButtonsSound` and `TapsSound`: a button whose edition is current names what its token stands for; only
  `ConnectorsTick` changes a list, and the edition with it.
* `FreeIsTold`. `StatusInStep`: Postgres has the status that was observed, so a tap that reads the location as not free
  has its alert still to come or is `lost` (`TapsInTime`), and then the dispatch finds its row (`RowsServed`).
* `DeletedStaysDeleted`. `ErasedUser`: without an account nothing is inserted, because the foreign key refuses it, and no refund
  is under way that would write a tier; whatever tap of the last step is still handled was met by the deletion,
  which made the user `raced`. It builds on `LimitInv`, for `LastStepInserts`.
* `EndsAreRight`. Remainders by a variable are beyond the SMT solver, so `FaceIs` first states the one fact about them that is
  needed: how far two faces are apart. Then the window is the hand's walk (`QuietIsWalk`), and the candidate, or the one a day
  later, its end (`UntilIsEnd`).
* `SilenceByTheHour`. `DeclaredByHour`: the flag an alert carries is what the clock said when it was decided.

Only model-checked: the liveness properties `EventsAcked`, `DelayedServed`, `ClaimsResolved`, `StatusTold`,
`FreedIsAnnounced`, `KeepersFollowed` and `OthersDropped`, because TLAPS 1.4.5 handles neither fairness nor ENABLED. What
a recursive definition computes for every input would be out of reach too (the induction theorems of the library take
an operator as a parameter, which no installed prover instantiates); no property here needs it.

## 10. Not modelled

HTTP and JSON decoding (what a frame or a listing may contain is the input of the poller's modules), onboarding texts
and menus, the nearest-station search (floating-point trigonometry over one SELECT), logging and configuration,
migrations, which run once, and the trimming of the stream (section 2). `/list` and `/status` only read. In `Notifier` a
subscription's deletion and a change of tier are environment actions (they are what `Subscriptions` and `Payments` do),
and the connector types of an event are its input.
