--------------------------- MODULE Subscriptions ---------------------------
(***************************************************************************)
(* How a subscription comes and goes (src/bot/main.py): the three taps of  *)
(* the wizard, the limit of the tier, /unsubscribe, /delete_me, the        *)
(* trimming of a refund; and what the poller, its catalogue ticks and the  *)
(* notifier do to the rows and caches the wizard reads.                    *)
(*                                                                         *)
(* aiogram runs every update in a task of its own, so the taps of one user *)
(* interleave at each `await`.  A tap being handled is a record in `job`;  *)
(* its fields are the locals of the handler.                               *)
(***************************************************************************)
EXTENDS Naturals, Sequences, FiniteSets

CONSTANTS
  Users, Types,
  Central,         \* locations followed by SSE, as long as someone subscribes
  Listed,          \* locations whose status the REST listings tell
  Taps,            \* updates the bot may be handling at once
  None,            \* NULL; no connector filter; no job
  FreeLimit, PaidLimit,   \* free_ and paid_tier_max_subscriptions
  Catalogs,        \* the lists of connector types a location may have
  MaxInputs,       \* bound: taps that need a transaction, payments, changes of status and
                   \* new lists of types, together
  MaxFaults        \* bound: handlers that fail

Locs == Central \cup Listed
Statuses == {"AVAILABLE", "FULLY_USED"}

ASSUME SubscriptionConstants ==
  /\ Central \cap Listed = {} /\ Catalogs \subseteq Seq(Types)
  /\ FreeLimit \in Nat \ {0} /\ PaidLimit \in Nat /\ FreeLimit <= PaidLimit
  /\ {MaxInputs, MaxFaults} \subseteq Nat
  /\ None \notin Types \cup Statuses \cup {"absent"}

\* The "a" of callback_data; the other tokens count from 1.
AnyType == 0
Tokens == Nat

\* What the user has chosen: a token, in callback_data; the rest is history: the
\* name that was on the button, and the edition of the list it came from.
Choices == [token : Tokens, label : Types \cup {None}, edition : 0..MaxInputs]
AnyChoice == [token |-> AnyType, label |-> None, edition |-> 0]

\* The inline keyboards of the second and of the third step: the latter repeats, under
\* each limit of alerts, what was chosen in the former.
Keyboards == [step : {"wcon", "wlim"}, user : Users, loc : Locs, choices : SUBSET Choices]
Keyboard(step, u, l, choices) == [step |-> step, user |-> u, loc |-> l, choices |-> choices]

\* A subscription; `ear` is history: what its owner knows of the location.  The
\* connector type is stored too, and read by Notifier only.
Rows == [user : Users, loc : Locs, ear : {"due", "told", "missed", "blind"}]

Jobs == [at : {"ensure", "count", "show", "load", "insert", "hint"},
         step : {"sub", "wlim"}, user : Users, loc : Locs, con : Types \cup {None},
         choice : Choices, paid : BOOLEAN, free : BOOLEAN, lost : BOOLEAN]

ASSUME NoneIsNoJob == None \notin Jobs

VARIABLES
  \* Postgres
  tier,       \* users: "gone" without a row, "lapsed" once paid_until has passed
  payments,   \* how many payments of the user are not refunded
  subs,       \* subscriptions
  station,    \* locations.last_status; "absent" before the first upsert
  \* Redis
  kinds,      \* location_connectors
  events,     \* alerts in charger:events not dispatched yet, of each location
  \* Telegram
  chat,       \* the keyboards on the users' screens
  \* the memory of the bot
  job,        \* the taps being handled
  trim,       \* a refund between its SELECT and its commit: user, to_delete
  \* the memory of the poller
  follows,    \* the locations it observes
  prev,       \* the status it observed last
  telling,    \* locations whose freeing is in Postgres and not published yet
  \* the world and history
  actual,     \* the status of the location
  edition,    \* how often its list of connector types has changed
  widened,    \* users who have had the paid limit since they were last cut to one row
  raced,      \* users two of whose insertions, or an insertion and a cut, have overlapped
  erased,     \* users who have tapped nothing since /delete_me; a tap may be older
  revived,    \* those of them whose account such an older tap has created again
  inputs, faults

dbVars == <<tier, payments, subs, station>>
pollVars == <<follows, prev, telling>>
worldVars == <<actual, edition>>
histVars == <<widened, raced, erased, revived>>
boundVars == <<inputs, faults>>
vars == <<dbVars, kinds, events, chat, job, trim, pollVars, worldVars, histVars, boundVars>>

Init ==
  /\ tier = [u \in Users |-> "gone"] /\ payments = [u \in Users |-> 0]
  /\ subs = {} /\ station = [l \in Locs |-> "absent"]
  /\ kinds = [l \in Locs |-> <<>>] /\ events = [l \in Locs |-> 0]
  /\ chat = {} /\ job = [h \in Taps |-> None] /\ trim = None
  /\ follows = Listed /\ prev = [l \in Locs |-> None] /\ telling = {}
  /\ actual = [l \in Locs |-> "FULLY_USED"] /\ edition = [l \in Locs |-> 0]
  /\ widened = {} /\ raced = {} /\ erased = {} /\ revived = {}
  /\ inputs = 0 /\ faults = 0

-----------------------------------------------------------------------------
(* Helpers *)

RowsOf(u) == {r \in subs : r.user = u}

\* _effective_tier: an expired paid tier counts as free.
EffectivelyPaid(u) == tier[u] = "paid"

TierLimit(paid) == IF paid THEN PaidLimit ELSE FreeLimit

\* count >= tier_limit(tier)
LimitReached(n, paid) == n >= TierLimit(paid)

\* Faulty: only the first step counts; the last one trusts it.
CountedOnce(j) == j.step = "sub"
\* Both steps that need a free place count the rows of the user.
Counted(j) == j.step \in {"sub", "wlim"}

\* Faulty: a catalogue without a status erases the one SSE has set.
Overwritten(new, old) == new
\* The ON CONFLICT of upsert_locations: COALESCE(excluded.last_status, last_status).
Coalesced(new, old) == IF new = None THEN old ELSE new

\* Faulty: one too far.
NextInList(l, token) ==
  IF token = AnyType THEN None ELSE kinds[l][(token % Len(kinds[l])) + 1]
\* _resolve_connector_token: what the token stands for in the list as it is now.
InRange(l, token) == token = AnyType \/ token \in 1..Len(kinds[l])
Resolved(l, token) == IF token = AnyType THEN None ELSE kinds[l][token]

Finish(h) == job' = [job EXCEPT ![h] = None]
Goto(h, where) == job' = [job EXCEPT ![h].at = where, ![h].paid = FALSE]

Busy(u) == {h \in Taps : job[h] # None /\ job[h].user = u}
\* The taps that have passed the limit and have not inserted their row yet.
Inserting(u) == {h \in Busy(u) : job[h].step = "wlim" /\ job[h].at \in {"load", "insert"}}

\* The row of users is locked by a refund that has written its tier.
Locked(u) == trim # None /\ trim.user = u /\ trim.cuts

-----------------------------------------------------------------------------
(* The wizard *)

Started(step, u, l, con, choice) ==
  [at |-> "ensure", step |-> step, user |-> u, loc |-> l, con |-> con,
   choice |-> choice, paid |-> FALSE, free |-> FALSE, lost |-> FALSE]

\* "sub:<loc>", a button of /find, /nearby and of the farewell of a spent quota.
TapSubscribe(h, u, l) ==
  /\ inputs < MaxInputs /\ inputs' = inputs + 1
  /\ job[h] = None /\ station[l] # "absent"
  /\ job' = [job EXCEPT ![h] = Started("sub", u, l, None, AnyChoice)]
  /\ erased' = erased \ {u} /\ revived' = revived \ {u}
  /\ UNCHANGED <<dbVars, kinds, events, chat, trim, pollVars, worldVars, widened, raced,
                 faults>>

\* "wcon:<loc>:<token>": the message is edited, its new keyboard repeats the token.
TapConnector(k, c) ==
  /\ k \in chat /\ k.step = "wcon" /\ c \in k.choices
  /\ InRange(k.loc, c.token)
  /\ chat' = (chat \ {k}) \cup {Keyboard("wlim", k.user, k.loc, {c})}
  /\ UNCHANGED <<dbVars, kinds, events, job, trim, pollVars, worldVars, histVars, boundVars>>

\* "wlim:<loc>:<token>:<n>": the token is resolved again.
TapLimit(h, k, c) ==
  /\ inputs < MaxInputs /\ inputs' = inputs + 1
  /\ job[h] = None /\ k \in chat /\ k.step = "wlim" /\ c \in k.choices
  /\ InRange(k.loc, c.token)
  /\ job' = [job EXCEPT ![h] = Started("wlim", k.user, k.loc, Resolved(k.loc, c.token), c)]
  /\ erased' = erased \ {k.user} /\ revived' = revived \ {k.user}
  /\ UNCHANGED <<dbVars, kinds, events, chat, trim, pollVars, worldVars, widened, raced,
                 faults>>

\* ensure_user: INSERT ... ON CONFLICT DO NOTHING, then the row.  It asks nothing of what
\* came between the tap and the INSERT: a deletion in between is undone.
EnsureUser(h) ==
  LET u == job[h].user
  IN  /\ job[h] # None /\ job[h].at = "ensure"
      /\ tier' = IF tier[u] = "gone" THEN [tier EXCEPT ![u] = "free"] ELSE tier
      /\ job' = [job EXCEPT ![h].at = "count", ![h].paid = EffectivelyPaid(u)]
      /\ revived' = IF tier[u] = "gone" /\ u \in erased THEN revived \cup {u} ELSE revived
      /\ UNCHANGED <<payments, subs, station, kinds, events, chat, trim, pollVars,
                     worldVars, widened, raced, erased, boundVars>>

\* user_subscription_count, and the refusal if it is the tier's limit already.
CountRows(h) ==
  LET j == job[h]
      full == Counted(j) /\ LimitReached(Cardinality(RowsOf(j.user)), j.paid)
  IN  /\ job[h] # None /\ j.at = "count"
      /\ IF full THEN Finish(h) /\ UNCHANGED raced
         ELSE /\ Goto(h, IF j.step = "sub" THEN "show" ELSE "load")
              /\ raced' = IF j.step = "wlim" /\ Inserting(j.user) # {}
                          THEN raced \cup {j.user} ELSE raced
      /\ UNCHANGED <<dbVars, kinds, events, chat, trim, pollVars, worldVars, widened,
                     erased, revived, boundVars>>

\* The end of on_sub_callback: a button per connector type and one for any; or, while
\* the list is empty, the keyboard of the last step at once.
ShowTypes(h) ==
  LET j == job[h]
      list == kinds[j.loc]
      named == {[token |-> i, label |-> list[i], edition |-> edition[j.loc]] :
                i \in 1..Len(list)}
  IN  /\ job[h] # None /\ j.at = "show"
      /\ chat' = chat \cup {Keyboard(IF list = <<>> THEN "wlim" ELSE "wcon", j.user, j.loc,
                                     {AnyChoice} \cup named)}
      /\ Finish(h)
      /\ UNCHANGED <<dbVars, kinds, events, trim, pollVars, worldVars, histVars, boundVars>>

\* The SELECT of the location, in the transaction that will insert.
LoadLocation(h) ==
  /\ job[h] # None /\ job[h].at = "load"
  /\ job' = [job EXCEPT ![h].at = "insert", ![h].free = station[job[h].loc] = "AVAILABLE"]
  /\ UNCHANGED <<dbVars, kinds, events, chat, trim, pollVars, worldVars, histVars, boundVars>>

\* Faulty: the unique key of 0004 is missing.
OwnerExists(j) == tier[j.user] # "gone"
\* Faulty: nothing refers to the users.
NewPlace(j) == ~\E r \in subs : r.user = j.user /\ r.loc = j.loc
\* What the COMMIT asks: the foreign key of the user, the unique key (user, location).
Insertable(j) ==
  /\ tier[j.user] # "gone"
  /\ ~\E r \in subs : r.user = j.user /\ r.loc = j.loc

\* INSERT and COMMIT; an IntegrityError is answered as "already subscribed".  The message
\* is edited and has no keyboard any more.
Insert(h) ==
  LET j == job[h]
      row == [user |-> j.user, loc |-> j.loc, ear |-> IF j.lost THEN "missed" ELSE "due"]
  IN  /\ job[h] # None /\ j.at = "insert"
      /\ IF Insertable(j)
         THEN /\ subs' = subs \cup {row}
              /\ chat' = chat \ {Keyboard("wlim", j.user, j.loc, {j.choice})}
              /\ raced' = IF trim # None /\ trim.user = j.user THEN raced \cup {j.user}
                          ELSE raced
              /\ IF j.free
                 THEN job' = [job EXCEPT ![h].at = "hint", ![h].choice = AnyChoice,
                                         ![h].con = None]
                 ELSE Finish(h)
         ELSE Finish(h) /\ UNCHANGED <<subs, chat, raced>>
      /\ UNCHANGED <<tier, payments, station, kinds, events, trim, pollVars, worldVars,
                     widened, erased, revived, boundVars>>

Heard(rows, what) == {[r EXCEPT !.ear = what] : r \in rows}

\* "It is free right now": what the handler read before it inserted.
Hint(h) ==
  LET mine == {r \in subs : r.user = job[h].user /\ r.loc = job[h].loc}
  IN  /\ job[h] # None /\ job[h].at = "hint"
      /\ subs' = (subs \ mine) \cup Heard(mine, "told")
      /\ Finish(h)
      /\ UNCHANGED <<tier, payments, station, kinds, events, chat, trim, pollVars,
                     worldVars, histVars, boundVars>>

\* A call of the handler raises, or the bot stops.
Abort(h) ==
  /\ job[h] # None /\ faults < MaxFaults
  /\ faults' = faults + 1
  /\ Finish(h)
  /\ UNCHANGED <<dbVars, kinds, events, chat, trim, pollVars, worldVars, histVars, inputs>>

-----------------------------------------------------------------------------
(* Rows that go, accounts, tiers *)

\* The button under an alert or in /list, /unsubscribe; also a spent quota (Notifier).
\* The list of a refund under way holds ids: it means no row of the location that comes later.
Unsubscribe(r) ==
  /\ r \in subs
  /\ subs' = subs \ {r}
  /\ trim' = IF trim # None /\ trim.user = r.user THEN [trim EXCEPT !.rows = @ \ {r.loc}]
             ELSE trim
  /\ UNCHANGED <<tier, payments, station, kinds, events, chat, job, pollVars, worldVars,
                 histVars, boundVars>>

\* on_delme_callback; the payments forget their owner.
DeleteMe(u) ==
  /\ tier[u] # "gone" /\ ~Locked(u)
  /\ tier' = [tier EXCEPT ![u] = "gone"] /\ payments' = [payments EXCEPT ![u] = 0]
  /\ subs' = subs \ RowsOf(u)
  /\ trim' = IF trim # None /\ trim.user = u THEN None ELSE trim
  /\ widened' = widened \ {u}
  /\ raced' = IF \E h \in Busy(u) : job[h].step = "wlim" THEN raced \cup {u} ELSE raced
  /\ erased' = erased \cup {u} /\ revived' = revived \ {u}
  /\ UNCHANGED <<station, kinds, events, chat, job, pollVars, worldVars, boundVars>>

\* on_paid, or the reward of a referral.
Pay(u) ==
  /\ tier[u] # "gone" /\ ~Locked(u)
  /\ inputs < MaxInputs /\ inputs' = inputs + 1
  /\ tier' = [tier EXCEPT ![u] = "paid"]
  /\ payments' = [payments EXCEPT ![u] = @ + 1]
  /\ widened' = widened \cup {u}
  /\ UNCHANGED <<subs, station, kinds, events, chat, job, trim, pollVars, actual, edition,
                 raced, erased, revived, faults>>

\* paid_until passes; tier_reaper's UPDATE changes nothing that is asked here.
Lapse(u) ==
  /\ tier[u] = "paid"
  /\ tier' = [tier EXCEPT ![u] = "lapsed"]
  /\ UNCHANGED <<payments, subs, station, kinds, events, chat, job, trim, pollVars,
                 worldVars, histVars, boundVars>>

LocsOf(u) == {r.loc : r \in RowsOf(u)}

\* to_delete: every row but the oldest.  Which one that is, no property tells.
OldestKept(u) == IF LocsOf(u) = {} THEN {{}} ELSE {LocsOf(u) \ {l} : l \in LocsOf(u)}

\* cmd_refund up to the SELECT of the rows, which flushes the new tier: that UPDATE, if
\* there is something to change, locks the user.
RefundSelect(u) ==
  /\ trim = None /\ tier[u] # "gone" /\ payments[u] > 0
  /\ \E rows \in OldestKept(u) :
       trim' = [user |-> u, cuts |-> tier[u] # "free", rows |-> rows]
  /\ UNCHANGED <<dbVars, kinds, events, chat, job, pollVars, worldVars, histVars, boundVars>>

RefundCommit ==
  LET u == trim.user
  IN  /\ trim # None
      /\ trim' = None
      /\ tier' = IF trim.cuts THEN [tier EXCEPT ![u] = "free"] ELSE tier
      /\ payments' = [payments EXCEPT ![u] = @ - 1]
      /\ subs' = {r \in subs : ~(r.user = u /\ r.loc \in trim.rows)}
      /\ widened' = IF tier'[u] = "free" THEN widened \ {u} ELSE widened
      /\ raced' = IF \E h \in Busy(u) : job[h].step = "wlim" THEN raced \cup {u} ELSE raced
      /\ UNCHANGED <<station, kinds, events, chat, job, pollVars, worldVars, erased, revived,
                     boundVars>>

\* The transaction is rolled back: a call raises, or /delete_me wins a deadlock.
RefundFails ==
  /\ trim # None
  /\ trim' = None
  /\ UNCHANGED <<dbVars, kinds, events, chat, job, pollVars, worldVars, histVars, boundVars>>

-----------------------------------------------------------------------------
(* The poller and the notifier, as far as the wizard meets them *)

Change(l) ==
  /\ inputs < MaxInputs
  /\ inputs' = inputs + 1
  /\ \E s \in Statuses \ {actual[l]} : actual' = [actual EXCEPT ![l] = s]
  /\ UNCHANGED <<dbVars, kinds, events, chat, job, trim, pollVars, edition, histVars, faults>>

\* The taps that have read the location as not free, and insert too late for what comes now.
Overtaken(l) ==
  [h \in Taps |-> IF job[h] # None /\ job[h].at = "insert" /\ job[h].loc = l
                     /\ ~job[h].free
                  THEN [job[h] EXCEPT !.lost = TRUE] ELSE job[h]]

\* rest_diff_once and _sse_worker: the status goes to Postgres, a freeing then to the
\* stream.  Without a previous status the first one seen is the baseline, and no event.
Observe(l) ==
  LET free == actual[l] = "AVAILABLE"
      here == {r \in subs : r.loc = l}
      due == {r \in here : r.ear = "due"}
      cold == free /\ prev[l] = None
  IN  /\ l \in follows \ telling /\ prev[l] # actual[l]
      /\ prev' = [prev EXCEPT ![l] = actual[l]]
      /\ station' = [station EXCEPT ![l] = Coalesced(actual[l], @)]
      /\ telling' = IF free /\ prev[l] # None THEN telling \cup {l} ELSE telling
      /\ subs' = CASE cold -> (subs \ due) \cup Heard(due, "blind")
                   [] free /\ ~cold -> (subs \ here) \cup Heard(here, "due")
                   [] OTHER -> subs
      /\ job' = IF cold THEN Overtaken(l) ELSE job
      /\ UNCHANGED <<tier, payments, kinds, events, chat, trim, follows, worldVars,
                     histVars, boundVars>>

\* publish_event.
Publish(l) ==
  /\ l \in telling
  /\ telling' = telling \ {l}
  /\ events' = [events EXCEPT ![l] = @ + 1]
  /\ UNCHANGED <<dbVars, kinds, chat, job, trim, follows, prev, worldVars, histVars, boundVars>>

\* dispatch_event selects the rows of the location; what follows is in Notifier.
Dispatch(l) ==
  LET here == {r \in subs : r.loc = l}
  IN  /\ events[l] > 0
      /\ events' = [events EXCEPT ![l] = @ - 1]
      /\ subs' = (subs \ here) \cup Heard(here, "told")
      /\ job' = Overtaken(l)
      /\ UNCHANGED <<tier, payments, station, kinds, chat, trim, pollVars, worldVars,
                     histVars, boundVars>>

\* SseManager.tick: a worker for a location with subscribers, none for the others.  The
\* baseline goes with the worker; last_status stays as it was.
Follow(l) ==
  /\ l \in Central \ follows /\ \E r \in subs : r.loc = l
  /\ follows' = follows \cup {l}
  /\ UNCHANGED <<dbVars, kinds, events, chat, job, trim, prev, telling, worldVars,
                 histVars, boundVars>>

Unfollow(l) ==
  /\ l \in Central \cap follows /\ ~\E r \in subs : r.loc = l
  /\ follows' = follows \ {l} /\ telling' = telling \ {l}
  /\ prev' = [prev EXCEPT ![l] = None]
  /\ UNCHANGED <<dbVars, kinds, events, chat, job, trim, worldVars, histVars, boundVars>>

\* sync_central_catalog, for one location of the listing, which tells no status.
CatalogueSync(l) ==
  /\ l \in Central
  /\ station' = [station EXCEPT ![l] = IF @ = "absent" THEN None ELSE Coalesced(None, @)]
  /\ UNCHANGED <<tier, payments, subs, kinds, events, chat, job, trim, pollVars, worldVars,
                 histVars, boundVars>>

\* connectors_catalog_tick, for one location; an empty list of types is not written.
ConnectorsTick(l, types) ==
  /\ station[l] # "absent" /\ types # <<>> /\ types # kinds[l]
  /\ inputs < MaxInputs /\ inputs' = inputs + 1
  /\ kinds' = [kinds EXCEPT ![l] = types]
  /\ edition' = [edition EXCEPT ![l] = @ + 1]
  /\ UNCHANGED <<dbVars, events, chat, job, trim, pollVars, actual, histVars, faults>>

-----------------------------------------------------------------------------

Next ==
  \/ \E h \in Taps, u \in Users, l \in Locs : TapSubscribe(h, u, l)
  \/ \E k \in chat : \E c \in k.choices :
       TapConnector(k, c) \/ \E h \in Taps : TapLimit(h, k, c)
  \/ \E h \in Taps :
       \/ EnsureUser(h) \/ CountRows(h) \/ ShowTypes(h) \/ LoadLocation(h) \/ Insert(h)
       \/ Hint(h) \/ Abort(h)
  \/ \E r \in subs : Unsubscribe(r)
  \/ \E u \in Users : DeleteMe(u) \/ Pay(u) \/ Lapse(u) \/ RefundSelect(u)
  \/ RefundCommit \/ RefundFails
  \/ \E l \in Locs :
       \/ Change(l) \/ Observe(l) \/ Publish(l) \/ Dispatch(l)
       \/ Follow(l) \/ Unfollow(l) \/ CatalogueSync(l)
       \/ \E types \in Catalogs : ConnectorsTick(l, types)

Spec == Init /\ [][Next]_vars

-----------------------------------------------------------------------------
(* Properties *)

\* Every variable has its type, and a subscription is unique per user and location.
TypeOK ==
  /\ tier \in [Users -> {"gone", "free", "paid", "lapsed"}]
  /\ payments \in [Users -> 0..MaxInputs]
  /\ subs \subseteq Rows /\ station \in [Locs -> Statuses \cup {None, "absent"}]
  /\ kinds \in [Locs -> Catalogs \cup {<<>>}] /\ events \in [Locs -> Nat]
  /\ chat \subseteq Keyboards /\ job \in [Taps -> Jobs \cup {None}]
  /\ trim = None \/ trim \in [user : Users, cuts : BOOLEAN, rows : SUBSET Locs]
  /\ follows \subseteq Locs /\ prev \in [Locs -> Statuses \cup {None}]
  /\ telling \subseteq follows
  /\ actual \in [Locs -> Statuses] /\ edition \in [Locs -> 0..MaxInputs]
  /\ widened \cup raced \cup erased \subseteq Users /\ revived \subseteq erased
  /\ inputs \in 0..MaxInputs /\ faults \in 0..MaxFaults
  /\ \A r, s \in subs : r.user = s.user /\ r.loc = s.loc => r = s

\* A user has no more subscriptions than the tier allows, or than it allowed while it
\* was paid: nothing but a refund takes any away.  Exempt are users who got two rows
\* from taps that overlapped, or one while a refund or a deletion was under way: the
\* count and the INSERT are two transactions (main.py:629).
LimitUnlessRaced ==
  \A u \in Users \ raced : Cardinality(RowsOf(u)) <= TierLimit(u \in widened)

\* The connector type a subscription waits for is the one on the button that was
\* tapped, unless the list of its location has changed since the button was shown: the
\* button carries an index (main.py:240), and the keyboard never expires.
ChosenConnector ==
  \A h \in Taps : job[h] # None /\ job[h].step = "wlim" =>
    \/ job[h].con = job[h].choice.label
    \/ edition[job[h].loc] # job[h].choice.edition

\* The owner of a subscription knows when its location is free: the wizard has said so,
\* or is about to, or an alert is on its way.  Because the poller writes the status before
\* it publishes, and a catalogue keeps it, a tap cannot fall in between.  Exempt are rows
\* whose location was dispatched, or first seen, free between the wizard's SELECT and its
\* COMMIT ("missed"), and those that were there when it was first seen, free ("blind").
ToldOrAlerted ==
  \A r \in subs : r.ear = "due" /\ r.loc \in follows /\ prev[r.loc] = "AVAILABLE" =>
    \/ r.loc \in telling \/ events[r.loc] > 0
    \/ faults > 0
    \/ \E h \in Busy(r.user) : job[h].at = "hint" /\ job[h].loc = r.loc

\* Until its owner taps a button again, a deleted account comes back in one way only: a
\* tap from before /delete_me whose ensure_user (main.py:549, 629) runs after it, which
\* creates the row of users again (`revived`).  Payments, refunds and taps past their
\* ensure_user bring nothing back.  Subscriptions come back only to such an account, and
\* only by a tap of the last step that the deletion has overtaken (`raced`).
ErasedStaysErased ==
  \A u \in erased :
    /\ tier[u] # "gone" => u \in revived
    /\ RowsOf(u) # {} => tier[u] # "gone" /\ u \in raced
=============================================================================
