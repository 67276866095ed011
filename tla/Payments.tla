------------------------------ MODULE Payments ------------------------------
(***************************************************************************)
(* Paid tiers, Telegram Stars and referrals: the handlers of a payment and *)
(* of /refund (src/bot/main.py), account deletion, and the tier reaper     *)
(* (src/bot/notifier.py), over the tables users, payments and referrals.   *)
(*                                                                         *)
(* aiogram runs every update in a task of its own, and a handler is one    *)
(* READ COMMITTED transaction: it reads rows, computes, and writes the     *)
(* columns that differ from what it read.  The session sends these UPDATEs *)
(* before its next SELECT (autoflush), the last ones with the COMMIT.      *)
(* Others see them after the COMMIT, and wait until then if they update    *)
(* the same row.  Each SELECT with the UPDATEs before it, the INSERT, the  *)
(* COMMIT and the call of Telegram are actions of their own.               *)
(*                                                                         *)
(* paid_until is kept as the periods that are left of it, 0 when it has    *)
(* passed.  Handlers take no time at the scale of a period.                *)
(***************************************************************************)
EXTENDS Naturals, FiniteSets

CONSTANTS
  Users,     \* tg_id
  Charges,   \* telegram_payment_charge_id
  Admins,    \* refunds that may be under way at once
  None,      \* NULL, no row, nothing read
  Term,      \* paid_tier_duration_days
  Reward,    \* referral_reward_days
  MaxUpsets  \* bound of deleted accounts, calls that raise and crashes, together

Jobs == Charges \cup Admins

ASSUME PaymentConstants ==
  /\ Charges \cap Admins = {}
  /\ Term \in Nat \ {0} /\ Reward \in Nat \ {0}
  /\ MaxUpsets \in Nat
  /\ None \notin Users \cup Charges \cup Nat
  /\ \A cs \in SUBSET Charges : cs # None

\* The rows of users and referrals, and what an invoice says.
UserRows == [tier : {"free", "paid"}, until : Nat \cup {None}]
Referrals == [inviter : Users, charge : Charges \cup {None}]
Invoices == [payer : Users, discount : BOOLEAN]

ASSUME NoneIsNoRow == None \notin UserRows \cup Referrals \cup Invoices

VARIABLES
  \* Postgres
  users,     \* users: [tier, until] of each, None if there is no row
  ref,       \* referrals: [inviter, charge] of each invitee, or None
  ledger,    \* `payments`, open transactions included: the payments with an earlier
             \* paid_at than that of a charge, None if it has no row
  owner,     \* payments.user_tg_id
  refunded,  \* the payments with refunded_at
  \* Telegram
  invoice,   \* of each charge: [payer, discount], its payload ends with ":ref"
  update,    \* the news of a payment: "none", "due", "taken" by the bot
  returned,  \* the charges Telegram has given back
  \* the memory of the bot
  pc,        \* where the handler of a charge, or of a refund, is
  view,      \* the rows of users it has read
  link,      \* the inviter named by the referral it has read
  hand,      \* whom or what a refund is about: first a user, then a charge
  reaper,    \* tier_reaper: "idle", "write", "dead"
  expired,   \* the users it has read
  \* history
  granted,   \* times a charge has extended its payer's tier
  rewarded,  \* whom a charge has rewarded
  reversed,  \* times the reward of a charge was taken back, from whom
  failed,    \* charges whose handler was cut short
  left,      \* users who have deleted their account
  stale,     \* users whose row was not as a transaction had read it, at its end
  upsets     \* deleted accounts, calls that raised, crashes

tableVars == <<users, ref, ledger, owner, refunded>>
telegramVars == <<invoice, update, returned>>
jobVars == <<pc, view, link, hand>>
reaperVars == <<reaper, expired>>
histVars == <<granted, rewarded, reversed, failed, left, stale>>
vars == <<tableVars, telegramVars, jobVars, reaperVars, histVars, upsets>>

Free == [tier |-> "free", until |-> None]
Unread == [u \in Users |-> None]

Init ==
  /\ users = [u \in Users |-> Free] /\ ref = [u \in Users |-> None]
  /\ ledger = [c \in Charges |-> None] /\ owner = [c \in Charges |-> None] /\ refunded = {}
  /\ invoice = [c \in Charges |-> None]
  /\ update = [c \in Charges |-> "none"] /\ returned = {}
  /\ pc = [j \in Jobs |-> "idle"] /\ view = [j \in Jobs |-> Unread]
  /\ link = [j \in Jobs |-> None] /\ hand = [a \in Admins |-> None]
  /\ reaper = "idle" /\ expired = {}
  /\ granted = [c \in Charges |-> 0] /\ rewarded = [c \in Charges |-> None]
  /\ reversed = [c \in Charges |-> [u \in Users |-> 0]]
  /\ failed = {} /\ left = {} /\ stale = {} /\ upsets = 0

-----------------------------------------------------------------------------
(* Helpers *)

Upset == upsets < MaxUpsets /\ upsets' = upsets + 1

Goto(j, where) == pc' = [pc EXCEPT ![j] = where]

\* Faulty: one session for all handlers.
SessionShared(j) ==
  /\ Goto(j, "idle")
  /\ link' = [link EXCEPT ![j] = None]
  /\ hand' = [a \in Admins |-> IF a = j THEN None ELSE hand[a]]
  /\ UNCHANGED view

\* A handler ends: what it had in memory is gone.
End(j) ==
  /\ Goto(j, "idle")
  /\ view' = [view EXCEPT ![j] = Unread]
  /\ link' = [link EXCEPT ![j] = None]
  /\ hand' = [a \in Admins |-> IF a = j THEN None ELSE hand[a]]

\* The row of user u, as the handler reads it.
Read(j, u) == view' = [view EXCEPT ![j][u] = users[u]]

\* The handlers under way.
Busy == {j \in Jobs : pc[j] # "idle"}

Payer(c) == invoice[c].payer

Rows == {c \in Charges : ledger[c] # None}
\* The transaction of a payment has inserted its row.
Open(c) == pc[c] \in {"user", "referral", "inviter", "commit"}
\* What other transactions see of the table.
Recorded == {c \in Rows : ~Open(c)}

\* The INSERT of a payment; the rows of others that are rolled back.
With(c) == [ledger EXCEPT ![c] = Rows]
Without(cs) ==
  [c \in Charges |-> IF c \in Rows \ cs THEN ledger[c] \ cs ELSE None]

Unclaimed(u) == ref[u] # None /\ ref[u].charge = None

\* n periods more, from now or from the end of those that are left.
Extended(row, n) ==
  [tier |-> "paid",
   until |-> IF row.until = None THEN n ELSE row.until + n]

\* Faulty: the days that are left stay.
KeptReward(row) == row

\* A reward taken back.
LessReward(row) ==
  IF row = None \/ row.until = None THEN row
  ELSE IF row.until <= Reward THEN Free
  ELSE [row EXCEPT !.until = @ - Reward]

\* The UPDATE of a row names the columns whose value is not the one that was read.
Updated(row, seen, new) ==
  [tier |-> IF new.tier = seen.tier THEN row.tier ELSE new.tier,
   until |-> IF new.until = seen.until THEN row.until ELSE new.until]

-----------------------------------------------------------------------------
(* What the transactions write, and the rows they lock *)

\* The rows a payment wants: the payer's, and the inviter's.
PaidRows(c) ==
  [u \in Users |->
     IF view[c][u] = None THEN None
     ELSE Extended(view[c][u], IF u = Payer(c) THEN Term ELSE Reward)]

\* Faulty: the tier goes, the days stay.
TierOnly(row) == [row EXCEPT !.tier = "free"]
\* The refunded user is on the free tier.
Stripped(row) == Free

\* The rows a refund wants: the user's, and the inviter's.
RefundedRows(a) ==
  [u \in Users |->
     IF view[a][u] = None THEN None
     ELSE IF u = link[a] THEN LessReward(view[a][u])
     ELSE Stripped(view[a][u])]

NewRows(j) == IF j \in Charges THEN PaidRows(j) ELSE RefundedRows(j)

\* The users whose rows it updates.
Writes(j) == {u \in Users : view[j][u] # None /\ NewRows(j)[u] # view[j][u]}

WriteUsers(j) ==
  /\ users' = [u \in Users |->
       IF u \in Writes(j) THEN Updated(users[u], view[j][u], NewRows(j)[u])
       ELSE users[u]]
  /\ stale' = stale \cup {u \in Users : view[j][u] \notin {None, users[u]}}

\* Whose payment the handler is about.
Subject(j) == Payer(IF j \in Charges THEN j ELSE hand[j])

\* The SELECT of the referral has sent the UPDATE of the user before it.
Flushed(j) == pc[j] \in {"inviter", "commit"} /\ (j \in Charges => invoice[j].discount)

\* Faulty: without autoflush all is written with the COMMIT.
HoldsNothing(j) == {}
\* The rows of users it has updated.
Holds(j) == IF Flushed(j) THEN Writes(j) \cap {Subject(j)} ELSE {}

\* Those it is about to update.
Wants(j) ==
  IF pc[j] \in {"referral", "find", "commit"} THEN Writes(j) \ Holds(j) ELSE {}

Waits(j, k) == j # k /\ Wants(j) \cap Holds(k) # {}
Blocked(j) == \E k \in Jobs : Waits(j, k)
\* Postgres gives up one transaction of those that wait for each other.
Deadlocked(j) ==
  \E ring \in SUBSET Jobs :
    /\ j \in ring
    /\ \A i \in ring : (\E k \in ring : Waits(i, k)) /\ (\E k \in ring : Waits(k, i))

\* An UPDATE that finds no row makes the handler raise.
Misses(j) == \E u \in Wants(j) : users[u] = None

\* The users whose deletion waits: the INSERT of a payment locks its user's row, and
\* the rows of payments and referrals that a handler has updated would be changed too:
\* the referral of a payer may have another inviter by then than the one it has read.
Kept ==
  {Payer(c) : c \in {d \in Charges : Open(d)}}
    \cup {ref[Payer(c)].inviter : c \in {d \in Charges : pc[d] = "commit" /\ link[d] # None}}
    \cup {Subject(a) : a \in {b \in Admins : pc[b] \in {"inviter", "commit"}}}

-----------------------------------------------------------------------------
(* Users, Telegram and time *)

\* /start, again after /delete_me: ensure_user_with_flag.
StartBot(u) ==
  /\ users[u] = None
  /\ users' = [users EXCEPT ![u] = Free]
  /\ UNCHANGED <<ref, ledger, owner, refunded, telegramVars, jobVars, reaperVars,
                 histVars, upsets>>

\* /start with the link of an inviter: _try_record_referral.
Refer(u, by) ==
  /\ users[u] # None /\ users[by] # None /\ by # u
  /\ ref[u] = None
  /\ ref' = [ref EXCEPT ![u] = [inviter |-> by, charge |-> None]]
  /\ UNCHANGED <<users, ledger, owner, refunded, telegramVars, jobVars, reaperVars,
                 histVars, upsets>>

\* /delete_me.
DeleteMe(u) ==
  /\ users[u] # None /\ Upset
  /\ u \notin Kept
  /\ users' = [users EXCEPT ![u] = None]
  /\ ref' = [i \in Users |->
       IF i = u \/ (ref[i] # None /\ ref[i].inviter = u) THEN None ELSE ref[i]]
  /\ owner' = [c \in Charges |-> IF owner[c] = u THEN None ELSE owner[c]]
  /\ left' = left \cup {u}
  /\ UNCHANGED <<ledger, refunded, telegramVars, jobVars, reaperVars, granted,
                 rewarded, reversed, failed, stale>>

\* pre_checkout accepts the invoice.  Telegram takes the money and tells the bot of it
\* any time later.
PreCheckout(c, u, discount) ==
  /\ update[c] = "none"
  /\ discount => Unclaimed(u)
  /\ invoice' = [invoice EXCEPT ![c] = [payer |-> u, discount |-> discount]]
  /\ update' = [update EXCEPT ![c] = "due"]
  /\ UNCHANGED <<tableVars, returned, jobVars, reaperVars, histVars, upsets>>

Tick ==
  /\ Busy = {} /\ reaper # "write"
  /\ users' = [u \in Users |->
       IF users[u] = None \/ users[u].until \in {None, 0} THEN users[u]
       ELSE [users[u] EXCEPT !.until = @ - 1]]
  /\ UNCHANGED <<ref, ledger, owner, refunded, telegramVars, jobVars, reaperVars,
                 histVars, upsets>>

-----------------------------------------------------------------------------
(* on_paid *)

Deliver(c) ==
  /\ update[c] = "due"
  /\ update' = [update EXCEPT ![c] = "taken"]
  /\ Goto(c, "insert")
  /\ UNCHANGED <<tableVars, invoice, returned, view, link, hand, reaperVars, histVars,
                 upsets>>

\* Faulty: nothing is known of earlier deliveries.
NeverKnown(c) == FALSE
\* Faulty: one payment per user.
KnownPayer(c) == \E d \in Recorded : Payer(d) = Payer(c)

\* The primary key: an earlier delivery of the same update has been recorded.
Known(c) == c \in Rows

\* The flush of the INSERT.  The foreign key refuses a payer without a row as well,
\* which the handler takes for a duplicate.
Insert(c) ==
  /\ pc[c] = "insert"
  /\ IF Known(c) \/ users[Payer(c)] = None
     THEN End(c) /\ UNCHANGED <<ledger, owner>>
     ELSE /\ ledger' = With(c)
          /\ owner' = [owner EXCEPT ![c] = Payer(c)]
          /\ Goto(c, "user")
          /\ UNCHANGED <<view, link, hand>>
  /\ UNCHANGED <<users, ref, refunded, telegramVars, reaperVars, histVars, upsets>>

ReadPayer(c) ==
  /\ pc[c] = "user"
  /\ Read(c, Payer(c))
  /\ Goto(c, IF invoice[c].discount THEN "referral" ELSE "commit")
  /\ UNCHANGED <<tableVars, telegramVars, link, hand, reaperVars, histVars, upsets>>

\* The UPDATE of the payer, then the referral, which earns a reward if no charge has
\* claimed it.
ReadReferral(c) ==
  /\ pc[c] = "referral" /\ ~Blocked(c)
  /\ IF Unclaimed(Payer(c))
     THEN /\ link' = [link EXCEPT ![c] = ref[Payer(c)].inviter]
          /\ Goto(c, "inviter")
     ELSE /\ Goto(c, "commit")
          /\ UNCHANGED link
  /\ UNCHANGED <<tableVars, telegramVars, view, hand, reaperVars, histVars, upsets>>

\* In a payment the UPDATE of the referral comes before.
ReadInviter(j) ==
  /\ pc[j] = "inviter"
  /\ j \in Charges => ref[Payer(j)] # None
  /\ Read(j, link[j])
  /\ Goto(j, "commit")
  /\ UNCHANGED <<tableVars, telegramVars, link, hand, reaperVars, histVars, upsets>>

CommitPayment(c) ==
  LET p == Payer(c)
  IN  /\ pc[c] = "commit" /\ ~Blocked(c) /\ ~Misses(c)
      /\ WriteUsers(c)
      /\ ref' = IF link[c] = None THEN ref ELSE [ref EXCEPT ![p].charge = c]
      /\ granted' = [granted EXCEPT ![c] = @ + 1]
      /\ rewarded' = IF link[c] # None /\ view[c][link[c]] # None
                     THEN [rewarded EXCEPT ![c] = link[c]] ELSE rewarded
      /\ End(c)
      /\ UNCHANGED <<ledger, owner, refunded, telegramVars, reaperVars, reversed,
                     failed, left, upsets>>

\* Postgres raises in the handler, the referral or the inviter is gone, or transactions
\* wait for each other: all is rolled back, and nobody delivers the update again.
PaymentFails(c) ==
  /\ pc[c] # "idle"
  /\ \/ Upset
     \/ pc[c] = "inviter" /\ ref[Payer(c)] = None /\ UNCHANGED upsets
     \/ Misses(c) /\ UNCHANGED upsets
     \/ Deadlocked(c) /\ UNCHANGED upsets
  /\ IF Open(c)
     THEN ledger' = Without({c}) /\ owner' = [owner EXCEPT ![c] = None]
     ELSE UNCHANGED <<ledger, owner>>
  /\ failed' = failed \cup {c}
  /\ End(c)
  /\ UNCHANGED <<users, ref, refunded, telegramVars, reaperVars, granted, rewarded,
                 reversed, left, stale>>

-----------------------------------------------------------------------------
(* cmd_refund *)

\* The SELECT of the user.
StartRefund(a, u) ==
  /\ pc[a] = "idle" /\ users[u] # None
  /\ Read(a, u)
  /\ hand' = [hand EXCEPT ![a] = u]
  /\ Goto(a, "pick")
  /\ UNCHANGED <<tableVars, telegramVars, link, reaperVars, histVars, upsets>>

Refundable(u) == {c \in Recorded \ refunded : owner[c] = u}

\* The SELECT of the user's last payment that was not refunded.
PickPayment(a) ==
  /\ pc[a] = "pick"
  /\ \/ /\ Refundable(hand[a]) = {}
        /\ End(a)
     \/ /\ \E c \in Refundable(hand[a]) :
             /\ Refundable(hand[a]) \subseteq ledger[c] \cup {c}
             /\ hand' = [hand EXCEPT ![a] = c]
        /\ Goto(a, "call")
        /\ UNCHANGED <<view, link>>
  /\ UNCHANGED <<tableVars, telegramVars, reaperVars, histVars, upsets>>

\* Faulty: on to the database whatever Telegram has answered.
GoOn(ok) == ok \in BOOLEAN

\* The database is touched only after Telegram has returned the Stars.
Accepts(ok) == ok

\* refund_star_payment: done; refused, as for what is already returned; or done
\* with an answer that is lost.
CallTelegram(a) ==
  LET c == hand[a]
  IN  /\ pc[a] = "call"
      /\ \E ok \in BOOLEAN :
           /\ \/ /\ ok /\ c \notin returned
                 /\ returned' = returned \cup {c} /\ UNCHANGED upsets
              \/ ~ok /\ UNCHANGED <<returned, upsets>>
              \/ ~ok /\ c \notin returned /\ Upset /\ returned' = returned \cup {c}
           /\ IF Accepts(ok)
              THEN Goto(a, "find") /\ UNCHANGED <<view, link, hand>>
              ELSE End(a)
      /\ UNCHANGED <<tableVars, invoice, update, reaperVars, histVars>>

\* The referral that this charge has claimed.
ClaimedBy(c) == {u \in Users : ref[u] # None /\ ref[u].charge = c}

\* The UPDATE of the user and of the payment, then the referral.
FindReferral(a) ==
  /\ pc[a] = "find" /\ ~Blocked(a) /\ ~Misses(a)
  /\ IF ClaimedBy(hand[a]) = {}
     THEN Goto(a, "commit") /\ UNCHANGED link
     ELSE /\ \E u \in ClaimedBy(hand[a]) : link' = [link EXCEPT ![a] = ref[u].inviter]
          /\ Goto(a, "inviter")
  /\ UNCHANGED <<tableVars, telegramVars, view, hand, reaperVars, histVars, upsets>>

\* refunded_at, the user's tier, the inviter's days and the referral's claim.
CommitRefund(a) ==
  LET c == hand[a]
      i == link[a]
  IN  /\ pc[a] = "commit" /\ ~Blocked(a) /\ ~Misses(a)
      /\ i # None => ref[Payer(c)] # None
      /\ refunded' = refunded \cup {c}
      /\ WriteUsers(a)
      /\ ref' = IF i = None THEN ref ELSE [ref EXCEPT ![Payer(c)].charge = None]
      /\ reversed' = IF i # None /\ view[a][i] # None /\ view[a][i].until # None
                     THEN [reversed EXCEPT ![c][i] = @ + 1] ELSE reversed
      /\ End(a)
      /\ UNCHANGED <<ledger, owner, telegramVars, reaperVars, granted, rewarded,
                     failed, left, upsets>>

\* The transaction is rolled back; what Telegram has returned stays returned.
RefundFails(a) ==
  /\ pc[a] # "idle"
  /\ \/ Upset
     \/ Misses(a) /\ UNCHANGED upsets
     \/ pc[a] = "commit" /\ link[a] # None /\ ref[Subject(a)] = None /\ UNCHANGED upsets
     \/ Deadlocked(a) /\ UNCHANGED upsets
  /\ End(a)
  /\ UNCHANGED <<tableVars, telegramVars, reaperVars, histVars>>

-----------------------------------------------------------------------------
(* tier_reaper, and the process *)

Lapsed(u) == users[u] # None /\ users[u].tier = "paid" /\ users[u].until = 0

ReaperReads ==
  /\ reaper = "idle" /\ \E u \in Users : Lapsed(u)
  /\ expired' = {u \in Users : Lapsed(u)}
  /\ reaper' = "write"
  /\ UNCHANGED <<tableVars, telegramVars, jobVars, histVars, upsets>>

\* One UPDATE of the tier for each user read.  Whether a row that is gone makes a
\* batch of several raise depends on the driver; a single one does.  The batch is
\* sent at once: the rows it locks before it waits for another only delay others.
ReaperWrites ==
  /\ reaper = "write"
  /\ \A u \in expired, j \in Jobs : u \notin Holds(j)
  /\ Cardinality(expired) > 1 \/ \A u \in expired : users[u] # None
  /\ users' = [u \in Users |->
       IF u \in expired /\ users[u] # None THEN [users[u] EXCEPT !.tier = "free"]
       ELSE users[u]]
  /\ stale' = stale \cup {u \in expired : ~Lapsed(u)}
  /\ reaper' = "idle" /\ expired' = {}
  /\ UNCHANGED <<ref, ledger, owner, refunded, telegramVars, jobVars, granted,
                 rewarded, reversed, failed, left, upsets>>

\* Nothing catches what the reaper raises: the task ends.
ReaperFails ==
  /\ reaper = "write"
  /\ \/ Upset
     \/ (\E u \in expired : users[u] = None) /\ UNCHANGED upsets
  /\ reaper' = "dead" /\ expired' = {}
  /\ UNCHANGED <<tableVars, telegramVars, jobVars, histVars>>

\* The process stops and is started again.  Open transactions are rolled back; of
\* the updates it has taken, Telegram delivers again those not yet confirmed.
Crash ==
  LET busy == Busy \cap Charges
      lost == {c \in Charges : Open(c)}
  IN  /\ Upset
      /\ \E again \in SUBSET {c \in Charges : update[c] = "taken"} :
           /\ update' = [c \in Charges |-> IF c \in again THEN "due" ELSE update[c]]
           /\ failed' = failed \cup (busy \ again)
      /\ ledger' = Without(lost)
      /\ owner' = [c \in Charges |-> IF c \in lost THEN None ELSE owner[c]]
      /\ pc' = [j \in Jobs |-> "idle"] /\ view' = [j \in Jobs |-> Unread]
      /\ link' = [j \in Jobs |-> None] /\ hand' = [a \in Admins |-> None]
      /\ reaper' = "idle" /\ expired' = {}
      /\ UNCHANGED <<users, ref, refunded, invoice, returned, granted, rewarded,
                     reversed, left, stale>>

-----------------------------------------------------------------------------
Pay(c) ==
  Deliver(c) \/ Insert(c) \/ ReadPayer(c) \/ ReadReferral(c) \/ CommitPayment(c)
    \/ PaymentFails(c)

Refund(a) ==
  \/ \E u \in Users : StartRefund(a, u)
  \/ PickPayment(a) \/ CallTelegram(a) \/ FindReferral(a) \/ CommitRefund(a)
  \/ RefundFails(a)

Next ==
  \/ \E u \in Users : StartBot(u) \/ DeleteMe(u) \/ \E by \in Users : Refer(u, by)
  \/ \E c \in Charges, u \in Users, discount \in BOOLEAN : PreCheckout(c, u, discount)
  \/ \E c \in Charges : Pay(c)
  \/ \E a \in Admins : Refund(a)
  \/ \E j \in Jobs : ReadInviter(j)
  \/ ReaperReads \/ ReaperWrites \/ ReaperFails \/ Crash \/ Tick

Spec == Init /\ [][Next]_vars

-----------------------------------------------------------------------------
(* Properties *)

TablesTyped ==
  /\ users \in [Users -> UserRows \cup {None}]
  /\ ref \in [Users -> Referrals \cup {None}]
  /\ ledger \in [Charges -> (SUBSET Charges) \cup {None}]
  /\ owner \in [Charges -> Users \cup {None}]
  /\ refunded \subseteq Rows /\ returned \subseteq Charges
  /\ invoice \in [Charges -> Invoices \cup {None}]
  /\ update \in [Charges -> {"none", "due", "taken"}]

JobsTyped ==
  /\ pc \in [Jobs -> {"idle", "insert", "user", "referral", "pick", "call", "find",
                      "inviter", "commit"}]
  /\ view \in [Jobs -> [Users -> UserRows \cup {None}]]
  /\ link \in [Jobs -> Users \cup {None}]
  /\ hand \in [Admins -> Users \cup Charges \cup {None}]
  /\ reaper \in {"idle", "write", "dead"} /\ expired \subseteq Users

HistoryTyped ==
  /\ granted \in [Charges -> Nat] /\ reversed \in [Charges -> [Users -> Nat]]
  /\ rewarded \in [Charges -> Users \cup {None}]
  /\ failed \subseteq Charges /\ left \subseteq Users /\ stale \subseteq Users
  /\ upsets \in 0..MaxUpsets

\* Every variable keeps its type; an open payment has a row with its payer, who
\* exists; a handler that has ended remembers nothing.
TypeOK ==
  /\ TablesTyped /\ JobsTyped /\ HistoryTyped
  /\ \A c \in Charges : Open(c) =>
       c \in Rows /\ owner[c] = Payer(c) /\ users[Payer(c)] # None
  /\ \A j \in Jobs : pc[j] = "idle" => view[j] = Unread /\ link[j] = None

\* A charge extends a tier once if its payment is recorded, and never otherwise,
\* whatever is delivered again, fails or crashes (bot/main.py:939-940).
GrantedIsRecorded ==
  \A c \in Charges : granted[c] = IF c \in Recorded THEN 1 ELSE 0

\* The bot has done with the charge.
Answered(c) == update[c] = "taken" /\ pc[c] = "idle"

\* A charge that was handled without an error is in the table, or it could not be
\* refunded (bot/main.py:926-927).
PaymentRecorded ==
  \A c \in Charges : Answered(c) => c \in Rows \cup failed

\* The same for payers who have never deleted their account.
MemberPaymentRecorded ==
  \A c \in Charges : Answered(c) => c \in Rows \cup failed \/ Payer(c) \in left

\* A referral rewards the inviter for one payment, however many the guest makes at once
\* (bot/main.py:963-964), as long as nobody deletes an account; and the reward is taken
\* back once, by the refund of the charge that earned it and no other (main.py:1338-1341),
\* from whoever got it.
RewardedOnce ==
  /\ left = {} =>
       \A c, d \in Recorded \ refunded :
         rewarded[c] # None /\ rewarded[d] # None /\ Payer(c) = Payer(d) => c = d
  /\ \A c \in Charges, u \in Users :
       reversed[c][u] > 0 => reversed[c][u] = 1 /\ (rewarded[c] = u \/ left # {})

\* No payment is marked refunded whose Stars were not returned (bot/main.py:1268).
RefundedIsReturned == refunded \subseteq returned

\* The periods that were paid for user u, or earned by whom u has invited.
Bought(u) ==
  LET paid == {c \in Recorded \ refunded : owner[c] = u}
      earned == {c \in Charges : rewarded[c] = u /\ reversed[c][u] = 0}
  IN  Term * Cardinality(paid) + Reward * Cardinality(earned)

\* Nobody has more days left than were paid for and earned, refunds deducted, as
\* long as no row has changed between the SELECT and the end of a transaction.
DaysAreBought ==
  \A u \in Users :
    (users[u] # None /\ u \notin stale /\ users[u].until # None) =>
      users[u].until <= Bought(u)

\* Under the same condition nobody who has days left is on the free tier, and nobody
\* is on the paid tier without an end.
TierFollowsDays ==
  \A u \in Users :
    (users[u] # None /\ u \notin stale) =>
      /\ users[u].until \notin {None, 0} => users[u].tier = "paid"
      /\ users[u].tier = "paid" => users[u].until # None
=============================================================================
