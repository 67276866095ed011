---------------------------- MODULE PaymentsProofs ----------------------------
(***************************************************************************)
(* Proofs about Payments, for any users, charges and administrators,       *)
(* whatever raises, crashes or runs at once.                               *)
(***************************************************************************)
EXTENDS Payments, FiniteSetTheorems, TLAPS

\* A refund that is past the call of Telegram; one that has chosen its payment.
Returning == {"find", "inviter", "commit"}
Chosen == Returning \cup {"call"}

\* A payment that is under way, or recorded, has an invoice; who owns it has paid it.
Invoiced ==
  \A c \in Charges :
    /\ update[c] # "none" => invoice[c] # None
    /\ c \in Rows => update[c] # "none"
    /\ owner[c] # None => c \in Rows /\ owner[c] = Payer(c)

\* The way of a payment's handler, and what it has read by when.
PaymentAt(c) ==
  /\ pc[c] \in {"idle", "insert", "user", "referral", "inviter", "commit"}
  /\ pc[c] # "idle" => update[c] = "taken"
  /\ pc[c] \in {"insert", "user"} => view[c] = Unread
  /\ pc[c] \in {"referral", "inviter"} => invoice[c].discount
  /\ pc[c] \in {"referral", "inviter", "commit"} => view[c][Payer(c)] # None
  /\ pc[c] = "inviter" => link[c] # None
  /\ link[c] # None =>
       pc[c] \in {"inviter", "commit"} /\ link[c] # Payer(c) /\ invoice[c].discount
  /\ \A u \in Users :
       view[c][u] # None => u = Payer(c) \/ (pc[c] = "commit" /\ u = link[c])
  /\ pc[c] = "commit" /\ link[c] # None => ref[Payer(c)] # None

\* The same for a refund.  It is about a recorded payment once it has chosen one, which
\* is returned and not yet refunded once it is past the call.
RefundAt(a) ==
  /\ pc[a] \in {"idle", "pick"} \cup Chosen
  /\ pc[a] = "pick" =>
       /\ hand[a] \in Users /\ view[a][hand[a]] # None
       /\ \A u \in Users : view[a][u] # None => u = hand[a]
  /\ pc[a] \in Chosen =>
       /\ hand[a] \in Recorded /\ view[a][Payer(hand[a])] # None
       /\ \A u \in Users : view[a][u] # None =>
            u = Payer(hand[a]) \/ (pc[a] = "commit" /\ u = link[a])
  /\ pc[a] = "inviter" => link[a] # None
  /\ link[a] # None => pc[a] \in {"inviter", "commit"} /\ link[a] # Payer(hand[a])
  /\ pc[a] \in Returning => hand[a] \in returned \ refunded
  /\ pc[a] \in {"inviter", "commit"} /\ Payer(hand[a]) \in Writes(a) =>
       users[Payer(hand[a])] # None

\* Telegram returns a charge once: no two refunds are past its call.
Apart ==
  \A a, b \in Admins :
    pc[a] \in Returning /\ pc[b] \in Returning /\ hand[a] = hand[b] => a = b

\* Nobody invites himself, and a referral is claimed by a recorded payment of its guest.
RefsSound ==
  \A u \in Users : ref[u] # None =>
    /\ ref[u].inviter # u
    /\ ref[u].charge # None => ref[u].charge \in Recorded /\ Payer(ref[u].charge) = u

\* What is counted for a charge that is not recorded, or not refunded.
CountsSound ==
  \A c \in Charges :
    /\ c \notin Recorded => rewarded[c] = None
    /\ \A u \in Users :
         /\ reversed[c][u] <= 1
         /\ c \notin refunded => reversed[c][u] = 0

\* A refund marks what is recorded and returned; only deletions take users away.
TablesSound ==
  /\ refunded \subseteq Recorded /\ refunded \subseteq returned
  /\ \A u \in Users : users[u] = None => u \in left

\* The inductive invariant on which the theorems rest.
PayInv ==
  /\ TypeOK /\ Invoiced /\ Apart /\ RefsSound /\ CountsSound /\ TablesSound
  /\ \A c \in Charges : PaymentAt(c)
  /\ \A a \in Admins : RefundAt(a)

-----------------------------------------------------------------------------
(* The registers of the handlers *)

\* A handler is of a payment or of a refund, not of both.
LEMMA JobsApart ==
  /\ \A c \in Charges : c \in Jobs /\ c \notin Admins
  /\ \A a \in Admins : a \in Jobs /\ a \notin Charges
  /\ \A j \in Jobs : j \in Charges \/ j \in Admins
  BY PaymentConstants DEF Jobs

\* No other handler moves.
OnlyMoves(j) ==
  /\ \A k \in Jobs \ {j} : pc'[k] = pc[k] /\ view'[k] = view[k] /\ link'[k] = link[k]
  /\ \A a \in Admins \ {j} : hand'[a] = hand[a]

\* Unread is a view, and a row that is read makes one.
LEMMA ViewsTyped ==
  ASSUME JobsTyped, TablesTyped, NEW j \in Jobs, NEW u \in Users, Read(j, u)
  PROVE  /\ view' \in [Jobs -> [Users -> UserRows \cup {None}]]
         /\ view'[j] = [view[j] EXCEPT ![u] = users[u]]
         /\ \A k \in Jobs \ {j} : view'[k] = view[k]
  BY DEF JobsTyped, TablesTyped, Read

\* A handler that ends forgets, and no other one does.
LEMMA EndForgets ==
  ASSUME JobsTyped, NEW j \in Jobs, End(j)
  PROVE  /\ pc' = [pc EXCEPT ![j] = "idle"] /\ view' = [view EXCEPT ![j] = Unread]
         /\ link' = [link EXCEPT ![j] = None]
         /\ hand' \in [Admins -> Users \cup Charges \cup {None}]
         /\ view' \in [Jobs -> [Users -> UserRows \cup {None}]]
         /\ pc'[j] = "idle" /\ view'[j] = Unread /\ link'[j] = None
         /\ OnlyMoves(j)
  BY DEF JobsTyped, End, Goto, OnlyMoves, Unread

\* So its registers keep their types.
LEMMA EndTyped ==
  ASSUME JobsTyped, NEW j \in Jobs, End(j), UNCHANGED reaperVars
  PROVE  JobsTyped'
  BY EndForgets DEF JobsTyped, reaperVars

\* Nobody who goes on to another place loses what he knows.
LEMMA GotoTyped ==
  ASSUME JobsTyped, NEW j \in Jobs,
         NEW where \in {"idle", "insert", "user", "referral", "pick", "call", "find",
                        "inviter", "commit"},
         Goto(j, where)
  PROVE  /\ pc' \in [Jobs -> {"idle", "insert", "user", "referral", "pick", "call",
                              "find", "inviter", "commit"}]
         /\ pc'[j] = where /\ \A k \in Jobs \ {j} : pc'[k] = pc[k]
  BY DEF JobsTyped, Goto

\* The payer of a charge that Telegram knows of is a user.
LEMMA PayerTyped ==
  ASSUME PayInv, NEW c \in Charges, update[c] # "none"
  PROVE  /\ invoice[c] \in Invoices /\ Payer(c) \in Users
         /\ invoice[c].discount \in BOOLEAN
  BY DEF PayInv, TypeOK, TablesTyped, Invoiced, Invoices, Payer

\* So is the payer of a charge whose handler runs, and of one in the table.
LEMMA BusyPayer ==
  ASSUME PayInv, NEW c \in Charges, pc[c] # "idle" \/ c \in Rows
  PROVE  /\ update[c] # "none" /\ Payer(c) \in Users /\ invoice[c] \in Invoices
         /\ invoice[c].discount \in BOOLEAN
<1>1. update[c] # "none"
  BY DEF PayInv, PaymentAt, Invoiced
<1> QED BY <1>1, PayerTyped

\* And that of a refund's payment.
LEMMA ChosenPayer ==
  ASSUME PayInv, NEW a \in Admins, pc[a] \in Chosen
  PROVE  /\ hand[a] \in Charges /\ hand[a] \in Rows /\ ~Open(hand[a])
         /\ Payer(hand[a]) \in Users
<1>1. hand[a] \in Charges /\ hand[a] \in Rows /\ ~Open(hand[a])
  BY DEF PayInv, RefundAt, Recorded, Rows
<1> QED BY <1>1, BusyPayer

\* A referral that exists names an inviter, and a charge or none.
LEMMA ReferralTyped ==
  ASSUME PayInv, NEW u \in Users, ref[u] # None
  PROVE  /\ ref[u] \in Referrals /\ ref[u].inviter \in Users
         /\ ref[u].charge \in Charges \cup {None}
  BY DEF PayInv, TypeOK, TablesTyped, Referrals

\* The registers keep their types: the steps of a payment.
LEMMA PayRegisters ==
  ASSUME PayInv, NEW c \in Charges, Pay(c)
  PROVE  JobsTyped'
<1>0. JobsTyped /\ TablesTyped /\ c \in Jobs
  BY JobsApart DEF PayInv, TypeOK
<1>1. CASE Deliver(c)
  BY <1>0, <1>1, GotoTyped DEF Deliver, reaperVars, JobsTyped
<1>2. CASE Insert(c)
  BY <1>0, <1>2, GotoTyped, EndTyped DEF Insert, reaperVars, JobsTyped
<1>3. CASE ReadPayer(c)
  <2>1. Payer(c) \in Users
    BY <1>3, BusyPayer DEF ReadPayer
  <2>2. view' \in [Jobs -> [Users -> UserRows \cup {None}]]
    BY <1>0, <1>3, <2>1, ViewsTyped DEF ReadPayer
  <2> QED BY <1>0, <1>3, <2>2, GotoTyped DEF ReadPayer, reaperVars, JobsTyped
<1>4. CASE ReadReferral(c)
  <2>1. Payer(c) \in Users
    BY <1>4, BusyPayer DEF ReadReferral
  <2>2. Unclaimed(Payer(c)) => ref[Payer(c)].inviter \in Users
    BY <2>1, ReferralTyped DEF Unclaimed
  <2>3. link' \in [Jobs -> Users \cup {None}]
    BY <1>0, <1>4, <2>2 DEF ReadReferral, JobsTyped
  <2> QED BY <1>0, <1>4, <2>3, GotoTyped DEF ReadReferral, reaperVars, JobsTyped
<1>5. CASE CommitPayment(c)
  BY <1>0, <1>5, EndTyped DEF CommitPayment
<1>6. CASE PaymentFails(c)
  BY <1>0, <1>6, EndTyped DEF PaymentFails
<1> QED BY <1>1, <1>2, <1>3, <1>4, <1>5, <1>6 DEF Pay

\* The SELECT of the inviter.
LEMMA InviterRegisters ==
  ASSUME PayInv, NEW j \in Jobs, ReadInviter(j)
  PROVE  JobsTyped'
<1>0. JobsTyped /\ TablesTyped
  BY DEF PayInv, TypeOK
<1>1. link[j] \in Users
  BY <1>0, JobsApart DEF ReadInviter, PayInv, PaymentAt, RefundAt, JobsTyped
<1>2. view' \in [Jobs -> [Users -> UserRows \cup {None}]]
  BY <1>0, <1>1, ViewsTyped DEF ReadInviter
<1> QED BY <1>0, <1>2, GotoTyped DEF ReadInviter, reaperVars, JobsTyped

\* The steps of a refund.
LEMMA RefundRegisters ==
  ASSUME PayInv, NEW a \in Admins, Refund(a)
  PROVE  JobsTyped'
<1>0. JobsTyped /\ TablesTyped /\ a \in Jobs
  BY JobsApart DEF PayInv, TypeOK
<1>1. ASSUME NEW u \in Users, StartRefund(a, u)
      PROVE  JobsTyped'
  <2>1. view' \in [Jobs -> [Users -> UserRows \cup {None}]]
    BY <1>0, <1>1, ViewsTyped DEF StartRefund
  <2> QED BY <1>0, <1>1, <2>1, GotoTyped DEF StartRefund, reaperVars, JobsTyped
<1>2. CASE PickPayment(a)
  <2>1. Refundable(hand[a]) \subseteq Charges
    BY DEF Refundable, Recorded, Rows
  <2> QED BY <1>0, <1>2, <2>1, GotoTyped, EndTyped DEF PickPayment, reaperVars, JobsTyped
<1>3. CASE CallTelegram(a)
  BY <1>0, <1>3, GotoTyped, EndTyped DEF CallTelegram, reaperVars, JobsTyped
<1>4. CASE FindReferral(a)
  <2>1. \A u \in ClaimedBy(hand[a]) : ref[u].inviter \in Users
    BY ReferralTyped DEF ClaimedBy
  <2>2. link' \in [Jobs -> Users \cup {None}]
    BY <1>0, <1>4, <2>1 DEF FindReferral, JobsTyped
  <2> QED BY <1>0, <1>4, <2>2, GotoTyped DEF FindReferral, reaperVars, JobsTyped
<1>5. CASE CommitRefund(a)
  BY <1>0, <1>5, EndTyped DEF CommitRefund
<1>6. CASE RefundFails(a)
  BY <1>0, <1>6, EndTyped DEF RefundFails
<1> QED BY <1>1, <1>2, <1>3, <1>4, <1>5, <1>6 DEF Refund

\* What users, Telegram, time, the reaper and the process do.
Outside ==
  \/ \E u \in Users : StartBot(u) \/ DeleteMe(u) \/ \E by \in Users : Refer(u, by)
  \/ \E c \in Charges, u \in Users, discount \in BOOLEAN : PreCheckout(c, u, discount)
  \/ ReaperReads \/ ReaperWrites \/ ReaperFails \/ Tick

\* Nothing of it moves a handler.
LEMMA OutsideMoves ==
  ASSUME Outside
  PROVE  UNCHANGED jobVars
  BY DEF Outside, StartBot, DeleteMe, Refer, PreCheckout, ReaperReads, ReaperWrites,
         ReaperFails, Tick

\* It leaves the registers typed; a crash empties them.
LEMMA OutsideRegisters ==
  ASSUME PayInv, Outside \/ Crash
  PROVE  JobsTyped'
<1>0. JobsTyped
  BY DEF PayInv, TypeOK
<1>1. CASE Outside
  <2>1. UNCHANGED jobVars
    BY <1>1, OutsideMoves
  <2>2. UNCHANGED reaperVars \/ (reaper' \in {"idle", "write", "dead"} /\ expired' \subseteq Users)
    BY <1>1 DEF Outside, StartBot, DeleteMe, Refer, PreCheckout, ReaperReads,
                ReaperWrites, ReaperFails, Tick
  <2> QED BY <1>0, <2>1, <2>2 DEF jobVars, reaperVars, JobsTyped
<1>2. CASE Crash
  BY <1>2 DEF Crash, JobsTyped, Unread
<1> QED BY <1>1, <1>2

-----------------------------------------------------------------------------
(* The table of payments *)

\* A set of payments is not None, so an INSERT adds a row and no other one.
LEMMA WithRows ==
  ASSUME TablesTyped, NEW c \in Charges, ledger' = With(c)
  PROVE  /\ ledger' \in [Charges -> (SUBSET Charges) \cup {None}]
         /\ Rows' = Rows \cup {c}
<1>1. Rows \in SUBSET Charges /\ Rows # None
  BY PaymentConstants DEF Rows
<1>2. ledger' = [ledger EXCEPT ![c] = Rows] /\ DOMAIN ledger = Charges
  BY DEF TablesTyped, With
<1>3. ledger'[c] = Rows /\ \A d \in Charges \ {c} : ledger'[d] = ledger[d]
  BY <1>2
<1>4. ledger' \in [Charges -> (SUBSET Charges) \cup {None}]
  BY <1>1, <1>2 DEF TablesTyped
<1>5. Rows' = Rows \cup {c}
  <2>1. Rows' = {d \in Charges : ledger'[d] # None}
    BY DEF Rows
  <2>2. Rows = {d \in Charges : ledger[d] # None}
    BY DEF Rows
  <2> HIDE DEF Rows
  <2> QED BY <1>1, <1>3, <2>1, <2>2
<1> QED BY <1>4, <1>5

\* A rollback takes away the rows it is about.
LEMMA WithoutRows ==
  ASSUME TablesTyped, NEW cs \in SUBSET Charges, ledger' = Without(cs)
  PROVE  /\ ledger' \in [Charges -> (SUBSET Charges) \cup {None}]
         /\ Rows' = Rows \ cs
<1>1. \A d \in Charges :
        ledger'[d] = IF d \in Rows \ cs THEN ledger[d] \ cs ELSE None
  BY DEF Without
<1>2. \A d \in Rows : ledger[d] \in SUBSET Charges
  BY DEF Rows, TablesTyped
<1>3. \A d \in Rows \ cs : ledger[d] \ cs \in SUBSET Charges /\ ledger[d] \ cs # None
  <2> TAKE d \in Rows \ cs
  <2>1. ledger[d] \ cs \in SUBSET Charges
    BY <1>2
  <2> QED BY <2>1, PaymentConstants
<1>4. ledger' \in [Charges -> (SUBSET Charges) \cup {None}]
  <2>1. ledger' = [d \in Charges |-> IF d \in Rows \ cs THEN ledger[d] \ cs ELSE None]
    BY DEF Without
  <2> QED BY <1>3, <2>1
<1>5. Rows' = Rows \ cs
  <2>1. Rows' = {d \in Charges : ledger'[d] # None}
    BY DEF Rows
  <2>2. Rows \subseteq Charges
    BY DEF Rows
  <2> QED BY <1>1, <1>3, <2>1, <2>2
<1> QED BY <1>4, <1>5

\* What others see is what was inserted by transactions that are over.
LEMMA RecordedStays ==
  ASSUME NEW js \in SUBSET Jobs, Rows' = Rows,
         \A k \in Jobs \ js : pc'[k] = pc[k],
         \A c \in Charges \cap js : Open(c)' <=> Open(c)
  PROVE  Recorded' = Recorded
<1>1. \A c \in Charges : Open(c)' <=> Open(c)
  BY JobsApart DEF Open
<1>2. Recorded' = {c \in Rows' : ~(Open(c)')}
  BY DEF Recorded
<1>3. Rows \subseteq Charges
  BY DEF Rows
<1> QED BY <1>1, <1>2, <1>3 DEF Recorded

\* The rows are those that are recorded and those of open payments.
LEMMA RowsSplit ==
  ASSUME TypeOK
  PROVE  /\ Recorded \subseteq Charges
         /\ \A c \in Charges : c \in Recorded <=> c \in Rows /\ ~Open(c)
         /\ \A c \in Charges : Open(c) => c \in Rows
  BY DEF TypeOK, Recorded, Rows

\* An INSERT shows nothing to others.
LEMMA InsertRows ==
  ASSUME PayInv, NEW c \in Charges, Insert(c)
  PROVE  /\ ledger' \in [Charges -> (SUBSET Charges) \cup {None}]
         /\ Recorded' = Recorded /\ Rows' \in {Rows, Rows \cup {c}}
         /\ \A d \in Charges : Open(d)' => d \in Rows' /\ (d = c \/ Open(d))
         /\ (Open(c)') => users[Payer(c)] # None
<1>0. TypeOK /\ TablesTyped /\ JobsTyped /\ c \in Jobs
  BY JobsApart DEF PayInv, TypeOK
<1>1. CASE Known(c) \/ users[Payer(c)] = None
  <2>1. ledger' = ledger /\ End(c)
    BY <1>1 DEF Insert
  <2>2. Rows' = Rows
    BY <2>1 DEF Rows
  <2>3. /\ \A k \in Jobs \ {c} : pc'[k] = pc[k]
        /\ pc'[c] = "idle" /\ pc[c] = "insert"
    BY <1>0, <2>1, EndForgets DEF Insert, OnlyMoves
  <2>4. Recorded' = Recorded
    BY <1>0, <2>2, <2>3, RecordedStays DEF Open
  <2>5. \A d \in Charges : Open(d)' <=> Open(d)
    BY <2>3, JobsApart DEF Open
  <2> QED BY <1>0, <2>1, <2>2, <2>3, <2>4, <2>5, RowsSplit DEF TablesTyped, Open
<1>2. CASE ~(Known(c) \/ users[Payer(c)] = None)
  <2>1. ledger' = With(c) /\ Goto(c, "user") /\ c \notin Rows /\ users[Payer(c)] # None
    BY <1>2 DEF Insert, Known
  <2>2. /\ \A k \in Jobs \ {c} : pc'[k] = pc[k]
        /\ pc'[c] = "user"
    BY <1>0, <2>1, GotoTyped
  <2>3. \A d \in Charges : Open(d)' <=> (d = c \/ Open(d))
    BY <2>2, JobsApart DEF Open
  <2>4. Rows' = Rows \cup {c} /\ ledger' \in [Charges -> (SUBSET Charges) \cup {None}]
    BY <1>0, <2>1, WithRows
  <2>5. Recorded' = {d \in Rows' : ~(Open(d)')}
    BY DEF Recorded
  <2>6. Rows \subseteq Charges
    BY DEF Rows
  <2>7. Recorded' = Recorded
    BY <2>1, <2>3, <2>4, <2>5, <2>6 DEF Recorded
  <2> QED BY <1>0, <2>1, <2>3, <2>4, <2>7, RowsSplit
<1> QED BY <1>1, <1>2

\* A COMMIT shows the payment.
LEMMA CommitRows ==
  ASSUME PayInv, NEW c \in Charges, CommitPayment(c)
  PROVE  /\ Rows' = Rows /\ Recorded' = Recorded \cup {c}
         /\ c \in Rows /\ c \notin Recorded
         /\ \A d \in Charges : Open(d)' <=> (d # c /\ Open(d))
<1>0. TypeOK /\ JobsTyped /\ c \in Jobs
  BY JobsApart DEF PayInv, TypeOK
<1>1. Rows' = Rows
  BY DEF CommitPayment, Rows
<1>2. /\ \A k \in Jobs \ {c} : pc'[k] = pc[k]
      /\ pc'[c] = "idle" /\ pc[c] = "commit"
  BY <1>0, EndForgets DEF CommitPayment, OnlyMoves
<1>3. \A d \in Charges : Open(d)' <=> (d # c /\ Open(d))
  BY <1>2, JobsApart DEF Open
<1>4. Open(c) /\ c \in Rows
  BY <1>0, <1>2, RowsSplit DEF Open
<1>5. Recorded' = {d \in Rows' : ~(Open(d)')}
  BY DEF Recorded
<1>6. Rows \subseteq Charges
  BY DEF Rows
<1> QED BY <1>1, <1>3, <1>4, <1>5, <1>6 DEF Recorded

\* A failure and a crash take away what nobody has seen.
LEMMA FailRows ==
  ASSUME PayInv, NEW c \in Charges, PaymentFails(c)
  PROVE  /\ ledger' \in [Charges -> (SUBSET Charges) \cup {None}]
         /\ Recorded' = Recorded /\ Rows' = IF Open(c) THEN Rows \ {c} ELSE Rows
         /\ \A d \in Charges : Open(d)' <=> (d # c /\ Open(d))
<1>0. TypeOK /\ TablesTyped /\ JobsTyped /\ c \in Jobs
  BY JobsApart DEF PayInv, TypeOK
<1>1. /\ \A k \in Jobs \ {c} : pc'[k] = pc[k]
      /\ pc'[c] = "idle"
  BY <1>0, EndForgets DEF PaymentFails, OnlyMoves
<1>2. \A d \in Charges : Open(d)' <=> (d # c /\ Open(d))
  BY <1>1, JobsApart DEF Open
<1>3. CASE Open(c)
  <2>1. ledger' = Without({c}) /\ {c} \in SUBSET Charges
    BY <1>3 DEF PaymentFails
  <2>2. Rows' = Rows \ {c} /\ ledger' \in [Charges -> (SUBSET Charges) \cup {None}]
    BY <1>0, <2>1, WithoutRows
  <2>3. Recorded' = {d \in Rows' : ~(Open(d)')}
    BY DEF Recorded
  <2>4. Rows \subseteq Charges
    BY DEF Rows
  <2> QED BY <1>2, <1>3, <2>2, <2>3, <2>4 DEF Recorded
<1>4. CASE ~Open(c)
  <2>1. ledger' = ledger
    BY <1>4 DEF PaymentFails
  <2>2. Rows' = Rows
    BY <2>1 DEF Rows
  <2>3. Recorded' = Recorded
    BY <1>0, <1>1, <1>2, <1>4, <2>2, RecordedStays
  <2> QED BY <1>0, <1>2, <1>4, <2>1, <2>2, <2>3 DEF TablesTyped
<1> QED BY <1>3, <1>4

\* The same for all handlers at once.
LEMMA CrashRows ==
  ASSUME PayInv, Crash
  PROVE  /\ ledger' \in [Charges -> (SUBSET Charges) \cup {None}]
         /\ Recorded' = Recorded /\ Rows' = Recorded
         /\ \A d \in Charges : ~(Open(d)')
<1>0. TypeOK /\ TablesTyped
  BY DEF PayInv, TypeOK
<1> DEFINE lost == {d \in Charges : Open(d)}
<1>1. ledger' = Without(lost) /\ lost \in SUBSET Charges
  BY DEF Crash
<1>2. Rows' = Rows \ lost /\ ledger' \in [Charges -> (SUBSET Charges) \cup {None}]
  BY <1>0, <1>1, WithoutRows
<1>3. \A d \in Charges : ~(Open(d)')
  BY JobsApart DEF Crash, Open
<1>4. Recorded' = {d \in Rows' : ~(Open(d)')}
  BY DEF Recorded
<1>5. Rows \subseteq Charges
  BY DEF Rows
<1> QED BY <1>2, <1>3, <1>4, <1>5 DEF Recorded

\* No other step shows or hides a payment.
LEMMA OtherRows ==
  ASSUME PayInv, NEW j \in Jobs,
         \/ Outside \/ ReadInviter(j)
         \/ j \in Charges /\ (Deliver(j) \/ ReadPayer(j) \/ ReadReferral(j))
         \/ j \in Admins /\ Refund(j)
  PROVE  /\ ledger' = ledger /\ Rows' = Rows /\ Recorded' = Recorded
         /\ \A d \in Charges : Open(d)' <=> Open(d)
         /\ \A k \in Jobs \ {j} : pc'[k] = pc[k]
<1>0. JobsTyped
  BY DEF PayInv, TypeOK
<1>1. ledger' = ledger
  BY DEF Outside, StartBot, DeleteMe, Refer, PreCheckout, ReaperReads, ReaperWrites,
         ReaperFails, Tick, ReadInviter, Deliver, ReadPayer, ReadReferral, Refund,
         StartRefund, PickPayment, CallTelegram, FindReferral, CommitRefund, RefundFails,
         tableVars
<1>2. Rows' = Rows
  BY <1>1 DEF Rows
<1>3. CASE Outside
  <2>1. pc' = pc
    BY <1>3, OutsideMoves DEF jobVars
  <2>2. \A d \in Charges : Open(d)' <=> Open(d)
    BY <2>1 DEF Open
  <2> QED BY <1>1, <1>2, <2>1, <2>2, RecordedStays
<1>4. CASE ReadInviter(j)
  <2>1. /\ \A k \in Jobs \ {j} : pc'[k] = pc[k]
        /\ pc[j] = "inviter" /\ pc'[j] = "commit"
    BY <1>0, <1>4, GotoTyped DEF ReadInviter
  <2>2. \A d \in Charges : Open(d)' <=> Open(d)
    BY <2>1, JobsApart DEF Open
  <2> QED BY <1>1, <1>2, <2>1, <2>2, RecordedStays
<1>5. CASE j \in Charges /\ (Deliver(j) \/ ReadPayer(j) \/ ReadReferral(j))
  <2>1. /\ \A k \in Jobs \ {j} : pc'[k] = pc[k]
        /\ \/ pc[j] = "idle" /\ pc'[j] = "insert"
           \/ /\ pc[j] \in {"user", "referral"}
              /\ pc'[j] \in {"referral", "inviter", "commit"}
    <3>1. CASE Deliver(j)
      BY <1>0, <1>5, <3>1, GotoTyped DEF Deliver, PayInv, PaymentAt
    <3>2. CASE ReadPayer(j) \/ ReadReferral(j)
      BY <1>0, <1>5, <3>2, GotoTyped DEF ReadPayer, ReadReferral
    <3> QED BY <1>5, <3>1, <3>2
  <2>2. \A d \in Charges : Open(d)' <=> Open(d)
    BY <2>1, JobsApart DEF Open
  <2> QED BY <1>1, <1>2, <2>1, <2>2, RecordedStays
<1>6. CASE j \in Admins /\ Refund(j)
  <2>1. \A k \in Jobs \ {j} : pc'[k] = pc[k]
    <3>1. End(j) \/ \E where \in {"pick", "call", "find", "inviter", "commit"} : Goto(j, where)
      BY <1>6 DEF Refund, StartRefund, PickPayment, CallTelegram, FindReferral,
                  CommitRefund, RefundFails
    <3> QED BY <1>0, <3>1, EndForgets DEF Goto, OnlyMoves, JobsTyped
  <2>2. \A d \in Charges : Open(d)' <=> Open(d)
    BY <1>6, <2>1, JobsApart DEF Open
  <2> QED BY <1>1, <1>2, <2>1, <2>2, RecordedStays
<1> QED BY <1>3, <1>4, <1>5, <1>6

-----------------------------------------------------------------------------
(* The rows of users *)

\* A handler makes rows of rows.
LEMMA NewRowsTyped ==
  ASSUME PayInv, NEW j \in Jobs, NEW u \in Users, view[j][u] # None
  PROVE  view[j][u] \in UserRows /\ NewRows(j)[u] \in UserRows
<1>1. view[j][u] \in UserRows
  BY DEF PayInv, TypeOK, JobsTyped
<1>2. /\ view[j][u].tier \in {"free", "paid"} /\ view[j][u].until \in Nat \cup {None}
      /\ view[j][u] = [tier |-> view[j][u].tier, until |-> view[j][u].until]
  BY <1>1 DEF UserRows
<1>3. \A n \in Nat : Extended(view[j][u], n) \in UserRows
  BY <1>2 DEF Extended, UserRows
<1>4. Free \in UserRows
  BY DEF Free, UserRows
<1>5. LessReward(view[j][u]) \in UserRows
  BY <1>1, <1>2, <1>4, PaymentConstants DEF LessReward, UserRows
<1>6. CASE j \in Charges
  BY <1>1, <1>3, <1>6, PaymentConstants DEF NewRows, PaidRows
<1>7. CASE j \notin Charges
  BY <1>1, <1>4, <1>5, <1>7 DEF NewRows, RefundedRows, Stripped
<1> QED BY <1>1, <1>6, <1>7

\* A COMMIT finds the rows it updates.
LEMMA WrittenExist ==
  ASSUME PayInv, NEW j \in Jobs, pc[j] = "commit", ~Misses(j), NEW u \in Writes(j)
  PROVE  users[u] # None
<1>1. CASE u \in Wants(j)
  BY <1>1 DEF Misses
<1>2. CASE u \notin Wants(j)
  <2>1. u \in Holds(j)
    BY <1>2 DEF Wants
  <2>2. u = Subject(j)
    BY <2>1 DEF Holds
  <2>3. CASE j \in Charges
    BY <2>2, <2>3 DEF Subject, PayInv, TypeOK, Open
  <2>4. CASE j \in Admins
    BY <2>2, <2>4, JobsApart DEF Subject, PayInv, RefundAt
  <2> QED BY <2>3, <2>4, JobsApart
<1> QED BY <1>1, <1>2

\* So it leaves rows where there were rows.
LEMMA WriteTyped ==
  ASSUME PayInv, NEW j \in Jobs, pc[j] = "commit", ~Misses(j), WriteUsers(j)
  PROVE  /\ users' \in [Users -> UserRows \cup {None}]
         /\ \A u \in Users : users'[u] = None <=> users[u] = None
         /\ stale \subseteq stale' /\ stale' \subseteq Users
<1>1. \A u \in Users : users[u] \in UserRows \cup {None}
  BY DEF PayInv, TypeOK, TablesTyped
<1>2. \A u \in Writes(j) : /\ users[u] \in UserRows /\ view[j][u] \in UserRows
                           /\ NewRows(j)[u] \in UserRows
  BY <1>1, WrittenExist, NewRowsTyped DEF Writes
<1>3. \A r, s, n \in UserRows : Updated(r, s, n) \in UserRows
  BY DEF Updated, UserRows
<1>4. users' = [u \in Users |->
        IF u \in Writes(j) THEN Updated(users[u], view[j][u], NewRows(j)[u])
        ELSE users[u]]
  BY DEF WriteUsers
<1>5. stale' = stale \cup {u \in Users : view[j][u] \notin {None, users[u]}}
  BY DEF WriteUsers
<1>6. stale \subseteq Users
  BY DEF PayInv, TypeOK, HistoryTyped
<1> HIDE DEF Writes
<1> QED BY <1>1, <1>2, <1>3, <1>4, <1>5, <1>6, NoneIsNoRow

\* The claim of a referral that exists is set and reset.
LEMMA ClaimTyped ==
  ASSUME PayInv, NEW u \in Users, NEW c \in Charges \cup {None}, ref[u] # None,
         ref' = [ref EXCEPT ![u].charge = c]
  PROVE  /\ ref' \in [Users -> Referrals \cup {None}]
         /\ ref'[u] # None /\ ref'[u].inviter = ref[u].inviter /\ ref'[u].charge = c
         /\ \A i \in Users \ {u} : ref'[i] = ref[i]
<1>1. ref \in [Users -> Referrals \cup {None}] /\ ref[u] \in Referrals
  BY ReferralTyped DEF PayInv, TypeOK, TablesTyped
<1>2. ref' = [ref EXCEPT ![u] = [ref[u] EXCEPT !.charge = c]]
  OBVIOUS
<1>3. [ref[u] EXCEPT !.charge = c] = [inviter |-> ref[u].inviter, charge |-> c]
  BY <1>1 DEF Referrals
<1>4. [inviter |-> ref[u].inviter, charge |-> c] \in Referrals
  BY <1>1 DEF Referrals
<1>5. ref'[u] = [inviter |-> ref[u].inviter, charge |-> c]
  BY <1>1, <1>2, <1>3
<1>6. ref'[u] # None
  BY <1>4, <1>5, NoneIsNoRow
<1> QED BY <1>1, <1>2, <1>3, <1>4, <1>5, <1>6

\* What Refer and PreCheckout insert are referrals and invoices.
LEMMA NewTyped ==
  /\ \A u, v \in Users : [inviter |-> u, charge |-> None] \in Referrals
  /\ \A u \in Users, b \in BOOLEAN : [payer |-> u, discount |-> b] \in Invoices
  BY DEF Referrals, Invoices

\* The tables keep their types when the users, Telegram, time or the reaper act.
LEMMA OutsideTables ==
  ASSUME PayInv, Outside
  PROVE  TablesTyped'
<1>0. TablesTyped
  BY DEF PayInv, TypeOK
<1>1. ledger' = ledger /\ refunded' = refunded /\ returned' = returned
  BY DEF Outside, StartBot, DeleteMe, Refer, PreCheckout, ReaperReads, ReaperWrites,
         ReaperFails, Tick, tableVars, telegramVars
<1>2. refunded' \subseteq Rows' /\ returned' \subseteq Charges
      /\ ledger' \in [Charges -> (SUBSET Charges) \cup {None}]
  BY <1>0, <1>1 DEF TablesTyped, Rows
<1>3. owner' \in [Charges -> Users \cup {None}]
  BY <1>0 DEF TablesTyped, Outside, StartBot, DeleteMe, Refer, PreCheckout, ReaperReads,
     ReaperWrites, ReaperFails, Tick, tableVars
<1>4. /\ invoice' \in [Charges -> Invoices \cup {None}]
      /\ update' \in [Charges -> {"none", "due", "taken"}]
  BY <1>0, NewTyped DEF TablesTyped, Outside, StartBot, DeleteMe, Refer, PreCheckout, ReaperReads,
     ReaperWrites, ReaperFails, Tick, telegramVars
<1>5. ref' \in [Users -> Referrals \cup {None}]
  BY <1>0, NewTyped DEF TablesTyped, Outside, StartBot, DeleteMe, Refer, PreCheckout,
     ReaperReads, ReaperWrites, ReaperFails, Tick, tableVars
<1>6. users' \in [Users -> UserRows \cup {None}]
  <2>1. CASE Tick
    <3>1. \A u \in Users : users[u] # None /\ users[u].until \notin {None, 0} =>
            [users[u] EXCEPT !.until = @ - 1] \in UserRows
      <4> SUFFICES ASSUME NEW u \in Users, users[u] # None, users[u].until \notin {None, 0}
                   PROVE  [users[u] EXCEPT !.until = @ - 1] \in UserRows
        OBVIOUS
      <4>1. users[u] \in UserRows
        BY <1>0 DEF TablesTyped
      <4>2. users[u].until - 1 \in Nat
        BY <4>1 DEF UserRows
      <4> QED BY <4>1, <4>2 DEF UserRows
    <3>2. users' = [u \in Users |->
            IF users[u] = None \/ users[u].until \in {None, 0} THEN users[u]
            ELSE [users[u] EXCEPT !.until = @ - 1]]
      BY <2>1 DEF Tick
    <3> QED BY <1>0, <3>1, <3>2 DEF TablesTyped
  <2>2. CASE ReaperWrites
    <3>1. \A u \in Users : users[u] # None => [users[u] EXCEPT !.tier = "free"] \in UserRows
      BY <1>0 DEF TablesTyped, UserRows
    <3>2. users' = [u \in Users |->
            IF u \in expired /\ users[u] # None THEN [users[u] EXCEPT !.tier = "free"]
            ELSE users[u]]
      BY <2>2 DEF ReaperWrites
    <3> QED BY <1>0, <3>1, <3>2 DEF TablesTyped
  <2>3. CASE \E u \in Users : StartBot(u)
    <3>1. Free \in UserRows
      BY DEF Free, UserRows
    <3> QED BY <1>0, <2>3, <3>1 DEF TablesTyped, StartBot
  <2>4. CASE \E u \in Users : DeleteMe(u)
    BY <1>0, <2>4 DEF TablesTyped, DeleteMe
  <2>5. ASSUME ~Tick, ~ReaperWrites, ~\E u \in Users : StartBot(u),
               ~\E u \in Users : DeleteMe(u)
        PROVE  users' = users
    BY <2>5 DEF Outside, Refer, PreCheckout, ReaperReads, ReaperFails, tableVars
  <2> QED BY <1>0, <2>1, <2>2, <2>3, <2>4, <2>5 DEF TablesTyped
<1> QED BY <1>2, <1>3, <1>4, <1>5, <1>6 DEF TablesTyped

\* A crash: what was open is gone.
LEMMA CrashTables ==
  ASSUME PayInv, Crash
  PROVE  TablesTyped'
<1>0. TablesTyped /\ refunded \subseteq Recorded
  BY DEF PayInv, TypeOK, TablesSound
<1>1. /\ ledger' \in [Charges -> (SUBSET Charges) \cup {None}]
      /\ Rows' = Recorded
  BY CrashRows
<1>2. refunded' = refunded
  BY DEF Crash
<1>3. owner' \in [Charges -> Users \cup {None}]
  BY <1>0 DEF TablesTyped, Crash
<1>4. update' \in [Charges -> {"none", "due", "taken"}]
  BY <1>0 DEF TablesTyped, Crash
<1>5. UNCHANGED <<users, ref, invoice, returned>>
  BY DEF Crash
<1> QED BY <1>0, <1>1, <1>2, <1>3, <1>4, <1>5 DEF TablesTyped

\* The steps of a payment.
LEMMA PayTables ==
  ASSUME PayInv, NEW c \in Charges, Pay(c)
  PROVE  TablesTyped'
<1>0. TablesTyped /\ refunded \subseteq Recorded /\ c \in Jobs /\ Recorded \subseteq Rows
  BY JobsApart DEF PayInv, TypeOK, TablesSound, Recorded
<1>1. CASE Deliver(c)
  BY <1>0, <1>1 DEF Deliver, TablesTyped, tableVars, Rows
<1>2. CASE Insert(c)
  <2>1. pc[c] # "idle"
    BY <1>2 DEF Insert
  <2>2. Payer(c) \in Users
    BY <2>1, BusyPayer
  <2>3. owner' \in [Charges -> Users \cup {None}]
    BY <1>0, <1>2, <2>2 DEF Insert, TablesTyped
  <2>4. ledger' \in [Charges -> (SUBSET Charges) \cup {None}] /\ Rows \subseteq Rows'
    BY <1>2, InsertRows
  <2> QED BY <1>0, <1>2, <2>3, <2>4 DEF Insert, TablesTyped, telegramVars
<1>3. CASE ReadPayer(c)
  BY <1>0, <1>3 DEF ReadPayer, TablesTyped, tableVars, telegramVars, Rows
<1>4. CASE ReadReferral(c)
  BY <1>0, <1>4 DEF ReadReferral, TablesTyped, tableVars, telegramVars, Rows
<1>5. CASE CommitPayment(c)
  <2>1. users' \in [Users -> UserRows \cup {None}]
    BY <1>0, <1>5, WriteTyped DEF CommitPayment
  <2>2. Payer(c) \in Users /\ (link[c] # None => ref[Payer(c)] # None)
    BY <1>5, BusyPayer DEF CommitPayment, PayInv, PaymentAt
  <2>3. ref' \in [Users -> Referrals \cup {None}]
    BY <1>0, <1>5, <2>2, ClaimTyped DEF CommitPayment, TablesTyped
  <2>4. Rows' = Rows
    BY <1>5, CommitRows
  <2> QED BY <1>0, <1>5, <2>1, <2>3, <2>4 DEF CommitPayment, TablesTyped, telegramVars
<1>6. CASE PaymentFails(c)
  <2>1. owner' \in [Charges -> Users \cup {None}]
    BY <1>0, <1>6 DEF PaymentFails, TablesTyped
  <2>2. ledger' \in [Charges -> (SUBSET Charges) \cup {None}] /\ Recorded \subseteq Rows'
    <3>1. /\ ledger' \in [Charges -> (SUBSET Charges) \cup {None}]
          /\ Rows' = IF Open(c) THEN Rows \ {c} ELSE Rows
      BY <1>6, FailRows
    <3> QED BY <1>0, <3>1 DEF Recorded
  <2>3. UNCHANGED <<users, ref, refunded, telegramVars>>
    BY <1>6 DEF PaymentFails
  <2> QED BY <1>0, <2>1, <2>2, <2>3 DEF TablesTyped, telegramVars
<1> QED BY <1>1, <1>2, <1>3, <1>4, <1>5, <1>6 DEF Pay

\* The steps of a refund, and the SELECT of the inviter.
LEMMA RefundTables ==
  ASSUME PayInv, \/ \E a \in Admins : Refund(a)
                 \/ \E j \in Jobs : ReadInviter(j)
  PROVE  TablesTyped'
<1>0. TablesTyped
  BY DEF PayInv, TypeOK
<1>1. CASE \E j \in Jobs : ReadInviter(j)
  BY <1>0, <1>1 DEF ReadInviter, TablesTyped, tableVars, telegramVars, Rows
<1>2. ASSUME NEW a \in Admins, Refund(a)
      PROVE  TablesTyped'
  <2>1. CASE CommitRefund(a)
    <3>0. a \in Jobs /\ pc[a] = "commit"
      BY <2>1, JobsApart DEF CommitRefund
    <3>1. users' \in [Users -> UserRows \cup {None}]
      BY <2>1, <3>0, WriteTyped DEF CommitRefund
    <3>2. hand[a] \in Rows /\ Payer(hand[a]) \in Users
      BY <3>0, ChosenPayer DEF Chosen, Returning
    <3>3. ref' \in [Users -> Referrals \cup {None}]
      BY <1>0, <2>1, <3>2, ClaimTyped DEF CommitRefund, TablesTyped
    <3>4. Rows' = Rows
      BY <2>1 DEF CommitRefund, Rows
    <3> QED BY <1>0, <2>1, <3>1, <3>2, <3>3, <3>4 DEF CommitRefund, TablesTyped, telegramVars
  <2>2. CASE CallTelegram(a)
    <3>1. hand[a] \in Charges
      BY <2>2, ChosenPayer DEF CallTelegram, Chosen, Returning
    <3> QED BY <1>0, <2>2, <3>1 DEF CallTelegram, TablesTyped, tableVars, Rows
  <2>3. CASE ~CommitRefund(a) /\ ~CallTelegram(a)
    <3>1. UNCHANGED <<tableVars, telegramVars>>
      BY <1>2, <2>3 DEF Refund, StartRefund, PickPayment, FindReferral, RefundFails
    <3> QED BY <1>0, <3>1 DEF TablesTyped, tableVars, telegramVars, Rows
  <2> QED BY <2>1, <2>2, <2>3
<1> QED BY <1>1, <1>2

-----------------------------------------------------------------------------
(* The history, open payments and handlers that have ended *)

\* The counters stay numbers.
LEMMA HistoryStays ==
  ASSUME PayInv, Next
  PROVE  HistoryTyped'
<1>0. HistoryTyped /\ MaxUpsets \in Nat
  BY PaymentConstants DEF PayInv, TypeOK
<1>1. Upset => upsets' \in 0..MaxUpsets
  BY <1>0 DEF Upset, HistoryTyped
<1>2. ASSUME NEW j \in Jobs, pc[j] = "commit", ~Misses(j), WriteUsers(j)
      PROVE  stale' \subseteq Users
  BY <1>2, WriteTyped
<1>3. CASE Outside
  BY <1>0, <1>1, <1>3 DEF Outside, StartBot, DeleteMe, Refer, PreCheckout, ReaperReads,
     ReaperWrites, ReaperFails, Tick, histVars, HistoryTyped, PayInv, TypeOK, JobsTyped
<1>4. CASE Crash
  BY <1>0, <1>1, <1>4 DEF Crash, HistoryTyped
<1>5. CASE \E j \in Jobs : ReadInviter(j)
  BY <1>0, <1>5 DEF ReadInviter, HistoryTyped, histVars
<1>6. ASSUME NEW c \in Charges, Pay(c)
      PROVE  HistoryTyped'
  <2>1. CASE CommitPayment(c)
    <3>1. stale' \subseteq Users
      BY <1>2, <2>1, JobsApart DEF CommitPayment
    <3>2. link[c] \in Users \cup {None}
      BY JobsApart DEF PayInv, TypeOK, JobsTyped
    <3> QED BY <1>0, <2>1, <3>1, <3>2 DEF CommitPayment, HistoryTyped
  <2>2. CASE PaymentFails(c)
    BY <1>0, <1>1, <2>2 DEF PaymentFails, HistoryTyped
  <2>3. CASE ~CommitPayment(c) /\ ~PaymentFails(c)
    BY <1>0, <1>6, <2>3 DEF Pay, Deliver, Insert, ReadPayer, ReadReferral, HistoryTyped, histVars
  <2> QED BY <2>1, <2>2, <2>3
<1>7. ASSUME NEW a \in Admins, Refund(a)
      PROVE  HistoryTyped'
  <2>1. CASE CommitRefund(a)
    <3>1. stale' \subseteq Users
      BY <1>2, <2>1, JobsApart DEF CommitRefund
    <3>2. reversed' \in [Charges -> [Users -> Nat]]
      <4>1. hand[a] \in Charges
        BY <2>1, ChosenPayer DEF CommitRefund, Chosen, Returning
      <4>2. link[a] \in Users \cup {None}
        BY JobsApart DEF PayInv, TypeOK, JobsTyped
      <4>3. CASE reversed' = reversed
        BY <1>0, <4>3 DEF HistoryTyped
      <4>4. CASE /\ link[a] \in Users
                 /\ reversed' = [reversed EXCEPT ![hand[a]][link[a]] = @ + 1]
        <5>1. reversed' = [reversed EXCEPT ![hand[a]] =
                             [reversed[hand[a]] EXCEPT ![link[a]] = reversed[hand[a]][link[a]] + 1]]
          BY <4>4
        <5>2. [reversed[hand[a]] EXCEPT ![link[a]] = reversed[hand[a]][link[a]] + 1]
                \in [Users -> Nat]
          BY <1>0, <4>1, <4>4 DEF HistoryTyped
        <5> QED BY <1>0, <4>1, <5>1, <5>2 DEF HistoryTyped
      <4> QED BY <2>1, <4>2, <4>3, <4>4 DEF CommitRefund
    <3> QED BY <1>0, <2>1, <3>1, <3>2 DEF CommitRefund, HistoryTyped
  <2>2. CASE ~CommitRefund(a)
    BY <1>0, <1>1, <1>7, <2>2 DEF Refund, StartRefund, PickPayment, CallTelegram,
       FindReferral, RefundFails, histVars, HistoryTyped
  <2> QED BY <2>1, <2>2
<1> QED BY <1>3, <1>4, <1>5, <1>6, <1>7 DEF Next, Outside

\* An open payment has its row and its payer.
OpenHasRow ==
  \A c \in Charges : Open(c) => c \in Rows /\ owner[c] = Payer(c) /\ users[Payer(c)] # None

\* A handler that has ended knows nothing.
IdleIsEmpty == \A j \in Jobs : pc[j] = "idle" => view[j] = Unread /\ link[j] = None

\* The payer of an open payment keeps row and account, whoever else acts.
LEMMA OpenStays ==
  ASSUME PayInv, Next
  PROVE  OpenHasRow'
<1>0. OpenHasRow /\ TypeOK /\ TablesTyped
  BY DEF PayInv, TypeOK, OpenHasRow
<1>1. \A c \in Charges : Open(c) => Payer(c) \in Users /\ update[c] = "taken"
  BY BusyPayer DEF Open, PayInv, PaymentAt
<1>2. ASSUME \A c \in Charges : Open(c)' => Open(c) /\ c \in Rows' /\ owner'[c] = owner[c]
                                     /\ invoice'[c] = invoice[c],
             \A c \in Charges : Open(c) => users'[Payer(c)] # None
      PROVE  OpenHasRow'
  BY <1>0, <1>2 DEF OpenHasRow, Payer
<1>3. CASE Outside
  <2>1. Rows' = Rows /\ \A d \in Charges : Open(d)' <=> Open(d)
    <3>1. ledger' = ledger
      BY <1>3 DEF Outside, StartBot, DeleteMe, Refer, PreCheckout, ReaperReads, ReaperWrites,
                  ReaperFails, Tick, tableVars
    <3>2. pc' = pc
      BY <1>3, OutsideMoves DEF jobVars
    <3> QED BY <3>1, <3>2 DEF Rows, Open
  <2>2. \A c \in Charges : Open(c) => invoice'[c] = invoice[c]
    BY <1>0, <1>1, <1>3 DEF Outside, StartBot, DeleteMe, Refer, PreCheckout, ReaperReads,
       ReaperWrites, ReaperFails, Tick, telegramVars, TablesTyped
  <2>3. \A c \in Charges : Open(c) => owner'[c] = owner[c] /\ users'[Payer(c)] # None
    <3> SUFFICES ASSUME NEW c \in Charges, Open(c)
                 PROVE  owner'[c] = owner[c] /\ users'[Payer(c)] # None
      OBVIOUS
    <3>1. Payer(c) \in Users /\ owner[c] = Payer(c) /\ users[Payer(c)] # None
      BY <1>0, <1>1 DEF OpenHasRow
    <3>2. users[Payer(c)] \in UserRows
      BY <1>0, <3>1 DEF TablesTyped
    <3>3. CASE \E u \in Users : DeleteMe(u)
      BY <1>0, <3>1, <3>3 DEF DeleteMe, Kept, TablesTyped
    <3>4. CASE \E u \in Users : StartBot(u)
      BY <1>0, <3>1, <3>4 DEF StartBot, TablesTyped
    <3>5. CASE ReaperWrites \/ Tick
      <4>1. [users[Payer(c)] EXCEPT !.tier = "free"] \in UserRows
        BY <3>2 DEF UserRows
      <4>2. owner' = owner /\ users'[Payer(c)] # None
        <5>1. TablesTyped'
          BY <1>3, OutsideTables
        <5>2. CASE ReaperWrites
          BY <3>1, <4>1, <5>2, NoneIsNoRow DEF ReaperWrites
        <5>3. CASE Tick
          <6>1. Busy # {}
            BY JobsApart DEF Busy, Open
          <6> QED BY <5>3, <6>1 DEF Tick
        <5> QED BY <3>5, <5>2, <5>3
      <4> QED BY <4>2
    <3>6. CASE UNCHANGED <<users, owner>>
      BY <3>1, <3>6
    <3> QED BY <1>3, <3>3, <3>4, <3>5, <3>6 DEF Outside, Refer, PreCheckout, ReaperReads,
               ReaperFails, tableVars
  <2> QED BY <1>0, <1>2, <2>1, <2>2, <2>3 DEF OpenHasRow
<1>4. CASE Crash
  BY <1>4, CrashRows DEF OpenHasRow
<1>5. ASSUME NEW c \in Charges, Pay(c)
      PROVE  OpenHasRow'
  <2>1. invoice' = invoice
    BY <1>5 DEF Pay, Deliver, Insert, ReadPayer, ReadReferral, CommitPayment, PaymentFails,
                telegramVars
  <2>2. c \in Jobs
    BY JobsApart
  <2>3. CASE Insert(c)
    <3>1. /\ \A d \in Charges : Open(d)' => d \in Rows' /\ (d = c \/ Open(d))
          /\ (Open(c)') => users[Payer(c)] # None
      BY <2>3, InsertRows
    <3>2. (Open(c)') => owner' = [owner EXCEPT ![c] = Payer(c)]
      <4>1. CASE Known(c) \/ users[Payer(c)] = None
        <5>1. pc'[c] = "idle"
          BY <1>0, <2>2, <2>3, <4>1, EndForgets DEF Insert, TypeOK
        <5> QED BY <5>1 DEF Open
      <4> QED BY <2>3, <4>1 DEF Insert
    <3>3. users' = users /\ (owner' = owner \/ owner' = [owner EXCEPT ![c] = Payer(c)])
      BY <2>3 DEF Insert
    <3>4. owner \in [Charges -> Users \cup {None}]
      BY <1>0 DEF TablesTyped
    <3> SUFFICES ASSUME NEW d \in Charges, Open(d)'
                 PROVE  d \in Rows' /\ owner'[d] = Payer(d)' /\ users'[Payer(d)'] # None
      BY DEF OpenHasRow
    <3>5. Payer(d)' = Payer(d)
      BY <2>1 DEF Payer
    <3> QED BY <1>0, <3>1, <3>2, <3>3, <3>4, <3>5 DEF OpenHasRow
  <2>4. CASE CommitPayment(c)
    <3>1. \A d \in Charges : Open(d)' => Open(d)
      BY <2>4, CommitRows
    <3>2. \A u \in Users : users'[u] = None <=> users[u] = None
      BY <2>2, <2>4, WriteTyped DEF CommitPayment
    <3>3. Rows' = Rows /\ owner' = owner
      BY <2>4, CommitRows DEF CommitPayment
    <3> QED BY <1>0, <1>1, <1>2, <2>1, <3>1, <3>2, <3>3 DEF OpenHasRow
  <2>5. CASE PaymentFails(c)
    <3>1. /\ \A d \in Charges : Open(d)' => d # c /\ Open(d)
          /\ Rows' = IF Open(c) THEN Rows \ {c} ELSE Rows
      BY <2>5, FailRows
    <3>2. users' = users /\ \A d \in Charges \ {c} : owner'[d] = owner[d]
      BY <1>0, <2>5 DEF PaymentFails, TablesTyped
    <3> QED BY <1>0, <1>2, <2>1, <3>1, <3>2 DEF OpenHasRow
  <2>6. CASE Deliver(c) \/ ReadPayer(c) \/ ReadReferral(c)
    <3>1. UNCHANGED <<users, owner>>
      BY <2>6 DEF Deliver, ReadPayer, ReadReferral, tableVars
    <3>2. Rows' = Rows /\ \A d \in Charges : Open(d)' <=> Open(d)
      BY <2>2, <2>6, OtherRows
    <3> QED BY <1>0, <1>2, <2>1, <3>1, <3>2 DEF OpenHasRow
  <2> QED BY <1>5, <2>3, <2>4, <2>5, <2>6 DEF Pay
<1>6. ASSUME NEW j \in Jobs, ReadInviter(j) \/ (j \in Admins /\ Refund(j))
      PROVE  OpenHasRow'
  <2>1. Rows' = Rows /\ \A d \in Charges : Open(d)' <=> Open(d)
    BY <1>6, OtherRows
  <2>2. invoice' = invoice /\ owner' = owner
    BY <1>6 DEF ReadInviter, Refund, StartRefund, PickPayment, CallTelegram, FindReferral,
                CommitRefund, RefundFails, tableVars, telegramVars
  <2>3. \A u \in Users : users[u] # None => users'[u] # None
    <3>1. CASE j \in Admins /\ CommitRefund(j)
      BY <1>6, <3>1, WriteTyped DEF CommitRefund
    <3>2. CASE ~(j \in Admins /\ CommitRefund(j))
      <4>1. users' = users
        BY <1>6, <3>2 DEF ReadInviter, Refund, StartRefund, PickPayment, CallTelegram,
           FindReferral, RefundFails, tableVars
      <4> QED BY <4>1
    <3> QED BY <3>1, <3>2
  <2> QED BY <1>0, <1>1, <1>2, <2>1, <2>2, <2>3 DEF OpenHasRow
<1> QED BY <1>3, <1>4, <1>5, <1>6, JobsApart DEF Next, Outside

\* Who ends forgets; who moves on has not ended.
LEMMA IdleStays ==
  ASSUME PayInv, Next
  PROVE  IdleIsEmpty'
<1>0. JobsTyped /\ IdleIsEmpty
  BY DEF PayInv, TypeOK, IdleIsEmpty
<1>1. ASSUME NEW j \in Jobs, OnlyMoves(j), pc'[j] # "idle"
      PROVE  IdleIsEmpty'
  BY <1>0, <1>1 DEF IdleIsEmpty, OnlyMoves, Unread
<1>2. ASSUME NEW j \in Jobs, End(j)
      PROVE  IdleIsEmpty'
  BY <1>0, <1>2, EndForgets DEF IdleIsEmpty, OnlyMoves, Unread
<1>3. CASE Outside
  BY <1>0, <1>3, OutsideMoves DEF jobVars, IdleIsEmpty, Unread
<1>4. CASE Crash
  BY <1>4 DEF Crash, IdleIsEmpty, Unread
<1>5. ASSUME NEW j \in Jobs,
             \/ ReadInviter(j)
             \/ j \in Charges /\ Pay(j)
             \/ j \in Admins /\ Refund(j)
      PROVE  End(j) \/ (OnlyMoves(j) /\ pc'[j] # "idle")
  <2>1. \A w \in {"insert", "user", "referral", "pick", "call", "find", "inviter", "commit"} :
          Goto(j, w) => pc'[j] # "idle" /\ \A k \in Jobs \ {j} : pc'[k] = pc[k]
    BY <1>0, GotoTyped
  <2>2. CASE ReadInviter(j)
    BY <1>0, <2>1, <2>2 DEF ReadInviter, Read, OnlyMoves, JobsTyped
  <2>3. CASE j \in Charges /\ Pay(j)
    BY <1>0, <2>1, <2>3 DEF Pay, Deliver, Insert, ReadPayer, ReadReferral, CommitPayment,
       PaymentFails, Read, OnlyMoves, JobsTyped
  <2>4. CASE j \in Admins /\ Refund(j)
    BY <1>0, <2>1, <2>4 DEF Refund, StartRefund, PickPayment, CallTelegram, FindReferral,
       CommitRefund, RefundFails, Read, OnlyMoves, JobsTyped
  <2> QED BY <1>5, <2>2, <2>3, <2>4
<1> QED BY <1>1, <1>2, <1>3, <1>4, <1>5, JobsApart DEF Next, Outside

\* Every step keeps the types.
LEMMA TypesStay ==
  ASSUME PayInv, Next
  PROVE  TypeOK'
<1>1. JobsTyped'
  BY PayRegisters, InviterRegisters, RefundRegisters, OutsideRegisters DEF Next, Outside
<1>2. TablesTyped'
  BY OutsideTables, CrashTables, PayTables, RefundTables DEF Next, Outside
<1> QED BY <1>1, <1>2, HistoryStays, OpenStays, IdleStays DEF TypeOK, OpenHasRow, IdleIsEmpty

-----------------------------------------------------------------------------
(* What no step takes back *)

\* An invoice that is paid stays; what is recorded, returned or refunded stays so; a
\* payment gets its row from the handler that was given it.
LEMMA Steady ==
  ASSUME PayInv, Next
  PROVE  /\ \A c \in Charges : update[c] # "none" =>
                invoice'[c] = invoice[c] /\ update'[c] # "none"
         /\ \A c \in Rows' : c \in Rows \/ pc[c] = "insert"
         /\ Recorded \subseteq Recorded' /\ returned \subseteq returned'
<1>0. TablesTyped /\ JobsTyped
  BY DEF PayInv, TypeOK
<1>1. \A c \in Charges : update[c] # "none" => invoice'[c] = invoice[c] /\ update'[c] # "none"
  BY <1>0 DEF Next, Pay, Refund, StartBot, DeleteMe, Refer, PreCheckout, Deliver, Insert,
     ReadPayer, ReadReferral, CommitPayment, PaymentFails, StartRefund, PickPayment,
     CallTelegram, FindReferral, CommitRefund, RefundFails, ReadInviter, ReaperReads,
     ReaperWrites, ReaperFails, Crash, Tick, TablesTyped, telegramVars
<1>2. returned \subseteq returned'
  BY DEF Next, Pay, Refund, StartBot, DeleteMe, Refer, PreCheckout, Deliver, Insert,
     ReadPayer, ReadReferral, CommitPayment, PaymentFails, StartRefund, PickPayment,
     CallTelegram, FindReferral, CommitRefund, RefundFails, ReadInviter, ReaperReads,
     ReaperWrites, ReaperFails, Crash, Tick, telegramVars
<1>3. ASSUME NEW c \in Charges, Pay(c)
      PROVE  /\ Recorded \subseteq Recorded'
             /\ \A d \in Rows' : d \in Rows \/ pc[d] = "insert"
  <2>1. CASE Insert(c)
    BY <2>1, InsertRows DEF Insert
  <2>2. CASE CommitPayment(c)
    BY <2>2, CommitRows
  <2>3. CASE PaymentFails(c)
    BY <2>3, FailRows
  <2>4. CASE Deliver(c) \/ ReadPayer(c) \/ ReadReferral(c)
    BY <2>4, OtherRows, JobsApart
  <2> QED BY <1>3, <2>1, <2>2, <2>3, <2>4 DEF Pay
<1>4. CASE Crash
  BY <1>1, <1>2, <1>4, CrashRows DEF Recorded
<1>5. ASSUME Outside
      PROVE  Rows' = Rows /\ Recorded' = Recorded
  <2>1. ledger' = ledger /\ pc' = pc
    BY <1>5, OutsideMoves DEF Outside, StartBot, DeleteMe, Refer, PreCheckout, ReaperReads,
       ReaperWrites, ReaperFails, Tick, tableVars, jobVars
  <2> QED BY <2>1 DEF Rows, Recorded, Open
<1>6. ASSUME NEW j \in Jobs, ReadInviter(j) \/ (j \in Admins /\ Refund(j))
      PROVE  Rows' = Rows /\ Recorded' = Recorded
  BY <1>6, OtherRows
<1> QED BY <1>1, <1>2, <1>3, <1>4, <1>5, <1>6, JobsApart DEF Next, Outside

\* An account goes when it is deleted; a referral when its guest's or its inviter's is.
LEMMA AccountsStay ==
  ASSUME PayInv, Next, NEW u \in Users
  PROVE  /\ users[u] # None /\ users'[u] = None => DeleteMe(u)
         /\ ref[u] # None /\ ref'[u] = None => DeleteMe(u) \/ DeleteMe(ref[u].inviter)
<1>0. TablesTyped /\ TablesTyped'
  BY TypesStay DEF PayInv, TypeOK
<1>1. CASE \E v \in Users : DeleteMe(v)
  <2>1. PICK v \in Users : DeleteMe(v)
    BY <1>1
  <2>2. users'[u] = None /\ users[u] # None => u = v
    BY <1>0, <2>1 DEF DeleteMe, TablesTyped
  <2>3. ref[u] # None /\ ref'[u] = None => u = v \/ ref[u].inviter = v
    BY <2>1 DEF DeleteMe
  <2> QED BY <2>1, <2>2, <2>3
<1>2. ASSUME NEW v \in Users, StartBot(v) \/ \E by \in Users : Refer(v, by)
      PROVE  (users[u] # None => users'[u] # None) /\ (ref[u] # None => ref'[u] # None)
  BY <1>0, <1>2 DEF StartBot, Refer, TablesTyped
<1>3. CASE ReaperWrites \/ Tick
  <2>1. ref' = ref
    BY <1>3 DEF ReaperWrites, Tick
  <2>2. \A r \in UserRows : [r EXCEPT !.tier = "free"] \in UserRows
    BY DEF UserRows
  <2>3. \A r \in UserRows : r.until \notin {None, 0} => [r EXCEPT !.until = @ - 1] \in UserRows
    <3> SUFFICES ASSUME NEW r \in UserRows, r.until \notin {None, 0}
                 PROVE  [r EXCEPT !.until = @ - 1] \in UserRows
      OBVIOUS
    <3>1. r.until - 1 \in Nat
      BY DEF UserRows
    <3> QED BY <3>1 DEF UserRows
  <2>4. users[u] # None => users[u] \in UserRows
    BY <1>0 DEF TablesTyped
  <2>5. CASE ReaperWrites
    BY <2>1, <2>2, <2>4, <2>5, NoneIsNoRow DEF ReaperWrites
  <2>6. CASE Tick
    BY <2>1, <2>3, <2>4, <2>6, NoneIsNoRow DEF Tick
  <2> QED BY <1>3, <2>5, <2>6
<1>4. ASSUME NEW c \in Charges, CommitPayment(c)
      PROVE  (users[u] # None => users'[u] # None) /\ (ref[u] # None => ref'[u] # None)
  <2>1. \A v \in Users : users'[v] = None <=> users[v] = None
    BY <1>4, WriteTyped, JobsApart DEF CommitPayment
  <2>2. Payer(c) \in Users /\ (link[c] # None => ref[Payer(c)] # None)
    BY <1>4, BusyPayer DEF CommitPayment, PayInv, PaymentAt
  <2>3. link[c] # None => \A v \in Users : ref[v] # None => ref'[v] # None
    BY <1>4, <2>2, ClaimTyped DEF CommitPayment
  <2> QED BY <1>4, <2>1, <2>3 DEF CommitPayment
<1>5. ASSUME NEW a \in Admins, CommitRefund(a)
      PROVE  (users[u] # None => users'[u] # None) /\ (ref[u] # None => ref'[u] # None)
  <2>1. \A v \in Users : users'[v] = None <=> users[v] = None
    BY <1>5, WriteTyped, JobsApart DEF CommitRefund
  <2>2. Payer(hand[a]) \in Users
    BY <1>5, ChosenPayer DEF CommitRefund, Chosen, Returning
  <2>3. link[a] # None => \A v \in Users : ref[v] # None => ref'[v] # None
    BY <1>5, <2>2, ClaimTyped DEF CommitRefund
  <2> QED BY <1>5, <2>1, <2>3 DEF CommitRefund
<1>6. ASSUME ~(\E v \in Users : DeleteMe(v) \/ StartBot(v) \/ \E by \in Users : Refer(v, by)),
             ~ReaperWrites, ~Tick, ~(\E c \in Charges : CommitPayment(c)),
             ~(\E a \in Admins : CommitRefund(a))
      PROVE  users' = users /\ ref' = ref
  BY <1>6 DEF Next, Pay, Refund, PreCheckout, Deliver, Insert, ReadPayer, ReadReferral,
     PaymentFails, StartRefund, PickPayment, CallTelegram, FindReferral, RefundFails,
     ReadInviter, ReaperReads, ReaperFails, Crash, tableVars
<1> QED BY <1>1, <1>2, <1>3, <1>4, <1>5, <1>6

\* A deletion waits for whom a handler holds.
LEMMA KeptStay ==
  ASSUME PayInv, Next
  PROVE  /\ \A c \in Charges : pc[c] = "commit" /\ link[c] # None => ref'[Payer(c)] # None
         /\ \A a \in Admins : pc[a] \in {"inviter", "commit"} =>
              (users[Payer(hand[a])] # None => users'[Payer(hand[a])] # None)
<1>1. \A u \in Kept : ~DeleteMe(u)
  BY DEF DeleteMe
<1>2. ASSUME NEW c \in Charges, pc[c] = "commit", link[c] # None
      PROVE  ref'[Payer(c)] # None
  <2>1. Payer(c) \in Users /\ ref[Payer(c)] # None /\ Open(c)
    BY <1>2, BusyPayer DEF PayInv, PaymentAt, Open
  <2>2. Payer(c) \in Kept /\ ref[Payer(c)].inviter \in Kept
    BY <1>2, <2>1 DEF Kept
  <2> QED BY <1>1, <2>1, <2>2, AccountsStay
<1>3. ASSUME NEW a \in Admins, pc[a] \in {"inviter", "commit"}
      PROVE  users[Payer(hand[a])] # None => users'[Payer(hand[a])] # None
  <2>1. Payer(hand[a]) \in Users
    BY <1>3, ChosenPayer DEF Chosen, Returning
  <2>2. Payer(hand[a]) \in Kept
    BY <1>3, JobsApart DEF Kept, Subject
  <2> QED BY <1>1, <2>1, <2>2, AccountsStay
<1> QED BY <1>2, <1>3

-----------------------------------------------------------------------------
(* The invariant: invoices, refunds, referrals and counts *)

\* Whoever pays has an invoice, and owns the payment while there is one.
LEMMA InvoicedStays ==
  ASSUME PayInv, Next
  PROVE  Invoiced'
<1>0. Invoiced /\ TablesTyped /\ TablesTyped' /\ TypeOK
  BY TypesStay DEF PayInv, TypeOK
<1>1. \A c \in Charges : update[c] # "none" => invoice'[c] = invoice[c] /\ update'[c] # "none"
  BY Steady
<1>2. \A c \in Charges : update'[c] # "none" => invoice'[c] # None
  <2>1. \A u \in Users, b \in BOOLEAN : [payer |-> u, discount |-> b] # None
    BY NewTyped, NoneIsNoRow
  <2>2. CASE \E c \in Charges, u \in Users, discount \in BOOLEAN : PreCheckout(c, u, discount)
    BY <1>0, <2>1, <2>2 DEF PreCheckout, Invoiced, TablesTyped
  <2>3. CASE ~\E c \in Charges, u \in Users, discount \in BOOLEAN : PreCheckout(c, u, discount)
    <3>1. \A c \in Charges : update[c] = "none" => update'[c] = "none"
      <4>1. CASE \E d \in Charges : Deliver(d)
        BY <1>0, <4>1 DEF Deliver, TablesTyped
      <4>2. CASE Crash
        BY <1>0, <4>2 DEF Crash, TablesTyped
      <4>3. CASE update' = update
        BY <4>3
      <4> QED BY <2>3, <4>1, <4>2, <4>3 DEF Next, Pay, Refund, StartBot, DeleteMe, Refer,
        Insert, ReadPayer, ReadReferral, CommitPayment, PaymentFails, StartRefund,
        PickPayment, CallTelegram, FindReferral, CommitRefund, RefundFails, ReadInviter,
        ReaperReads, ReaperWrites, ReaperFails, Tick, telegramVars
    <3> QED BY <1>0, <1>1, <3>1 DEF Invoiced
  <2> QED BY <2>2, <2>3
<1>3. \A c \in Charges : c \in Rows' => update'[c] # "none"
  BY <1>0, <1>1, Steady DEF PayInv, PaymentAt, Invoiced
<1>4. \A c \in Charges : owner'[c] # None => c \in Rows' /\ owner'[c] = Payer(c)'
  <2> SUFFICES ASSUME NEW c \in Charges, owner'[c] # None
               PROVE  c \in Rows' /\ owner'[c] = Payer(c)'
    OBVIOUS
  <2>1. CASE \E d \in Charges : Insert(d)
    <3>1. PICK d \in Charges : Insert(d)
      BY <2>1
    <3>2. Payer(c)' = Payer(c) /\ Rows \subseteq Rows'
      BY <3>1, InsertRows DEF Insert, telegramVars, Payer
    <3>3. CASE c = d /\ ~(Known(d) \/ users[Payer(d)] = None)
      <4>1. d \in Rows' /\ owner'[d] = Payer(d)
        BY <1>0, <3>1, <3>3, WithRows DEF Insert, TablesTyped
      <4> QED BY <3>2, <3>3, <4>1
    <3>4. CASE owner'[c] = owner[c]
      BY <1>0, <3>2, <3>4 DEF Invoiced
    <3> QED BY <1>0, <3>1, <3>3, <3>4 DEF Insert, TablesTyped
  <2>2. CASE \E d \in Charges : PaymentFails(d)
    <3>1. PICK d \in Charges : PaymentFails(d)
      BY <2>2
    <3>2. Payer(c)' = Payer(c) /\ Rows' = IF Open(d) THEN Rows \ {d} ELSE Rows
      BY <3>1, FailRows DEF PaymentFails, telegramVars, Payer
    <3> QED BY <1>0, <3>1, <3>2 DEF PaymentFails, TablesTyped, Invoiced
  <2>3. CASE Crash
    <3>1. Payer(c)' = Payer(c) /\ Rows' = Recorded
      BY <2>3, CrashRows DEF Crash, Payer
    <3> QED BY <1>0, <2>3, <3>1 DEF Crash, Invoiced, Recorded
  <2>4. CASE \E u \in Users : DeleteMe(u)
    <3>1. Payer(c)' = Payer(c) /\ Rows' = Rows
      BY <2>4 DEF DeleteMe, telegramVars, Payer, Rows
    <3> QED BY <1>0, <2>4, <3>1 DEF DeleteMe, Invoiced
  <2>5. CASE ~(\E d \in Charges : Insert(d) \/ PaymentFails(d)) /\ ~Crash
             /\ ~\E u \in Users : DeleteMe(u)
    <3>1. owner' = owner /\ ledger' = ledger
      BY <2>5 DEF Next, Pay, Refund, StartBot, Refer, PreCheckout, Deliver, ReadPayer,
         ReadReferral, CommitPayment, StartRefund, PickPayment, CallTelegram, FindReferral,
         CommitRefund, RefundFails, ReadInviter, ReaperReads, ReaperWrites, ReaperFails,
         Tick, tableVars
    <3>2. c \in Rows /\ owner[c] = Payer(c) /\ invoice'[c] = invoice[c]
      BY <1>0, <1>1, <3>1 DEF Invoiced
    <3> QED BY <3>1, <3>2 DEF Payer, Rows
  <2> QED BY <2>1, <2>2, <2>3, <2>4, <2>5
<1> QED BY <1>2, <1>3, <1>4 DEF Invoiced

\* The second of two refunds of a charge is refused by Telegram.
LEMMA ApartStays ==
  ASSUME PayInv, Next
  PROVE  Apart'
<1>0. Apart /\ JobsTyped
  BY DEF PayInv, TypeOK
<1>1. \A b \in Admins : pc[b] \in Returning => hand[b] \in returned
  BY DEF PayInv, RefundAt
<1>2. ASSUME NEW a \in Admins, Refund(a) \/ ReadInviter(a)
      PROVE  Apart'
  <2>0. a \in Jobs
    BY JobsApart
  <2>1. OnlyMoves(a)
    BY <1>0, <1>2, <2>0, EndForgets DEF Refund, StartRefund, PickPayment, CallTelegram,
       FindReferral, CommitRefund, RefundFails, ReadInviter, Goto, Read, OnlyMoves, JobsTyped
  <2>2. pc'[a] \in Returning =>
          hand'[a] = hand[a] /\ (pc[a] \in Returning \/ hand[a] \notin returned)
    <3>1. CASE End(a)
      BY <1>0, <2>0, <3>1, EndForgets DEF Returning
    <3>2. CASE CallTelegram(a) /\ ~End(a)
      BY <1>0, <2>0, <3>2, GotoTyped DEF CallTelegram, Accepts
    <3>3. CASE FindReferral(a) \/ ReadInviter(a)
      BY <3>3 DEF FindReferral, ReadInviter, Returning
    <3>4. CASE (\E u \in Users : StartRefund(a, u)) \/ (PickPayment(a) /\ ~End(a))
      BY <1>0, <2>0, <3>4, GotoTyped DEF StartRefund, PickPayment, Returning
    <3> QED BY <1>2, <3>1, <3>2, <3>3, <3>4 DEF Refund, CommitRefund, RefundFails
  <2> QED BY <1>0, <1>1, <2>1, <2>2, JobsApart DEF Apart, OnlyMoves
<1>3. ASSUME NEW c \in Charges, Pay(c) \/ ReadInviter(c)
      PROVE  Apart'
  <2>1. OnlyMoves(c)
    BY <1>0, <1>3, EndForgets, JobsApart DEF Pay, Deliver, Insert, ReadPayer, ReadReferral,
       CommitPayment, PaymentFails, ReadInviter, Goto, Read, OnlyMoves, JobsTyped
  <2> QED BY <1>0, <2>1, JobsApart DEF Apart, OnlyMoves
<1>4. CASE Outside
  BY <1>0, <1>4, OutsideMoves DEF jobVars, Apart
<1>5. CASE Crash
  BY <1>5, JobsApart DEF Crash, Apart, Returning
<1> QED BY <1>2, <1>3, <1>4, <1>5, JobsApart DEF Next, Outside

\* Referrals are claimed by the COMMIT of a payment, and freed by that of its refund.
LEMMA RefsStay ==
  ASSUME PayInv, Next
  PROVE  RefsSound'
<1>0. RefsSound /\ TablesTyped
  BY DEF PayInv, TypeOK
<1>1. /\ Recorded \subseteq Recorded'
      /\ \A c \in Recorded : Payer(c)' = Payer(c)
  BY Steady, BusyPayer DEF Recorded, Rows, Payer
<1>2. ASSUME \A u \in Users : ref'[u] \in {None, ref[u]}
      PROVE  RefsSound'
  BY <1>0, <1>1, <1>2 DEF RefsSound
<1>3. ASSUME NEW u \in Users, NEW by \in Users, Refer(u, by)
      PROVE  RefsSound'
  <2>1. ref'[u].inviter # u /\ ref'[u].charge = None
    BY <1>0, <1>3 DEF Refer, TablesTyped
  <2>2. \A v \in Users \ {u} : ref'[v] = ref[v]
    BY <1>0, <1>3 DEF Refer, TablesTyped
  <2> QED BY <1>0, <1>1, <2>1, <2>2 DEF RefsSound
<1>4. CASE \E u \in Users : DeleteMe(u)
  BY <1>2, <1>4 DEF DeleteMe
<1>5. ASSUME NEW c \in Charges, CommitPayment(c)
      PROVE  RefsSound'
  <2>1. Payer(c) \in Users /\ (link[c] # None => ref[Payer(c)] # None)
    BY <1>5, BusyPayer DEF CommitPayment, PayInv, PaymentAt
  <2>2. c \in Recorded' /\ Payer(c)' = Payer(c)
    BY <1>5, CommitRows DEF CommitPayment, telegramVars, Payer
  <2>3. CASE link[c] = None
    BY <1>2, <1>5, <2>3 DEF CommitPayment
  <2>4. CASE link[c] # None
    <3>1. /\ ref'[Payer(c)].inviter = ref[Payer(c)].inviter /\ ref'[Payer(c)].charge = c
          /\ \A v \in Users \ {Payer(c)} : ref'[v] = ref[v]
      BY <1>5, <2>1, <2>4, ClaimTyped DEF CommitPayment
    <3> QED BY <1>0, <1>1, <2>1, <2>2, <2>4, <3>1 DEF RefsSound
  <2> QED BY <2>3, <2>4
<1>6. ASSUME NEW a \in Admins, CommitRefund(a)
      PROVE  RefsSound'
  <2>1. Payer(hand[a]) \in Users
    BY <1>6, ChosenPayer DEF CommitRefund, Chosen, Returning
  <2>2. CASE link[a] = None
    BY <1>2, <1>6, <2>2 DEF CommitRefund
  <2>3. CASE link[a] # None
    <3>1. /\ ref[Payer(hand[a])] # None
          /\ ref'[Payer(hand[a])].inviter = ref[Payer(hand[a])].inviter
          /\ ref'[Payer(hand[a])].charge = None
          /\ \A v \in Users \ {Payer(hand[a])} : ref'[v] = ref[v]
      BY <1>6, <2>1, <2>3, ClaimTyped DEF CommitRefund
    <3> QED BY <1>0, <1>1, <3>1 DEF RefsSound
  <2> QED BY <2>2, <2>3
<1>7. CASE ref' = ref
  BY <1>2, <1>7
<1> QED BY <1>3, <1>4, <1>5, <1>6, <1>7 DEF Next, Pay, Refund, StartBot, PreCheckout,
  Deliver, Insert, ReadPayer, ReadReferral, PaymentFails, StartRefund, PickPayment,
  CallTelegram, FindReferral, RefundFails, ReadInviter, ReaperReads, ReaperWrites,
  ReaperFails, Crash, Tick, tableVars

\* A refund is about a payment that is recorded, returned and not refunded.
LEMMA RefundFacts ==
  ASSUME PayInv, NEW a \in Admins, CommitRefund(a)
  PROVE  /\ hand[a] \in Recorded /\ hand[a] \in Charges /\ hand[a] \in returned
         /\ hand[a] \notin refunded /\ Payer(hand[a]) \in Users
         /\ link[a] \in Users \cup {None}
  BY ChosenPayer, JobsApart DEF CommitRefund, PayInv, TypeOK, JobsTyped, RefundAt, Chosen,
     Returning, Recorded

\* Rewards are counted by COMMITs, and taken back by those of refunds.
LEMMA CountsStay ==
  ASSUME PayInv, Next
  PROVE  CountsSound'
<1>0. CountsSound /\ HistoryTyped /\ Recorded \subseteq Recorded'
  BY Steady DEF PayInv, TypeOK
<1>1. ASSUME NEW c \in Charges, CommitPayment(c)
      PROVE  CountsSound'
  <2>1. Recorded' = Recorded \cup {c}
    BY <1>1, CommitRows
  <2>2. /\ \A d \in Charges \ {c} : rewarded'[d] = rewarded[d]
        /\ reversed' = reversed /\ refunded' = refunded
    BY <1>0, <1>1 DEF CommitPayment, HistoryTyped
  <2> QED BY <1>0, <2>1, <2>2 DEF CountsSound
<1>2. ASSUME NEW a \in Admins, CommitRefund(a)
      PROVE  CountsSound'
  <2>1. hand[a] \in Charges /\ hand[a] \notin refunded /\ link[a] \in Users \cup {None}
    BY <1>2, RefundFacts
  <2>2. refunded' = refunded \cup {hand[a]} /\ rewarded' = rewarded
    BY <1>2 DEF CommitRefund
  <2>3. \A c \in Charges, u \in Users : reversed[c][u] \in Nat
    BY <1>0 DEF HistoryTyped
  <2>4. \A c \in Charges, u \in Users :
          reversed'[c][u] = reversed[c][u] \/ (c = hand[a] /\ reversed'[c][u] = reversed[c][u] + 1)
    <3>1. CASE reversed' = reversed
      BY <3>1
    <3>2. CASE link[a] # None /\ reversed' = [reversed EXCEPT ![hand[a]][link[a]] = @ + 1]
      BY <1>0, <2>1, <3>2 DEF HistoryTyped
    <3> QED BY <1>2, <3>1, <3>2 DEF CommitRefund
  <2> QED BY <1>0, <2>1, <2>2, <2>3, <2>4 DEF CountsSound
<1>3. CASE UNCHANGED <<rewarded, reversed, refunded>>
  BY <1>0, <1>3 DEF CountsSound
<1> QED BY <1>1, <1>2, <1>3 DEF Next, Pay, Refund, StartBot, DeleteMe, Refer, PreCheckout,
  Deliver, Insert, ReadPayer, ReadReferral, PaymentFails, StartRefund, PickPayment,
  CallTelegram, FindReferral, RefundFails, ReadInviter, ReaperReads, ReaperWrites,
  ReaperFails, Crash, Tick, tableVars, histVars

\* The refund's COMMIT finds the payment recorded and returned.
LEMMA TablesStay ==
  ASSUME PayInv, Next
  PROVE  TablesSound'
<1>0. TablesSound /\ Recorded \subseteq Recorded' /\ returned \subseteq returned'
  BY Steady DEF PayInv
<1>1. refunded' \subseteq Recorded' /\ refunded' \subseteq returned'
  <2>1. CASE \E a \in Admins : CommitRefund(a)
    BY <1>0, <2>1, RefundFacts DEF CommitRefund, TablesSound
  <2>2. CASE ~\E a \in Admins : CommitRefund(a)
    <3>1. refunded' = refunded
      BY <2>2 DEF Next, Pay, Refund, StartBot, DeleteMe, Refer, PreCheckout, Deliver, Insert,
         ReadPayer, ReadReferral, CommitPayment, PaymentFails, StartRefund, PickPayment,
         CallTelegram, FindReferral, RefundFails, ReadInviter, ReaperReads, ReaperWrites,
         ReaperFails, Crash, Tick, tableVars
    <3> QED BY <1>0, <3>1 DEF TablesSound
  <2> QED BY <2>1, <2>2
<1>2. \A u \in Users : users'[u] = None => u \in left'
  <2>1. \A u \in Users : DeleteMe(u) => u \in left'
    BY DEF DeleteMe
  <2>2. left \subseteq left'
    BY DEF Next, Pay, Refund, StartBot, DeleteMe, Refer, PreCheckout, Deliver, Insert,
       ReadPayer, ReadReferral, CommitPayment, PaymentFails, StartRefund, PickPayment,
       CallTelegram, FindReferral, CommitRefund, RefundFails, ReadInviter, ReaperReads,
       ReaperWrites, ReaperFails, Crash, Tick, histVars
  <2> QED BY <1>0, <2>1, <2>2, AccountsStay DEF TablesSound
<1> QED BY <1>1, <1>2 DEF TablesSound

-----------------------------------------------------------------------------
(* The invariant: the way of the handlers *)

\* A handler's registers are as they were.
Rests(k) ==
  pc'[k] = pc[k] /\ view'[k] = view[k] /\ link'[k] = link[k] /\ (k \in Admins => hand'[k] = hand[k])

\* Where a payment's handler stands does not change under it when others act.
LEMMA PaymentRests ==
  ASSUME PayInv, Next, NEW c \in Charges, Rests(c), pc[c] # "idle" => update'[c] = "taken"
  PROVE  PaymentAt(c)'
<1>1. PaymentAt(c) /\ (pc[c] = "idle" => view[c] = Unread /\ link[c] = None)
  BY JobsApart DEF PayInv, TypeOK
<1>2. CASE pc[c] = "idle"
  BY <1>1, <1>2 DEF PaymentAt, Rests, Unread
<1>3. CASE pc[c] # "idle"
  <2>1. invoice'[c] = invoice[c] /\ Payer(c)' = Payer(c)
    BY <1>3, BusyPayer, Steady DEF Payer
  <2>2. pc[c] = "commit" /\ link[c] # None => ref'[Payer(c)] # None
    BY KeptStay
  <2>3. Unread' = Unread
    BY DEF Unread
  <2> QED BY <1>1, <1>3, <2>1, <2>2, <2>3 DEF PaymentAt, Rests
<1> QED BY <1>2, <1>3

\* Nor where a refund's stands.
LEMMA RefundRests ==
  ASSUME PayInv, Next, NEW a \in Admins, Rests(a),
         pc[a] \in Returning => hand[a] \notin refunded'
  PROVE  RefundAt(a)'
<1>1. RefundAt(a)
  BY DEF PayInv
<1>2. pc[a] \in Chosen => /\ hand[a] \in Recorded' /\ Payer(hand[a])' = Payer(hand[a])
                          /\ Payer(hand[a]) \in Users
  <2> SUFFICES ASSUME pc[a] \in Chosen
               PROVE  /\ hand[a] \in Recorded' /\ Payer(hand[a])' = Payer(hand[a])
                      /\ Payer(hand[a]) \in Users
    OBVIOUS
  <2>1. /\ hand[a] \in Charges /\ hand[a] \in Rows /\ Payer(hand[a]) \in Users
        /\ hand[a] \in Recorded
    BY <1>1, ChosenPayer DEF RefundAt
  <2>2. update[hand[a]] # "none"
    BY <2>1, BusyPayer
  <2>3. invoice'[hand[a]] = invoice[hand[a]] /\ hand[a] \in Recorded' /\ hand'[a] = hand[a]
    BY <2>1, <2>2, Steady DEF Rests
  <2> QED BY <2>1, <2>3 DEF Payer
<1>3. pc[a] \in Returning => hand[a] \in returned'
  BY <1>1, Steady DEF RefundAt
<1>4. Writes(a)' = Writes(a)
  <2>1. a \notin Charges
    BY JobsApart
  <2> QED BY <2>1 DEF Writes, NewRows, RefundedRows, Rests, LessReward, Stripped, Free
<1>5. pc[a] \in {"inviter", "commit"} =>
        (users[Payer(hand[a])] # None => users'[Payer(hand[a])] # None)
  BY KeptStay
<1> DEFINE same == pc'[a] = pc[a] /\ view'[a] = view[a] /\ link'[a] = link[a] /\ hand'[a] = hand[a]
<1>7. same
  BY DEF Rests
<1>8. CASE pc[a] \in {"idle", "pick"}
  BY <1>1, <1>7, <1>8 DEF RefundAt, Chosen, Returning
<1>9. CASE pc[a] \in Chosen
  BY <1>1, <1>2, <1>3, <1>4, <1>5, <1>7, <1>9 DEF RefundAt, Chosen, Returning
<1> QED BY <1>1, <1>8, <1>9 DEF RefundAt

\* Who ends is nowhere.
LEMMA EndedAt ==
  ASSUME PayInv, NEW j \in Jobs, End(j)
  PROVE  /\ j \in Charges => PaymentAt(j)'
         /\ j \in Admins => RefundAt(j)'
<1>1. pc'[j] = "idle" /\ view'[j] = Unread /\ link'[j] = None
  BY EndForgets DEF PayInv, TypeOK
<1> QED BY <1>1 DEF PaymentAt, RefundAt, Chosen, Returning, Unread

\* Each step of a payment leads where it should.
LEMMA PaymentMoves ==
  ASSUME PayInv, Next, NEW c \in Charges, Pay(c) \/ ReadInviter(c)
  PROVE  PaymentAt(c)'
<1>0. /\ JobsTyped /\ TablesTyped /\ c \in Jobs /\ c \notin Admins /\ PaymentAt(c)
      /\ (pc[c] = "idle" => view[c] = Unread /\ link[c] = None)
  BY JobsApart DEF PayInv, TypeOK
<1>1. Unread' = Unread
  BY DEF Unread
<1>2. CASE End(c)
  BY <1>0, <1>2, EndedAt
<1>3. CASE Deliver(c)
  <2>1. pc'[c] = "insert" /\ pc[c] = "idle" /\ view' = view /\ link' = link /\ update'[c] = "taken"
    BY <1>0, <1>3, GotoTyped DEF Deliver, PaymentAt, TablesTyped
  <2> QED BY <1>0, <1>1, <2>1 DEF PaymentAt, Unread
<1>4. CASE Insert(c) /\ ~End(c)
  <2>1. pc'[c] = "user" /\ pc[c] = "insert" /\ view' = view /\ link' = link /\ update' = update
    BY <1>0, <1>4, GotoTyped DEF Insert, telegramVars
  <2> QED BY <1>0, <1>1, <2>1 DEF PaymentAt, Unread
<1>5. CASE ReadPayer(c)
  <2>1. /\ pc[c] = "user" /\ pc'[c] = IF invoice[c].discount THEN "referral" ELSE "commit"
        /\ link' = link /\ update' = update /\ invoice' = invoice
    BY <1>0, <1>5, GotoTyped DEF ReadPayer, telegramVars
  <2>2. Payer(c) \in Users /\ users[Payer(c)] # None
    BY <2>1, BusyPayer DEF PayInv, TypeOK, Open
  <2>3. view'[c] = [Unread EXCEPT ![Payer(c)] = users[Payer(c)]]
    BY <1>0, <1>5, <2>1, <2>2, ViewsTyped DEF ReadPayer, PaymentAt
  <2>4. Payer(c)' = Payer(c)
    BY <2>1 DEF Payer
  <2> QED BY <1>0, <2>1, <2>2, <2>3, <2>4 DEF PaymentAt, Unread
<1>6. CASE ReadReferral(c)
  <2>1. /\ pc[c] = "referral" /\ view' = view /\ update' = update /\ invoice' = invoice
        /\ ref' = ref
    BY <1>6 DEF ReadReferral, telegramVars, tableVars
  <2>2. Payer(c) \in Users /\ Payer(c)' = Payer(c) /\ link[c] = None
    BY <1>0, <2>1, BusyPayer DEF Payer, PaymentAt
  <2>3. CASE Unclaimed(Payer(c))
    <3>1. link'[c] = ref[Payer(c)].inviter /\ pc'[c] = "inviter"
      BY <1>0, <1>6, <2>3, GotoTyped DEF ReadReferral, JobsTyped
    <3>2. link'[c] # Payer(c) /\ link'[c] # None
      <4>1. ref[Payer(c)] # None
        BY <2>3 DEF Unclaimed
      <4>2. link'[c] \in Users
        BY <2>2, <3>1, <4>1, ReferralTyped
      <4> QED BY <2>2, <3>1, <4>1, <4>2, PaymentConstants DEF PayInv, RefsSound
    <3> QED BY <1>0, <2>1, <2>2, <3>1, <3>2 DEF PaymentAt
  <2>4. CASE ~Unclaimed(Payer(c))
    <3>1. link' = link /\ pc'[c] = "commit"
      BY <1>0, <1>6, <2>4, GotoTyped DEF ReadReferral
    <3> QED BY <1>0, <2>1, <2>2, <3>1 DEF PaymentAt
  <2> QED BY <2>3, <2>4
<1>7. CASE ReadInviter(c)
  <2>1. /\ pc[c] = "inviter" /\ pc'[c] = "commit" /\ link' = link /\ ref[Payer(c)] # None
        /\ update' = update /\ invoice' = invoice /\ ref' = ref
    BY <1>0, <1>7, GotoTyped DEF ReadInviter, telegramVars, tableVars
  <2>2. Payer(c)' = Payer(c) /\ Payer(c) \in Users /\ link[c] \in Users /\ link[c] # Payer(c)
    BY <1>0, <2>1, BusyPayer DEF Payer, PaymentAt, JobsTyped
  <2>3. /\ view'[c] = [view[c] EXCEPT ![link[c]] = users[link[c]]]
        /\ view[c] \in [Users -> UserRows \cup {None}]
    BY <1>0, <1>7, <2>2, ViewsTyped DEF ReadInviter, JobsTyped
  <2> QED BY <1>0, <2>1, <2>2, <2>3 DEF PaymentAt
<1> QED BY <1>2, <1>3, <1>4, <1>5, <1>6, <1>7 DEF Pay, CommitPayment, PaymentFails

\* Each step of a refund, too.
LEMMA RefundMoves ==
  ASSUME PayInv, Next, NEW a \in Admins, Refund(a) \/ ReadInviter(a)
  PROVE  RefundAt(a)'
<1>0. /\ JobsTyped /\ TablesTyped /\ a \in Jobs /\ a \notin Charges /\ RefundAt(a)
      /\ (pc[a] = "idle" => view[a] = Unread /\ link[a] = None)
  BY JobsApart DEF PayInv, TypeOK
<1>1. CASE End(a)
  BY <1>0, <1>1, EndedAt
<1>2. ASSUME NEW u \in Users, StartRefund(a, u)
      PROVE  RefundAt(a)'
  <2>1. pc'[a] = "pick" /\ pc[a] = "idle" /\ hand'[a] = u /\ link' = link /\ users[u] # None
    BY <1>0, <1>2, GotoTyped DEF StartRefund, JobsTyped
  <2>2. view'[a] = [Unread EXCEPT ![u] = users[u]]
    BY <1>0, <1>2, <2>1, ViewsTyped DEF StartRefund
  <2> QED BY <1>0, <2>1, <2>2 DEF RefundAt, Chosen, Returning, Unread
<1>3. CASE PickPayment(a) /\ ~End(a)
  <2>1. pc'[a] = "call" /\ pc[a] = "pick" /\ view' = view /\ link' = link /\ invoice' = invoice
    BY <1>0, <1>3, GotoTyped DEF PickPayment, telegramVars
  <2>2. hand'[a] \in Recorded /\ owner[hand'[a]] = hand[a] /\ hand[a] \in Users
    BY <1>0, <1>3, <2>1 DEF PickPayment, Refundable, RefundAt, JobsTyped
  <2>3. Payer(hand'[a]) = hand[a]
    BY <2>2, PaymentConstants DEF PayInv, Invoiced, Recorded, Rows
  <2>4. Payer(hand[a])' = hand[a] /\ hand'[a] \in Recorded'
    BY <2>1, <2>2, <2>3, Steady DEF Payer
  <2> QED BY <1>0, <2>1, <2>3, <2>4 DEF RefundAt, Chosen, Returning
<1>4. CASE CallTelegram(a) /\ ~End(a)
  <2>1. /\ pc'[a] = "find" /\ pc[a] = "call" /\ view' = view /\ link' = link /\ hand' = hand
        /\ invoice' = invoice /\ refunded' = refunded
        /\ hand[a] \in returned' /\ hand[a] \notin returned
    BY <1>0, <1>4, GotoTyped DEF CallTelegram, Accepts, tableVars
  <2>2. hand[a] \notin refunded'
    BY <2>1 DEF PayInv, TablesSound
  <2>3. Payer(hand[a])' = Payer(hand[a]) /\ hand[a] \in Recorded'
    BY <1>0, <2>1, Steady DEF Payer, RefundAt, Chosen, Returning
  <2> QED BY <1>0, <2>1, <2>2, <2>3 DEF RefundAt, Chosen, Returning
<1>5. CASE FindReferral(a)
  <2>1. /\ pc[a] = "find" /\ view' = view /\ hand' = hand /\ users' = users
        /\ invoice' = invoice /\ refunded' = refunded /\ returned' = returned
    BY <1>5 DEF FindReferral, tableVars, telegramVars
  <2>2. Payer(hand[a])' = Payer(hand[a]) /\ hand[a] \in Recorded' /\ Payer(hand[a]) \in Users
    BY <1>0, <2>1, ChosenPayer, Steady DEF Payer, RefundAt, Chosen, Returning
  <2>3. /\ pc'[a] \in {"inviter", "commit"} /\ link[a] = None
        /\ link'[a] # Payer(hand[a])
        /\ pc'[a] = "inviter" => link'[a] # None
    <3>0. link[a] = None
      BY <1>0, <2>1 DEF RefundAt
    <3>1. CASE ClaimedBy(hand[a]) = {}
      <4>1. pc'[a] = "commit" /\ link' = link
        BY <1>0, <1>5, <3>1, GotoTyped DEF FindReferral
      <4> QED BY <2>2, <3>0, <4>1, PaymentConstants
    <3>2. ASSUME NEW u \in ClaimedBy(hand[a]), link' = [link EXCEPT ![a] = ref[u].inviter],
                 Goto(a, "inviter")
          PROVE  /\ pc'[a] = "inviter" /\ link'[a] # Payer(hand[a]) /\ link'[a] # None
      <4>1. pc'[a] = "inviter" /\ link'[a] = ref[u].inviter
        BY <1>0, <3>2, GotoTyped DEF JobsTyped
      <4>2. u \in Users /\ ref[u] # None /\ ref[u].charge = hand[a] /\ hand[a] \in Charges
        BY <2>1, ChosenPayer DEF ClaimedBy, Chosen, Returning
      <4>3. Payer(hand[a]) = u /\ ref[u].inviter # u
        BY <4>2, PaymentConstants DEF PayInv, RefsSound
      <4>4. ref[u].inviter \in Users
        BY <4>2, ReferralTyped
      <4> QED BY <4>1, <4>3, <4>4, PaymentConstants
    <3> QED BY <1>5, <3>0, <3>1, <3>2 DEF FindReferral
  <2>4. Payer(hand[a]) \in Writes(a)' => users[Payer(hand[a])] # None
    <3> DEFINE p == Payer(hand[a])
    <3>1. p \in Writes(a)' => view[a][p] # None /\ Stripped(view[a][p]) # view[a][p]
      BY <1>0, <2>1, <2>2, <2>3 DEF Writes, NewRows, RefundedRows, Stripped, Free
    <3>2. view[a][p] # None /\ Stripped(view[a][p]) # view[a][p] => p \in Writes(a)
      BY <1>0, <2>2, <2>3, PaymentConstants DEF Writes, NewRows, RefundedRows
    <3>3. Wants(a) = Writes(a)
      BY <2>1 DEF Wants, Holds, Flushed
    <3> QED BY <1>5, <3>1, <3>2, <3>3 DEF FindReferral, Misses
  <2>5. \A u \in Users : view[a][u] # None => u = Payer(hand[a])
    BY <1>0, <2>1 DEF RefundAt, Chosen, Returning
  <2> QED BY <1>0, <2>1, <2>2, <2>3, <2>4, <2>5 DEF RefundAt, Chosen, Returning
<1>6. CASE ReadInviter(a)
  <2>1. /\ pc[a] = "inviter" /\ pc'[a] = "commit" /\ link' = link /\ hand' = hand
        /\ users' = users /\ invoice' = invoice /\ refunded' = refunded /\ returned' = returned
    BY <1>0, <1>6, GotoTyped DEF ReadInviter, telegramVars, tableVars
  <2>2. /\ Payer(hand[a])' = Payer(hand[a]) /\ hand[a] \in Recorded' /\ Payer(hand[a]) \in Users
        /\ link[a] \in Users /\ link[a] # Payer(hand[a])
    BY <1>0, <2>1, ChosenPayer, Steady DEF Payer, RefundAt, Chosen, Returning, JobsTyped
  <2>3. /\ view'[a] = [view[a] EXCEPT ![link[a]] = users[link[a]]]
        /\ view[a] \in [Users -> UserRows \cup {None}]
    BY <1>0, <1>6, <2>2, ViewsTyped DEF ReadInviter, JobsTyped
  <2>4. Payer(hand[a]) \in Writes(a)' => Payer(hand[a]) \in Writes(a)
    BY <1>0, <2>1, <2>2, <2>3 DEF Writes, NewRows, RefundedRows, Stripped, Free
  <2> QED BY <1>0, <2>1, <2>2, <2>3, <2>4 DEF RefundAt, Chosen, Returning
<1> QED BY <1>1, <1>2, <1>3, <1>4, <1>5, <1>6 DEF Refund, CommitRefund, RefundFails

\* So all of them are where they should be after any step.
LEMMA HandlersStay ==
  ASSUME PayInv, Next
  PROVE  /\ \A c \in Charges : PaymentAt(c)'
         /\ \A a \in Admins : RefundAt(a)'
<1>0. JobsTyped /\ TablesTyped /\ Apart
  BY DEF PayInv, TypeOK
<1>1. ASSUME NEW c \in Charges, Pay(c) \/ ReadInviter(c)
      PROVE  /\ \A d \in Charges : PaymentAt(d)'
             /\ \A a \in Admins : RefundAt(a)'
  <2>1. OnlyMoves(c)
    BY <1>0, <1>1, EndForgets, JobsApart DEF Pay, Deliver, Insert, ReadPayer, ReadReferral,
       CommitPayment, PaymentFails, ReadInviter, Goto, Read, OnlyMoves, JobsTyped
  <2>2. refunded' = refunded /\ \A d \in Charges \ {c} : update'[d] = update[d]
    BY <1>0, <1>1 DEF Pay, Deliver, Insert, ReadPayer, ReadReferral, CommitPayment,
       PaymentFails, ReadInviter, tableVars, telegramVars, TablesTyped
  <2>3. \A d \in Charges \ {c} : PaymentAt(d)'
    BY <2>1, <2>2, PaymentRests, JobsApart DEF OnlyMoves, Rests, PayInv, PaymentAt
  <2>4. \A a \in Admins : RefundAt(a)'
    BY <2>1, <2>2, RefundRests, JobsApart DEF OnlyMoves, Rests, PayInv, RefundAt
  <2> QED BY <1>1, <2>3, <2>4, PaymentMoves
<1>2. ASSUME NEW a \in Admins, Refund(a) \/ ReadInviter(a)
      PROVE  /\ \A d \in Charges : PaymentAt(d)'
             /\ \A b \in Admins : RefundAt(b)'
  <2>1. OnlyMoves(a)
    BY <1>0, <1>2, EndForgets, JobsApart DEF Refund, StartRefund, PickPayment, CallTelegram,
       FindReferral, CommitRefund, RefundFails, ReadInviter, Goto, Read, OnlyMoves, JobsTyped
  <2>2. update' = update
    BY <1>2 DEF Refund, StartRefund, PickPayment, CallTelegram, FindReferral, CommitRefund,
       RefundFails, ReadInviter, telegramVars
  <2>3. \A b \in Admins \ {a} : pc[b] \in Returning => hand[b] \notin refunded'
    <3>1. CASE CommitRefund(a)
      <4>1. pc[a] \in Returning /\ refunded' = refunded \cup {hand[a]}
        BY <3>1 DEF CommitRefund, Returning
      <4> QED BY <1>0, <4>1 DEF Apart, PayInv, RefundAt
    <3>2. CASE ~CommitRefund(a)
      <4>1. refunded' = refunded
        BY <1>2, <3>2 DEF Refund, StartRefund, PickPayment, CallTelegram, FindReferral,
           RefundFails, ReadInviter, tableVars
      <4> QED BY <4>1 DEF PayInv, RefundAt
    <3> QED BY <3>1, <3>2
  <2>4. \A d \in Charges : PaymentAt(d)'
    BY <2>1, <2>2, PaymentRests, JobsApart DEF OnlyMoves, Rests, PayInv, PaymentAt
  <2>5. \A b \in Admins \ {a} : RefundAt(b)'
    BY <2>1, <2>3, RefundRests, JobsApart DEF OnlyMoves, Rests
  <2> QED BY <1>2, <2>4, <2>5, RefundMoves
<1>3. CASE Outside
  <2>1. \A k \in Jobs : Rests(k)
    BY <1>3, OutsideMoves DEF jobVars, Rests
  <2>2. refunded' = refunded /\ \A c \in Charges : update[c] = "taken" => update'[c] = "taken"
    BY <1>0, <1>3 DEF Outside, StartBot, DeleteMe, Refer, PreCheckout, ReaperReads,
       ReaperWrites, ReaperFails, Tick, tableVars, telegramVars, TablesTyped
  <2> QED BY <2>1, <2>2, PaymentRests, RefundRests, JobsApart DEF PayInv, PaymentAt, RefundAt
<1>4. CASE Crash
  <2>1. \A k \in Jobs : pc'[k] = "idle" /\ view'[k] = Unread /\ link'[k] = None
    BY <1>4 DEF Crash
  <2> QED BY <2>1, JobsApart DEF PaymentAt, RefundAt, Chosen, Returning, Unread
<1> QED BY <1>1, <1>2, <1>3, <1>4, JobsApart DEF Next, Outside

-----------------------------------------------------------------------------
(* The invariant holds *)

\* Every step keeps it, and one that changes nothing does.
LEMMA PayInvStays ==
  ASSUME PayInv, [Next]_vars
  PROVE  PayInv'
<1>1. CASE Next
  BY <1>1, TypesStay, InvoicedStays, ApartStays, RefsStay, CountsStay, TablesStay,
     HandlersStay DEF PayInv
<1>2. CASE UNCHANGED vars
  <2>1. /\ UNCHANGED tableVars /\ UNCHANGED telegramVars /\ UNCHANGED jobVars
        /\ UNCHANGED reaperVars /\ UNCHANGED histVars /\ upsets' = upsets
    BY <1>2 DEF vars
  <2> USE DEF tableVars, telegramVars, jobVars, reaperVars, histVars
  <2>2. Rows' = Rows /\ Recorded' = Recorded
    BY <2>1 DEF Rows, Recorded, Open
  <2>3. TypeOK'
    BY <2>1, <2>2 DEF PayInv, TypeOK, TablesTyped, JobsTyped, HistoryTyped, Open, Payer, Unread
  <2>4. Invoiced' /\ Apart' /\ RefsSound'
    BY <2>1, <2>2 DEF PayInv, Invoiced, Apart, RefsSound, Payer
  <2>5. CountsSound' /\ TablesSound'
    BY <2>1, <2>2 DEF PayInv, CountsSound, TablesSound
  <2>6. \A c \in Charges : PaymentAt(c)'
    BY <2>1 DEF PayInv, PaymentAt, Payer, Unread
  <2>7. \A a \in Admins : RefundAt(a)'
    <3> TAKE a \in Admins
    <3>1. Writes(a)' = Writes(a)
      BY <2>1 DEF Writes, NewRows, PaidRows, RefundedRows, Payer, LessReward, Stripped, Free
    <3> QED BY <2>1, <2>2, <3>1 DEF PayInv, RefundAt, Payer
  <2> QED BY <2>3, <2>4, <2>5, <2>6, <2>7 DEF PayInv
<1> QED BY <1>1, <1>2

\* At the start nothing is recorded and no handler runs.
LEMMA PayInvInit ==
  ASSUME Init
  PROVE  PayInv
<1>1. Rows = {} /\ Recorded = {}
  BY DEF Init, Rows, Recorded
<1>2. \A j \in Jobs : pc[j] = "idle" /\ view[j] = Unread /\ link[j] = None
  BY DEF Init
<1>3. TablesTyped
  BY <1>1 DEF Init, TablesTyped, Free, UserRows
<1>4. JobsTyped
  BY DEF Init, JobsTyped, Unread
<1>5. HistoryTyped
  BY PaymentConstants DEF Init, HistoryTyped
<1>6. TypeOK
  BY <1>2, <1>3, <1>4, <1>5, JobsApart DEF TypeOK, Open
<1>7. Invoiced /\ RefsSound /\ CountsSound
  BY <1>1 DEF Init, Invoiced, RefsSound, CountsSound
<1>8. \A u \in Users : users[u] # None
  BY NoneIsNoRow DEF Init, Free, UserRows
<1>9. Apart /\ TablesSound
  BY <1>1, <1>2, <1>8, JobsApart DEF Init, Apart, TablesSound, Returning
<1>10. (\A c \in Charges : PaymentAt(c)) /\ (\A a \in Admins : RefundAt(a))
  BY <1>2, JobsApart DEF PaymentAt, RefundAt, Chosen, Returning, Unread
<1> QED BY <1>6, <1>7, <1>9, <1>10 DEF PayInv

\* The inductive invariant is one of the specification.
LEMMA PayInvHolds == Spec => []PayInv
  BY PayInvInit, PayInvStays, PTL DEF Spec

-----------------------------------------------------------------------------
(* The theorems *)

\* Every variable keeps its type, an open payment has its row and its payer, and a
\* handler that has ended remembers nothing.
THEOREM TypeCorrect == Spec => []TypeOK
<1>1. PayInv => TypeOK
  BY DEF PayInv
<1> QED BY <1>1, PayInvHolds, PTL

\* No payment is marked refunded whose Stars Telegram has not returned
\* (src/bot/main.py:1268), whatever raises or crashes in between.
THEOREM RefundsAreReturned == Spec => []RefundedIsReturned
<1>1. PayInv => RefundedIsReturned
  BY DEF PayInv, TablesSound, RefundedIsReturned
<1> QED BY <1>1, PayInvHolds, PTL

\* Only its COMMIT, which makes it visible, counts a payment.
LEMMA GrantStays ==
  ASSUME PayInv, GrantedIsRecorded, [Next]_vars
  PROVE  GrantedIsRecorded'
<1>0. granted \in [Charges -> Nat]
  BY DEF PayInv, TypeOK, HistoryTyped
<1>1. ASSUME granted' = granted, Recorded' = Recorded
      PROVE  GrantedIsRecorded'
  BY <1>1 DEF GrantedIsRecorded
<1>2. ASSUME NEW c \in Charges, CommitPayment(c)
      PROVE  GrantedIsRecorded'
  <2>1. Recorded' = Recorded \cup {c} /\ c \notin Recorded
    BY <1>2, CommitRows
  <2>2. granted' = [granted EXCEPT ![c] = @ + 1]
    BY <1>2 DEF CommitPayment
  <2> QED BY <1>0, <2>1, <2>2 DEF GrantedIsRecorded
<1>3. ASSUME NEW c \in Charges, Insert(c) \/ PaymentFails(c)
      PROVE  GrantedIsRecorded'
  BY <1>1, <1>3, InsertRows, FailRows DEF Insert, PaymentFails, histVars
<1>4. CASE Crash
  BY <1>1, <1>4, CrashRows DEF Crash
<1>5. ASSUME NEW c \in Charges, Deliver(c) \/ ReadPayer(c) \/ ReadReferral(c)
      PROVE  GrantedIsRecorded'
  BY <1>1, <1>5, OtherRows, JobsApart DEF Deliver, ReadPayer, ReadReferral, histVars
<1>6. ASSUME NEW j \in Jobs, ReadInviter(j) \/ (j \in Admins /\ Refund(j))
      PROVE  GrantedIsRecorded'
  BY <1>1, <1>6, OtherRows DEF ReadInviter, Refund, StartRefund, PickPayment, CallTelegram,
     FindReferral, CommitRefund, RefundFails, histVars
<1>7. CASE Outside \/ UNCHANGED vars
  <2>1. ledger' = ledger /\ pc' = pc /\ granted' = granted
    BY <1>7, OutsideMoves DEF Outside, StartBot, DeleteMe, Refer, PreCheckout, ReaperReads,
       ReaperWrites, ReaperFails, Tick, tableVars, jobVars, histVars, vars
  <2>2. Recorded' = Recorded
    BY <2>1 DEF Rows, Recorded, Open
  <2> QED BY <1>1, <2>1, <2>2
<1> QED BY <1>2, <1>3, <1>4, <1>5, <1>6, <1>7, JobsApart DEF Next, Pay, Outside

\* A charge extends a tier once if its payment is recorded, and never otherwise,
\* however often its update is delivered and whatever fails (src/bot/main.py:939-940).
THEOREM GrantsAreRecorded == Spec => []GrantedIsRecorded
<1>1. Init => GrantedIsRecorded
  BY DEF Init, GrantedIsRecorded, Recorded, Rows
<1>2. PayInv /\ GrantedIsRecorded /\ [Next]_vars => GrantedIsRecorded'
  BY GrantStays
<1> QED BY <1>1, <1>2, PayInvHolds, PTL DEF Spec

\* A handler that ends without an error leaves a row, or had a payer who had gone.
LEMMA AnswerStays ==
  ASSUME PayInv, MemberPaymentRecorded, [Next]_vars
  PROVE  MemberPaymentRecorded'
<1>0. TypeOK /\ TablesTyped /\ JobsTyped /\ HistoryTyped
  BY DEF PayInv, TypeOK
<1>1. ASSUME Next
      PROVE  \A d \in Charges : update[d] # "none" => Payer(d)' = Payer(d)
  BY <1>1, Steady DEF Payer
<1>2. ASSUME NEW c \in Charges, Pay(c)
      PROVE  MemberPaymentRecorded'
  <2>0. Next /\ c \in Jobs
    BY <1>2, JobsApart DEF Next
  <2>1. /\ \A d \in Charges \ {c} : pc'[d] = pc[d] /\ update'[d] = update[d]
        /\ left' = left
    BY <1>0, <1>2, <2>0, EndForgets, JobsApart DEF Pay, Deliver, Insert, ReadPayer, ReadReferral,
       CommitPayment, PaymentFails, Goto, OnlyMoves, JobsTyped, TablesTyped, telegramVars,
       histVars
  <2>2. \A d \in Charges \ {c} : d \in Rows \cup failed => d \in Rows' \cup failed'
    <3>1. CASE Insert(c)
      BY <3>1, InsertRows DEF Insert, histVars
    <3>2. CASE CommitPayment(c)
      BY <3>2, CommitRows DEF CommitPayment
    <3>3. CASE PaymentFails(c)
      BY <3>3, FailRows DEF PaymentFails
    <3>4. CASE Deliver(c) \/ ReadPayer(c) \/ ReadReferral(c)
      BY <2>0, <3>4, OtherRows DEF Deliver, ReadPayer, ReadReferral, histVars
    <3> QED BY <1>2, <3>1, <3>2, <3>3, <3>4 DEF Pay
  <2>3. pc'[c] = "idle" => c \in Rows' \cup failed' \/ Payer(c)' \in left'
    <3>1. CASE Insert(c) /\ (Known(c) \/ users[Payer(c)] = None)
      <4>1. Payer(c) \in Users /\ Payer(c)' = Payer(c)
        BY <3>1, BusyPayer DEF Insert, telegramVars, Payer
      <4>2. Known(c) => c \in Rows'
        BY <3>1, InsertRows DEF Known
      <4> QED BY <2>1, <3>1, <4>1, <4>2 DEF PayInv, TablesSound
    <3>2. CASE CommitPayment(c)
      BY <3>2, CommitRows
    <3>3. CASE PaymentFails(c)
      BY <3>3 DEF PaymentFails
    <3>4. CASE (Insert(c) /\ ~(Known(c) \/ users[Payer(c)] = None))
                 \/ Deliver(c) \/ ReadPayer(c) \/ ReadReferral(c)
      BY <1>0, <2>0, <3>4, GotoTyped DEF Insert, Deliver, ReadPayer, ReadReferral
    <3> QED BY <1>2, <3>1, <3>2, <3>3, <3>4 DEF Pay
  <2>4. \A d \in Charges \ {c} : update[d] = "taken" => Payer(d)' = Payer(d)
    BY <1>1, <2>0
  <2> QED BY <2>1, <2>2, <2>3, <2>4 DEF MemberPaymentRecorded, Answered
<1>3. CASE Crash
  <2>1. PICK again \in SUBSET {c \in Charges : update[c] = "taken"} :
          /\ update' = [c \in Charges |-> IF c \in again THEN "due" ELSE update[c]]
          /\ failed' = failed \cup ((Busy \cap Charges) \ again)
    BY <1>3 DEF Crash
  <2> SUFFICES ASSUME NEW c \in Charges, Answered(c)'
               PROVE  c \in Rows' \cup failed' \/ Payer(c)' \in left'
    BY DEF MemberPaymentRecorded
  <2>2. update[c] = "taken" /\ c \notin again
    BY <2>1 DEF Answered
  <2>3. Payer(c)' = Payer(c) /\ left' = left /\ Rows' = Recorded
    BY <1>3, CrashRows DEF Crash, Payer
  <2>4. CASE pc[c] = "idle"
    <3>1. c \in Rows => c \in Recorded
      BY <2>4 DEF Recorded, Open
    <3> QED BY <2>1, <2>2, <2>3, <2>4, <3>1 DEF MemberPaymentRecorded, Answered
  <2>5. CASE pc[c] # "idle"
    BY <2>1, <2>2, <2>5, JobsApart DEF Busy
  <2> QED BY <2>4, <2>5
<1>4. ASSUME NEW j \in Jobs, ReadInviter(j) \/ (j \in Admins /\ Refund(j))
      PROVE  MemberPaymentRecorded'
  <2>1. Rows' = Rows
    BY <1>4, OtherRows
  <2>2. failed' = failed /\ left' = left /\ update' = update /\ invoice' = invoice
    BY <1>4 DEF ReadInviter, Refund, StartRefund, PickPayment, CallTelegram, FindReferral,
       CommitRefund, RefundFails, histVars, telegramVars
  <2>3. \A c \in Charges : pc'[c] = "idle" => pc[c] = "idle"
    <3>1. \A k \in Jobs \ {j} : pc'[k] = pc[k]
      BY <1>4, OtherRows
    <3>2. j \in Charges => pc'[j] = "commit"
      BY <1>0, <1>4, JobsApart, GotoTyped DEF ReadInviter
    <3> QED BY <3>1, <3>2, JobsApart
  <2> QED BY <2>1, <2>2, <2>3 DEF MemberPaymentRecorded, Answered, Payer
<1>5. CASE Outside
  <2>1. ledger' = ledger /\ pc' = pc /\ failed' = failed /\ left \subseteq left'
    BY <1>5, OutsideMoves DEF Outside, StartBot, DeleteMe, Refer, PreCheckout, ReaperReads,
       ReaperWrites, ReaperFails, Tick, tableVars, jobVars, histVars
  <2>2. \A c \in Charges : update'[c] = "taken" => update[c] = "taken"
    BY <1>0, <1>5 DEF Outside, StartBot, DeleteMe, Refer, PreCheckout, ReaperReads,
       ReaperWrites, ReaperFails, Tick, telegramVars, TablesTyped
  <2>3. Next
    BY <1>5 DEF Outside, Next
  <2> QED BY <1>1, <2>1, <2>2, <2>3 DEF MemberPaymentRecorded, Answered, Rows
<1>6. CASE UNCHANGED vars
  BY <1>6 DEF vars, tableVars, telegramVars, jobVars, histVars, MemberPaymentRecorded,
     Answered, Rows, Payer
<1> QED BY <1>2, <1>3, <1>4, <1>5, <1>6, JobsApart DEF Next, Outside

\* A charge that was handled without an error is in the table (src/bot/main.py:926-927),
\* or its payer has deleted the account.
THEOREM PaymentsAreRecorded == Spec => []MemberPaymentRecorded
<1>1. Init => MemberPaymentRecorded
  BY DEF Init, MemberPaymentRecorded, Answered
<1>2. PayInv /\ MemberPaymentRecorded /\ [Next]_vars => MemberPaymentRecorded'
  BY AnswerStays
<1> QED BY <1>1, <1>2, PayInvHolds, PTL DEF Spec

-----------------------------------------------------------------------------
(* Rewards *)

\* A payment that has seen an unclaimed referral has it to itself.
LinkSound ==
  \A c \in Charges : link[c] # None =>
    /\ ref[Payer(c)] # None
    /\ ref[Payer(c)].charge = None /\ ref[Payer(c)].inviter = link[c]
    /\ pc[c] = "commit" => view[c][link[c]] # None

\* A refund that has found a referral has it to itself.
FoundSound ==
  \A a \in Admins : link[a] # None =>
    /\ ref[Payer(hand[a])] # None
    /\ ref[Payer(hand[a])].charge = hand[a] /\ ref[Payer(hand[a])].inviter = link[a]

\* The charge that claims a referral has rewarded its inviter, and a charge that has
\* rewarded someone claims the referral of its payer until it is refunded.
ClaimSound ==
  /\ \A c \in Recorded \ refunded : rewarded[c] # None =>
       ref[Payer(c)] # None /\ ref[Payer(c)].charge = c
  /\ \A u \in Users : ref[u] # None /\ ref[u].charge # None =>
       rewarded[ref[u].charge] = ref[u].inviter

\* A payment is past the SELECT of the referral.
Claiming(c) == pc[c] \in {"inviter", "commit"} /\ invoice[c].discount

\* Of the payments of one guest only one is.
OneClaimer ==
  \A c, d \in Charges : Claiming(c) /\ Claiming(d) /\ Payer(c) = Payer(d) => c = d

RewardInv ==
  OneClaimer /\ (left = {} => LinkSound /\ FoundSound /\ ClaimSound) /\ RewardedOnce

\* Days that are added change a row.
LEMMA PayerWritten ==
  ASSUME PayInv, NEW c \in Charges, pc[c] \in {"referral", "inviter", "commit"}
  PROVE  Payer(c) \in Writes(c)
<1>1. Payer(c) \in Users /\ view[c][Payer(c)] # None
  BY BusyPayer DEF PayInv, PaymentAt
<1>2. view[c][Payer(c)] \in UserRows
  BY <1>1, NewRowsTyped, JobsApart
<1>3. view[c][Payer(c)].until \in Nat \cup {None}
  BY <1>2 DEF UserRows
<1>4. Extended(view[c][Payer(c)], Term).until # view[c][Payer(c)].until
  BY <1>3, PaymentConstants DEF Extended
<1>5. NewRows(c)[Payer(c)] = Extended(view[c][Payer(c)], Term)
  BY <1>1 DEF NewRows, PaidRows
<1> QED BY <1>1, <1>4, <1>5 DEF Writes

\* Only the SELECT of the referral takes a payment past it.
LEMMA ClaimingStays ==
  ASSUME PayInv, Next, NEW c \in Charges, Claiming(c)'
  PROVE  (Claiming(c) \/ ReadReferral(c)) /\ Payer(c)' = Payer(c)
<1>0. JobsTyped /\ c \in Jobs /\ c \notin Admins
  BY JobsApart DEF PayInv, TypeOK
<1>1. ASSUME invoice'[c] = invoice[c], pc'[c] = pc[c] \/ pc[c] = "inviter"
      PROVE  Claiming(c) /\ Payer(c)' = Payer(c)
  BY <1>1 DEF Claiming, Payer
<1>2. CASE Pay(c)
  <2>1. invoice' = invoice
    BY <1>2 DEF Pay, Deliver, Insert, ReadPayer, ReadReferral, CommitPayment, PaymentFails,
                telegramVars
  <2>2. CASE End(c)
    BY <1>0, <2>2, EndForgets DEF Claiming
  <2>3. CASE Deliver(c) \/ ReadPayer(c) \/ (Insert(c) /\ ~End(c))
    BY <1>0, <2>1, <2>3, GotoTyped DEF Deliver, ReadPayer, Insert, Claiming
  <2>4. CASE ReadReferral(c)
    BY <2>1, <2>4 DEF Payer
  <2> QED BY <1>2, <2>2, <2>3, <2>4 DEF Pay, CommitPayment, PaymentFails
<1>3. CASE ReadInviter(c)
  BY <1>1, <1>3 DEF ReadInviter, telegramVars
<1>4. CASE Crash
  BY <1>0, <1>4 DEF Crash, Claiming
<1>5. ASSUME NEW j \in Jobs \ {c}, ReadInviter(j) \/ (j \in Charges /\ Pay(j))
                                    \/ (j \in Admins /\ Refund(j))
      PROVE  Claiming(c) /\ Payer(c)' = Payer(c)
  <2>1. invoice' = invoice
    BY <1>5 DEF ReadInviter, Pay, Deliver, Insert, ReadPayer, ReadReferral, CommitPayment,
       PaymentFails, Refund, StartRefund, PickPayment, CallTelegram, FindReferral,
       CommitRefund, RefundFails, telegramVars
  <2>2. pc'[c] = pc[c]
    BY <1>0, <1>5, EndForgets DEF ReadInviter, Pay, Deliver, Insert, ReadPayer, ReadReferral,
       CommitPayment, PaymentFails, Refund, StartRefund, PickPayment, CallTelegram,
       FindReferral, CommitRefund, RefundFails, Goto, OnlyMoves, JobsTyped
  <2> QED BY <1>1, <2>1, <2>2
<1>6. CASE Outside
  <2>1. pc'[c] = pc[c]
    BY <1>6, OutsideMoves DEF jobVars
  <2>2. invoice'[c] = invoice[c]
    BY <2>1, BusyPayer, Steady DEF Claiming
  <2> QED BY <1>1, <2>1, <2>2
<1> QED BY <1>0, <1>2, <1>3, <1>4, <1>5, <1>6, JobsApart DEF Next, Outside

\* The lock on the payer's row keeps a second payment before the SELECT of the referral.
LEMMA OneClaimerStays ==
  ASSUME PayInv, OneClaimer, Next
  PROVE  OneClaimer'
<1>1. ASSUME NEW c \in Charges, NEW d \in Charges, Claiming(d), ReadReferral(c),
             Payer(c) = Payer(d), c # d
      PROVE  FALSE
  <2>1. Payer(c) \in Writes(c) /\ Payer(c) \in Writes(d)
    BY <1>1, PayerWritten DEF Claiming, ReadReferral
  <2>2. Payer(c) \in Holds(d)
    BY <1>1, <2>1 DEF Holds, Flushed, Claiming, Subject
  <2>3. Payer(c) \in Wants(c)
    BY <1>1, <2>1 DEF Wants, Holds, Flushed, ReadReferral
  <2>4. Waits(c, d) /\ d \in Jobs
    BY <1>1, <2>2, <2>3, JobsApart DEF Waits
  <2> QED BY <1>1, <2>4 DEF ReadReferral, Blocked
<1>2. ASSUME NEW c \in Charges, NEW d \in Charges, ReadReferral(c), ReadReferral(d)
      PROVE  c = d
  BY <1>2, EndForgets, JobsApart DEF ReadReferral, Goto, PayInv, TypeOK, JobsTyped
<1> QED BY <1>1, <1>2, ClaimingStays DEF OneClaimer

\* What a COMMIT does to referrals and rewards.
LEMMA CommitClaims ==
  ASSUME PayInv, LinkSound, NEW c \in Charges, CommitPayment(c)
  PROVE  /\ Payer(c) \in Users /\ invoice' = invoice /\ refunded' = refunded
         /\ \A u \in Users \ {Payer(c)} : ref'[u] = ref[u]
         /\ \A d \in Charges \ {c} : rewarded'[d] = rewarded[d]
         /\ link[c] = None => ref' = ref /\ rewarded' = rewarded
         /\ link[c] # None =>
              /\ ref'[Payer(c)] # None /\ ref'[Payer(c)].charge = c
              /\ ref'[Payer(c)].inviter = link[c] /\ rewarded'[c] = link[c]
<1>1. pc[c] = "commit" /\ Payer(c) \in Users /\ invoice' = invoice /\ refunded' = refunded
  BY BusyPayer DEF CommitPayment, telegramVars
<1>2. rewarded \in [Charges -> Users \cup {None}]
  BY DEF PayInv, TypeOK, HistoryTyped
<1>3. CASE link[c] = None
  BY <1>1, <1>3 DEF CommitPayment
<1>4. CASE link[c] # None
  <2>1. /\ ref[Payer(c)] # None /\ ref[Payer(c)].inviter = link[c]
        /\ view[c][link[c]] # None
    BY <1>1, <1>4 DEF LinkSound
  <2>2. /\ ref'[Payer(c)] # None /\ ref'[Payer(c)].inviter = link[c]
        /\ ref'[Payer(c)].charge = c
        /\ \A u \in Users \ {Payer(c)} : ref'[u] = ref[u]
    BY <1>1, <1>4, <2>1, ClaimTyped DEF CommitPayment
  <2>3. rewarded' = [rewarded EXCEPT ![c] = link[c]]
    BY <1>4, <2>1 DEF CommitPayment
  <2> QED BY <1>1, <1>2, <1>4, <2>2, <2>3
<1> QED BY <1>3, <1>4

\* What the COMMIT of a refund does to them.
LEMMA RefundClaims ==
  ASSUME PayInv, FoundSound, NEW a \in Admins, CommitRefund(a)
  PROVE  /\ Payer(hand[a]) \in Users /\ invoice' = invoice /\ rewarded' = rewarded
         /\ refunded' = refunded \cup {hand[a]}
         /\ \A u \in Users \ {Payer(hand[a])} : ref'[u] = ref[u]
         /\ link[a] = None => ref' = ref
         /\ link[a] # None =>
              /\ ref[Payer(hand[a])].charge = hand[a]
              /\ ref'[Payer(hand[a])] # None /\ ref'[Payer(hand[a])].charge = None
              /\ ref'[Payer(hand[a])].inviter = ref[Payer(hand[a])].inviter
<1>1. Payer(hand[a]) \in Users /\ invoice' = invoice /\ rewarded' = rewarded
      /\ refunded' = refunded \cup {hand[a]}
  BY RefundFacts DEF CommitRefund, telegramVars
<1>2. CASE link[a] = None
  BY <1>1, <1>2 DEF CommitRefund
<1>3. CASE link[a] # None
  BY <1>1, <1>3, ClaimTyped DEF CommitRefund, FoundSound
<1> QED BY <1>2, <1>3

\* Of the registers, a step changes those of a handler that ends, or of one that has
\* just read a referral.
LEMMA LinkMoves ==
  ASSUME PayInv, Next
  PROVE  /\ \A c \in Charges : link'[c] # None =>
              \/ ReadReferral(c)
              \/ link'[c] = link[c] /\ Payer(c)' = Payer(c) /\ invoice'[c].discount
                 /\ pc[c] \in {"inviter", "commit"} /\ ~CommitPayment(c)
                 /\ (pc'[c] = "commit" =>
                      ReadInviter(c) \/ (pc[c] = "commit" /\ view'[c] = view[c]))
         /\ \A a \in Admins : link'[a] # None =>
              hand'[a] = hand[a] /\ Payer(hand[a])' = Payer(hand[a])
              /\ (\/ FindReferral(a)
                  \/ link'[a] = link[a] /\ ~CommitRefund(a) /\ pc[a] \in Returning)
<1>0. JobsTyped
  BY DEF PayInv, TypeOK
<1>1. ASSUME NEW c \in Charges, link'[c] # None, ~ReadReferral(c)
      PROVE  link'[c] = link[c] /\ ~CommitPayment(c)
             /\ (pc'[c] = "commit" => ReadInviter(c) \/ (pc[c] = "commit" /\ view'[c] = view[c]))
  <2>1. ~End(c)
    BY <1>0, <1>1, EndForgets, JobsApart
  <2>2. CASE Pay(c)
    <3>1. Deliver(c) \/ ReadPayer(c) \/ (Insert(c) /\ ~End(c))
      BY <1>1, <2>1, <2>2 DEF Pay, CommitPayment, PaymentFails
    <3>2. link' = link /\ pc[c] \in {"idle", "insert", "user"}
      BY <3>1 DEF Deliver, ReadPayer, Insert, PayInv, PaymentAt
    <3> QED BY <1>0, <1>1, <3>2 DEF PayInv, PaymentAt
  <2>3. CASE ReadInviter(c)
    BY <2>1, <2>3 DEF ReadInviter, CommitPayment
  <2>4. ASSUME NEW j \in Jobs \ {c}, ReadInviter(j) \/ (j \in Charges /\ Pay(j))
                                      \/ (j \in Admins /\ Refund(j))
        PROVE  link'[c] = link[c] /\ pc'[c] = pc[c] /\ view'[c] = view[c]
    BY <1>0, <2>4, EndForgets, JobsApart DEF ReadInviter, Pay, Deliver, Insert, ReadPayer,
       ReadReferral, CommitPayment, PaymentFails, Refund, StartRefund, PickPayment,
       CallTelegram, FindReferral, CommitRefund, RefundFails, Goto, Read, OnlyMoves, JobsTyped
  <2>5. CASE Outside
    BY <2>1, <2>5, OutsideMoves DEF jobVars, CommitPayment
  <2>6. ~Crash
    BY <1>1, JobsApart DEF Crash
  <2> QED BY <2>1, <2>2, <2>3, <2>4, <2>5, <2>6, JobsApart DEF Next, Outside, CommitPayment
<1>2. ASSUME NEW c \in Charges, link[c] # None
      PROVE  Payer(c)' = Payer(c) /\ invoice'[c].discount /\ pc[c] \in {"inviter", "commit"}
  BY <1>2, BusyPayer, Steady DEF PayInv, PaymentAt, Payer
<1>3. ASSUME NEW a \in Admins, link'[a] # None, ~FindReferral(a)
      PROVE  link'[a] = link[a] /\ hand'[a] = hand[a] /\ ~CommitRefund(a)
  <2>1. ~End(a)
    BY <1>0, <1>3, EndForgets, JobsApart
  <2>2. CASE Refund(a)
    <3>1. (\E u \in Users : StartRefund(a, u)) \/ (PickPayment(a) /\ ~End(a))
            \/ (CallTelegram(a) /\ ~End(a))
      BY <1>3, <2>1, <2>2 DEF Refund, CommitRefund, RefundFails
    <3>2. link' = link /\ pc[a] \in {"idle", "pick", "call"}
      BY <3>1 DEF StartRefund, PickPayment, CallTelegram
    <3> QED BY <1>3, <3>2, JobsApart DEF PayInv, TypeOK, RefundAt
  <2>3. CASE ReadInviter(a)
    BY <2>1, <2>3 DEF ReadInviter, CommitRefund
  <2>4. ASSUME NEW j \in Jobs \ {a}, ReadInviter(j) \/ (j \in Charges /\ Pay(j))
                                      \/ (j \in Admins /\ Refund(j))
        PROVE  link'[a] = link[a] /\ hand'[a] = hand[a]
    BY <1>0, <2>4, EndForgets, JobsApart DEF ReadInviter, Pay, Deliver, Insert, ReadPayer,
       ReadReferral, CommitPayment, PaymentFails, Refund, StartRefund, PickPayment,
       CallTelegram, FindReferral, CommitRefund, RefundFails, Goto, Read, OnlyMoves, JobsTyped
  <2>5. CASE Outside
    BY <2>1, <2>5, OutsideMoves DEF jobVars, CommitRefund
  <2>6. ~Crash
    BY <1>3, JobsApart DEF Crash
  <2> QED BY <2>1, <2>2, <2>3, <2>4, <2>5, <2>6, JobsApart DEF Next, Outside, CommitRefund
<1>4. ASSUME NEW a \in Admins, FindReferral(a) \/ link[a] # None
      PROVE  Payer(hand[a]) = invoice[hand[a]].payer /\ invoice'[hand[a]] = invoice[hand[a]]
             /\ pc[a] \in Returning
  <2>1. pc[a] \in Returning /\ pc[a] \in Chosen
    BY <1>4 DEF FindReferral, Returning, Chosen, PayInv, RefundAt
  <2> QED BY <2>1, ChosenPayer, BusyPayer, Steady DEF Payer
<1>5. \A a \in Admins : FindReferral(a) => hand' = hand
  BY DEF FindReferral
<1> QED BY <1>1, <1>2, <1>3, <1>4, <1>5 DEF Payer

\* A referral changes when a payment claims it and when the refund gives it back, as
\* long as nobody deletes an account.
LEMMA RefMoves ==
  ASSUME PayInv, Next, left' = {}, NEW u \in Users
  PROVE  /\ left = {} /\ \A v \in Users : users[v] # None
         /\ ref[u] # None =>
              \/ ref'[u] = ref[u]
              \/ \E c \in Charges : CommitPayment(c) /\ u = Payer(c) /\ link[c] # None
              \/ \E a \in Admins : CommitRefund(a) /\ u = Payer(hand[a]) /\ link[a] # None
         /\ ref[u] = None => ref'[u] = None \/ ref'[u].charge = None
<1>0. TablesTyped /\ TablesTyped'
  BY TypesStay DEF PayInv, TypeOK
<1>1. left = {}
  BY DEF Next, Pay, Refund, StartBot, DeleteMe, Refer, PreCheckout, Deliver, Insert,
     ReadPayer, ReadReferral, CommitPayment, PaymentFails, StartRefund, PickPayment,
     CallTelegram, FindReferral, CommitRefund, RefundFails, ReadInviter, ReaperReads,
     ReaperWrites, ReaperFails, Crash, Tick, histVars
<1>2. \A v \in Users : users[v] # None
  BY <1>1 DEF PayInv, TablesSound
<1>3. ASSUME NEW c \in Charges, CommitPayment(c)
      PROVE  ref'[u] = ref[u] \/ (ref[u] # None /\ u = Payer(c) /\ link[c] # None)
  <2>1. Payer(c) \in Users /\ (link[c] # None => ref[Payer(c)] # None)
    BY <1>3, BusyPayer DEF CommitPayment, PayInv, PaymentAt
  <2>2. link[c] # None => \A v \in Users \ {Payer(c)} : ref'[v] = ref[v]
    BY <1>3, <2>1, ClaimTyped DEF CommitPayment
  <2> QED BY <1>3, <2>1, <2>2 DEF CommitPayment
<1>4. ASSUME NEW a \in Admins, CommitRefund(a)
      PROVE  ref'[u] = ref[u] \/ (ref[u] # None /\ u = Payer(hand[a]) /\ link[a] # None)
  <2>1. Payer(hand[a]) \in Users /\ (link[a] # None => ref[Payer(hand[a])] # None)
    BY <1>4, RefundFacts DEF CommitRefund
  <2>2. link[a] # None => \A v \in Users \ {Payer(hand[a])} : ref'[v] = ref[v]
    BY <1>4, <2>1, ClaimTyped DEF CommitRefund
  <2> QED BY <1>4, <2>1, <2>2 DEF CommitRefund
<1>5. ASSUME NEW v \in Users, NEW by \in Users, Refer(v, by)
      PROVE  ref'[u] = ref[u] \/ (ref[u] = None /\ ref'[u].charge = None)
  BY <1>0, <1>5 DEF Refer, TablesTyped
<1>6. \A v \in Users : ~DeleteMe(v)
  BY DEF DeleteMe
<1>7. CASE ref' = ref
  BY <1>1, <1>2, <1>7
<1> QED BY <1>1, <1>2, <1>3, <1>4, <1>5, <1>6, <1>7 DEF Next, Pay, Refund, StartBot,
  PreCheckout, Deliver, Insert, ReadPayer, ReadReferral, PaymentFails, StartRefund,
  PickPayment, CallTelegram, FindReferral, RefundFails, ReadInviter, ReaperReads,
  ReaperWrites, ReaperFails, Crash, Tick, tableVars

\* A payment with a link is past the SELECT of the referral.
LEMMA LinkClaims ==
  ASSUME PayInv, NEW c \in Charges, link[c] # None
  PROVE  Claiming(c) /\ Payer(c) \in Users /\ link[c] \in Users
  BY BusyPayer, JobsApart DEF PayInv, TypeOK, JobsTyped, PaymentAt, Claiming

\* Nobody takes a referral from the payment that is about to claim it.
LEMMA LinkStays ==
  ASSUME PayInv, Next, OneClaimer, LinkSound, FoundSound, left' = {}
  PROVE  LinkSound'
<1> SUFFICES ASSUME NEW c \in Charges, link'[c] # None
             PROVE  /\ ref'[Payer(c)'] # None
                    /\ ref'[Payer(c)'].charge = None /\ ref'[Payer(c)'].inviter = link'[c]
                    /\ pc'[c] = "commit" => view'[c][link'[c]] # None
  BY DEF LinkSound
<1>0. JobsTyped /\ TablesTyped /\ c \in Jobs
  BY JobsApart DEF PayInv, TypeOK
<1>1. CASE ReadReferral(c)
  <2>1. invoice' = invoice /\ ref' = ref
    BY <1>1 DEF ReadReferral, telegramVars, tableVars
  <2>2. Unclaimed(Payer(c))
    BY <1>1 DEF ReadReferral, PayInv, PaymentAt
  <2>3. pc'[c] = "inviter" /\ link'[c] = ref[Payer(c)].inviter
    BY <1>0, <1>1, <2>2, GotoTyped DEF ReadReferral, JobsTyped
  <2> QED BY <2>1, <2>2, <2>3 DEF Payer, Unclaimed
<1>2. CASE ~ReadReferral(c)
  <2>1. /\ link'[c] = link[c] /\ Payer(c)' = Payer(c) /\ ~CommitPayment(c)
        /\ pc'[c] = "commit" => ReadInviter(c) \/ (pc[c] = "commit" /\ view'[c] = view[c])
    BY <1>2, LinkMoves
  <2>2. Claiming(c) /\ Payer(c) \in Users /\ link[c] \in Users
    BY <2>1, LinkClaims
  <2>3. /\ ref[Payer(c)] # None /\ ref[Payer(c)].charge = None
        /\ ref[Payer(c)].inviter = link[c]
    BY <2>1 DEF LinkSound
  <2>4. ref'[Payer(c)] # None /\ ref'[Payer(c)].charge = None /\ ref'[Payer(c)].inviter = link[c]
    <3>1. ~\E d \in Charges : CommitPayment(d) /\ Payer(c) = Payer(d) /\ link[d] # None
      BY <2>1, <2>2, LinkClaims DEF OneClaimer
    <3>2. ASSUME NEW a \in Admins, CommitRefund(a), Payer(c) = Payer(hand[a]), link[a] # None
          PROVE  FALSE
      BY <2>3, <3>2, RefundClaims, RefundFacts, PaymentConstants
    <3> QED BY <2>2, <2>3, <3>1, <3>2, RefMoves
  <2>5. pc'[c] = "commit" => view'[c][link[c]] # None
    <3>1. CASE ReadInviter(c)
      <4>1. view'[c] = [view[c] EXCEPT ![link[c]] = users[link[c]]]
        BY <1>0, <2>2, <3>1, ViewsTyped DEF ReadInviter
      <4>2. view[c] \in [Users -> UserRows \cup {None}] /\ users[link[c]] # None
        BY <1>0, <2>2, RefMoves DEF JobsTyped
      <4> QED BY <2>2, <4>1, <4>2
    <3>2. CASE pc[c] = "commit" /\ view'[c] = view[c]
      BY <2>1, <3>2 DEF LinkSound
    <3> QED BY <2>1, <3>1, <3>2
  <2> QED BY <2>1, <2>4, <2>5
<1> QED BY <1>1, <1>2

\* Nor from the refund that is about to give it back.
LEMMA FoundStays ==
  ASSUME PayInv, Next, LinkSound, FoundSound, left' = {}
  PROVE  FoundSound'
<1> SUFFICES ASSUME NEW a \in Admins, link'[a] # None
             PROVE  /\ ref'[Payer(hand[a])'] # None
                    /\ ref'[Payer(hand[a])'].charge = hand'[a]
                    /\ ref'[Payer(hand[a])'].inviter = link'[a]
  BY DEF FoundSound
<1>0. JobsTyped /\ a \in Jobs
  BY JobsApart DEF PayInv, TypeOK
<1>1. hand'[a] = hand[a] /\ Payer(hand[a])' = Payer(hand[a])
  BY LinkMoves
<1>2. CASE FindReferral(a)
  <2>1. ref' = ref /\ pc[a] = "find"
    BY <1>2 DEF FindReferral, tableVars
  <2>2. link[a] = None /\ hand[a] \in Charges
    BY <2>1, ChosenPayer DEF PayInv, RefundAt, Chosen, Returning
  <2>3. PICK u \in ClaimedBy(hand[a]) : link' = [link EXCEPT ![a] = ref[u].inviter]
    BY <1>2, <2>2 DEF FindReferral
  <2>4. u \in Users /\ ref[u] # None /\ ref[u].charge = hand[a] /\ Payer(hand[a]) = u
    BY <2>2, <2>3, PaymentConstants DEF ClaimedBy, PayInv, RefsSound
  <2> QED BY <1>0, <1>1, <2>1, <2>3, <2>4 DEF JobsTyped
<1>3. CASE ~FindReferral(a)
  <2>1. link'[a] = link[a] /\ ~CommitRefund(a) /\ pc[a] \in Returning
    BY <1>3, LinkMoves
  <2>2. /\ ref[Payer(hand[a])] # None /\ ref[Payer(hand[a])].charge = hand[a]
        /\ ref[Payer(hand[a])].inviter = link[a]
    BY <2>1 DEF FoundSound
  <2>3. hand[a] \in Charges /\ Payer(hand[a]) \in Users
    BY <2>1, ChosenPayer DEF Chosen
  <2>4. ~\E c \in Charges : CommitPayment(c) /\ Payer(hand[a]) = Payer(c) /\ link[c] # None
    BY <2>2, <2>3, PaymentConstants DEF LinkSound
  <2>5. ASSUME NEW b \in Admins, CommitRefund(b), Payer(hand[a]) = Payer(hand[b]), link[b] # None
        PROVE  FALSE
    <3>1. hand[b] = hand[a] /\ pc[b] \in Returning
      BY <2>2, <2>5 DEF FoundSound, CommitRefund, Returning
    <3> QED BY <2>1, <2>5, <3>1 DEF PayInv, Apart
  <2>6. ref'[Payer(hand[a])] = ref[Payer(hand[a])]
    BY <2>2, <2>3, <2>4, <2>5, RefMoves
  <2> QED BY <1>1, <2>1, <2>2, <2>6
<1> QED BY <1>2, <1>3

\* Rewards and claims go together.
LEMMA ClaimStays ==
  ASSUME PayInv, Next, OneClaimer, LinkSound, FoundSound, ClaimSound, left' = {}
  PROVE  ClaimSound'
<1>0. \A c \in Recorded : Payer(c)' = Payer(c) /\ Payer(c) \in Users /\ c \in Charges
  BY BusyPayer, Steady DEF Recorded, Rows, Payer
<1>1. ASSUME NEW c \in Charges, CommitPayment(c)
      PROVE  ClaimSound'
  <2>1. Recorded' = Recorded \cup {c} /\ c \notin Recorded /\ refunded' = refunded
        /\ Payer(c)' = Payer(c)
    BY <1>1, CommitRows, CommitClaims DEF Payer
  <2>2. rewarded[c] = None
    BY <2>1 DEF PayInv, CountsSound
  <2>3. ASSUME NEW d \in Recorded' \ refunded', rewarded'[d] # None
        PROVE  ref'[Payer(d)'] # None /\ ref'[Payer(d)'].charge = d
    <3>1. CASE d = c
      BY <1>1, <2>1, <2>2, <2>3, <3>1, CommitClaims
    <3>2. CASE d # c
      <4>1. d \in Recorded \ refunded /\ rewarded'[d] = rewarded[d]
        BY <1>0, <1>1, <2>1, <2>3, <3>2, CommitClaims
      <4>2. ref[Payer(d)] # None /\ ref[Payer(d)].charge = d
        BY <2>3, <4>1 DEF ClaimSound
      <4>3. link[c] # None => Payer(c) # Payer(d)
        BY <1>0, <4>1, <4>2, PaymentConstants DEF LinkSound
      <4> QED BY <1>0, <1>1, <4>1, <4>2, <4>3, CommitClaims
    <3> QED BY <3>1, <3>2
  <2>4. ASSUME NEW u \in Users, ref'[u] # None, ref'[u].charge # None
        PROVE  rewarded'[ref'[u].charge] = ref'[u].inviter
    <3>1. CASE u = Payer(c) /\ link[c] # None
      BY <1>1, <3>1, CommitClaims
    <3>2. CASE ~(u = Payer(c) /\ link[c] # None)
      <4>1. ref'[u] = ref[u]
        BY <1>1, <3>2, CommitClaims
      <4>2. ref[u].charge \in Recorded /\ ref[u].charge # c
        BY <2>1, <2>4, <4>1 DEF PayInv, RefsSound
      <4> QED BY <1>0, <1>1, <2>4, <4>1, <4>2, CommitClaims DEF ClaimSound
    <3> QED BY <3>1, <3>2
  <2> QED BY <2>3, <2>4 DEF ClaimSound
<1>2. ASSUME NEW a \in Admins, CommitRefund(a)
      PROVE  ClaimSound'
  <2>0. a \in Jobs
    BY JobsApart
  <2>1. Recorded' = Recorded /\ rewarded' = rewarded /\ refunded' = refunded \cup {hand[a]}
    BY <1>2, <2>0, OtherRows, RefundClaims DEF Refund
  <2>2. ASSUME NEW d \in Recorded' \ refunded', rewarded'[d] # None
        PROVE  ref'[Payer(d)'] # None /\ ref'[Payer(d)'].charge = d
    <3>1. ref[Payer(d)] # None /\ ref[Payer(d)].charge = d /\ d # hand[a]
      BY <2>1, <2>2 DEF ClaimSound
    <3>2. link[a] # None => Payer(d) # Payer(hand[a])
      BY <1>2, <3>1, RefundClaims
    <3> QED BY <1>0, <1>2, <2>1, <3>1, <3>2, RefundClaims
  <2>3. ASSUME NEW u \in Users, ref'[u] # None, ref'[u].charge # None
        PROVE  rewarded'[ref'[u].charge] = ref'[u].inviter
    <3>1. ref'[u] = ref[u]
      BY <1>2, <2>3, RefundClaims
    <3> QED BY <2>1, <2>3, <3>1 DEF ClaimSound
  <2> QED BY <2>2, <2>3 DEF ClaimSound
<1>3. CASE ~(\E c \in Charges : CommitPayment(c)) /\ ~(\E a \in Admins : CommitRefund(a))
  <2>1. rewarded' = rewarded /\ refunded' = refunded
    BY <1>3 DEF Next, Pay, Refund, StartBot, DeleteMe, Refer, PreCheckout, Deliver, Insert,
       ReadPayer, ReadReferral, PaymentFails, StartRefund, PickPayment, CallTelegram,
       FindReferral, RefundFails, ReadInviter, ReaperReads, ReaperWrites, ReaperFails, Crash,
       Tick, tableVars, histVars
  <2>2. Recorded' = Recorded
    <3>1. CASE \E c \in Charges : Pay(c)
      BY <1>3, <3>1, InsertRows, FailRows, OtherRows, JobsApart DEF Pay
    <3>2. CASE Crash
      BY <3>2, CrashRows
    <3>3. CASE \E j \in Jobs : ReadInviter(j) \/ (j \in Admins /\ Refund(j))
      BY <3>3, OtherRows
    <3>4. CASE Outside
      <4>1. ledger' = ledger /\ pc' = pc
        BY <3>4, OutsideMoves DEF Outside, StartBot, DeleteMe, Refer, PreCheckout, ReaperReads,
           ReaperWrites, ReaperFails, Tick, tableVars, jobVars
      <4> QED BY <4>1 DEF Rows, Recorded, Open
    <3> QED BY <3>1, <3>2, <3>3, <3>4, JobsApart DEF Next, Outside
  <2>3. \A u \in Users : ref[u] # None => ref'[u] = ref[u]
    BY <1>3, RefMoves
  <2>4. \A u \in Users : ref[u] = None => ref'[u] = None \/ ref'[u].charge = None
    BY RefMoves
  <2>5. \A d \in Recorded \ refunded : rewarded[d] # None =>
          ref'[Payer(d)'] # None /\ ref'[Payer(d)'].charge = d
    BY <1>0, <2>3 DEF ClaimSound
  <2>6. ASSUME NEW u \in Users, ref'[u] # None, ref'[u].charge # None
        PROVE  rewarded[ref'[u].charge] = ref'[u].inviter
    BY <2>3, <2>4, <2>6 DEF ClaimSound
  <2> QED BY <2>1, <2>2, <2>5, <2>6 DEF ClaimSound
<1> QED BY <1>1, <1>2, <1>3

\* One reward for each guest, taken back once and from whoever got it.
LEMMA RewardsStay ==
  ASSUME PayInv, Next, RewardedOnce, left = {} => FoundSound /\ ClaimSound,
         left' = {} => ClaimSound'
  PROVE  RewardedOnce'
<1>0. HistoryTyped
  BY DEF PayInv, TypeOK
<1>1. left' = {} =>
        \A c, d \in Recorded' \ refunded' :
          rewarded'[c] # None /\ rewarded'[d] # None /\ Payer(c)' = Payer(d)' => c = d
  BY DEF ClaimSound
<1>2. left \subseteq left'
  BY DEF Next, Pay, Refund, StartBot, DeleteMe, Refer, PreCheckout, Deliver, Insert,
     ReadPayer, ReadReferral, CommitPayment, PaymentFails, StartRefund, PickPayment,
     CallTelegram, FindReferral, CommitRefund, RefundFails, ReadInviter, ReaperReads,
     ReaperWrites, ReaperFails, Crash, Tick, histVars
<1>3. \A c \in Charges, u \in Users :
        reversed'[c][u] > 0 => reversed'[c][u] = 1 /\ (rewarded'[c] = u \/ left' # {})
  <2>1. CASE \E a \in Admins : CommitRefund(a)
    <3>1. PICK a \in Admins : CommitRefund(a)
      BY <2>1
    <3>2. /\ hand[a] \in Charges /\ hand[a] \notin refunded /\ Payer(hand[a]) \in Users
          /\ link[a] \in Users \cup {None}
      BY <3>1, RefundFacts
    <3>3. \A u \in Users : reversed[hand[a]][u] = 0
      BY <3>2 DEF PayInv, CountsSound
    <3>4. CASE reversed' = reversed
      BY <1>2, <3>1, <3>4 DEF CommitRefund, RewardedOnce
    <3>5. CASE link[a] # None /\ reversed' = [reversed EXCEPT ![hand[a]][link[a]] = @ + 1]
      <4>1. left = {} => rewarded[hand[a]] = link[a]
        BY <3>2, <3>5, PaymentConstants DEF FoundSound, ClaimSound
      <4>2. rewarded' = rewarded
        BY <3>1 DEF CommitRefund
      <4>3. \A c \in Charges, u \in Users :
              IF c = hand[a] /\ u = link[a] THEN reversed'[c][u] = 1
              ELSE reversed'[c][u] = reversed[c][u]
        BY <1>0, <3>2, <3>3, <3>5 DEF HistoryTyped
      <4> QED BY <1>2, <4>1, <4>2, <4>3 DEF RewardedOnce
    <3> QED BY <3>1, <3>4, <3>5 DEF CommitRefund
  <2>2. CASE \E c \in Charges : CommitPayment(c)
    <3>1. PICK c \in Charges : CommitPayment(c)
      BY <2>2
    <3>2. c \notin Recorded
      BY <3>1, CommitRows
    <3>3. \A u \in Users : reversed[c][u] = 0
      BY <3>2 DEF PayInv, TablesSound, CountsSound
    <3>4. reversed' = reversed /\ \A d \in Charges \ {c} : rewarded'[d] = rewarded[d]
      BY <1>0, <3>1 DEF CommitPayment, HistoryTyped
    <3> QED BY <1>2, <3>3, <3>4 DEF RewardedOnce
  <2>3. CASE UNCHANGED <<reversed, rewarded>>
    BY <1>2, <2>3 DEF RewardedOnce
  <2> QED BY <2>1, <2>2, <2>3 DEF Next, Pay, Refund, StartBot, DeleteMe, Refer, PreCheckout,
    Deliver, Insert, ReadPayer, ReadReferral, PaymentFails, StartRefund, PickPayment,
    CallTelegram, FindReferral, RefundFails, ReadInviter, ReaperReads, ReaperWrites,
    ReaperFails, Crash, Tick, histVars
<1> QED BY <1>1, <1>3 DEF RewardedOnce

\* All of it together, and when nothing changes.
LEMMA RewardInvStays ==
  ASSUME PayInv, RewardInv, [Next]_vars
  PROVE  RewardInv'
<1>1. CASE Next
  <2>1. OneClaimer'
    BY <1>1, OneClaimerStays DEF RewardInv
  <2>2. ASSUME left' = {}
        PROVE  left = {} /\ LinkSound' /\ FoundSound' /\ ClaimSound'
    <3>1. left = {}
      BY <1>1, <2>2 DEF Next, Pay, Refund, StartBot, DeleteMe, Refer, PreCheckout, Deliver,
         Insert, ReadPayer, ReadReferral, CommitPayment, PaymentFails, StartRefund,
         PickPayment, CallTelegram, FindReferral, CommitRefund, RefundFails, ReadInviter,
         ReaperReads, ReaperWrites, ReaperFails, Crash, Tick, histVars
    <3> QED BY <1>1, <2>2, <3>1, LinkStays, FoundStays, ClaimStays DEF RewardInv
  <2>3. RewardedOnce'
    BY <1>1, <2>2, RewardsStay DEF RewardInv
  <2> QED BY <2>1, <2>2, <2>3 DEF RewardInv
<1>2. CASE UNCHANGED vars
  <2>1. /\ UNCHANGED tableVars /\ UNCHANGED telegramVars /\ UNCHANGED jobVars
        /\ UNCHANGED histVars
    BY <1>2 DEF vars
  <2> QED BY <2>1 DEF tableVars, telegramVars, jobVars, histVars, RewardInv, OneClaimer,
    Claiming, LinkSound, FoundSound, ClaimSound, RewardedOnce, Payer, Rows, Recorded, Open
<1> QED BY <1>1, <1>2

\* A referral rewards the inviter for one payment, however many the guest makes at once
\* (src/bot/main.py:963-964), and the reward is taken back once, from whoever got it, by
\* the refund of the charge that earned it (main.py:1338-1341), as long as nobody deletes
\* an account; taken back once whatever happens.
THEOREM RewardsAreSingle == Spec => []RewardedOnce
<1>1. Init => RewardInv
  <2> SUFFICES ASSUME Init
               PROVE  RewardInv
    OBVIOUS
  <2>1. \A j \in Jobs : pc[j] = "idle" /\ link[j] = None
    BY DEF Init
  <2>2. Recorded = {}
    BY DEF Init, Recorded, Rows
  <2>3. OneClaimer /\ LinkSound /\ FoundSound
    BY <2>1, JobsApart DEF OneClaimer, Claiming, LinkSound, FoundSound
  <2>4. ClaimSound /\ RewardedOnce
    BY <2>2 DEF Init, ClaimSound, RewardedOnce
  <2> QED BY <2>3, <2>4 DEF RewardInv
<1>2. PayInv /\ RewardInv /\ [Next]_vars => RewardInv'
  BY RewardInvStays
<1>3. RewardInv => RewardedOnce
  BY DEF RewardInv
<1> QED BY <1>1, <1>2, <1>3, PayInvHolds, PTL DEF Spec

-----------------------------------------------------------------------------
(* Days *)

\* The recorded payments of u that were not refunded; the charges that have rewarded u.
PaidBy(u) == {c \in Recorded \ refunded : owner[c] = u}
EarnedBy(u) == {c \in Charges : rewarded[c] = u /\ reversed[c][u] = 0}

\* The payments are finitely many at any time, and days and tiers are right.
DaysInv == IsFiniteSet(Rows) /\ TierFollowsDays /\ DaysAreBought

\* A larger set is worth more, by n for one element more.
LEMMA WorthMore ==
  ASSUME NEW A, NEW B, IsFiniteSet(B), A \subseteq B, NEW n \in Nat
  PROVE  /\ n * Cardinality(A) \in Nat /\ n * Cardinality(B) \in Nat
         /\ n * Cardinality(A) <= n * Cardinality(B)
         /\ \A x \in B \ A : n * Cardinality(A) + n <= n * Cardinality(B)
<1>1. IsFiniteSet(A) /\ Cardinality(A) <= Cardinality(B)
  BY FS_Subset
<1>2. Cardinality(A) \in Nat /\ Cardinality(B) \in Nat
  BY <1>1, FS_CardinalityType
<1>3. \A k, m, t \in Nat : t * k \in Nat /\ (k <= m => t * k <= t * m)
                           /\ (k + 1 <= m => t * k + t <= t * m)
  <2> SUFFICES ASSUME NEW k \in Nat, NEW m \in Nat, NEW t \in Nat
               PROVE  t * k \in Nat /\ (k <= m => t * k <= t * m)
                      /\ (k + 1 <= m => t * k + t <= t * m)
    OBVIOUS
  <2>1. t * k \in Nat
    OBVIOUS
  <2>2. k <= m => t * k <= t * m
    OBVIOUS
  <2>3. k + 1 <= m => t * (k + 1) <= t * m
    OBVIOUS
  <2>4. t * (k + 1) = t * k + t
    OBVIOUS
  <2> QED BY <2>1, <2>2, <2>3, <2>4
<1>4. ASSUME NEW x \in B \ A
      PROVE  Cardinality(A) + 1 <= Cardinality(B)
  <2>1. Cardinality(A \cup {x}) = Cardinality(A) + 1
    BY <1>1, <1>4, FS_AddElement
  <2>2. A \cup {x} \in SUBSET B
    BY <1>4
  <2>3. Cardinality(A \cup {x}) <= Cardinality(B)
    BY <2>2, FS_Subset
  <2> QED BY <2>1, <2>3
<1> QED BY <1>1, <1>2, <1>3, <1>4

\* What u has bought is a number, and what counts for it is recorded.
LEMMA BoughtTyped ==
  ASSUME PayInv, IsFiniteSet(Rows), NEW u \in Users
  PROVE  /\ PaidBy(u) \subseteq Rows /\ EarnedBy(u) \subseteq Rows
         /\ Term * Cardinality(PaidBy(u)) \in Nat
         /\ Reward * Cardinality(EarnedBy(u)) \in Nat
         /\ Bought(u) = Term * Cardinality(PaidBy(u)) + Reward * Cardinality(EarnedBy(u))
<1>1. PaidBy(u) \subseteq Rows
  BY DEF PaidBy, Recorded
<1>2. EarnedBy(u) \subseteq Rows
  BY PaymentConstants DEF EarnedBy, PayInv, CountsSound, Recorded
<1>3. Term \in Nat /\ Reward \in Nat
  BY PaymentConstants
<1>4. Bought(u) = Term * Cardinality(PaidBy(u)) + Reward * Cardinality(EarnedBy(u))
  BY DEF Bought, PaidBy, EarnedBy
<1> QED BY <1>1, <1>2, <1>3, <1>4, WorthMore

\* Payments that are added to it make it more.
LEMMA BoughtGrows ==
  ASSUME PayInv, PayInv', IsFiniteSet(Rows), IsFiniteSet(Rows'), NEW u \in Users,
         PaidBy(u) \subseteq PaidBy(u)', EarnedBy(u) \subseteq EarnedBy(u)'
  PROVE  /\ Bought(u) \in Nat /\ Bought(u)' \in Nat
         /\ Bought(u) <= Bought(u)'
         /\ PaidBy(u) # PaidBy(u)' => Bought(u) + Term <= Bought(u)'
         /\ EarnedBy(u) # EarnedBy(u)' => Bought(u) + Reward <= Bought(u)'
<1>1. Term \in Nat /\ Reward \in Nat
  BY PaymentConstants
<1>2. /\ PaidBy(u)' \subseteq Rows' /\ EarnedBy(u)' \subseteq Rows'
      /\ Bought(u)' = Term * Cardinality(PaidBy(u)') + Reward * Cardinality(EarnedBy(u)')
  <2>1. PaidBy(u)' \subseteq Rows'
    BY DEF PaidBy, Recorded
  <2>2. EarnedBy(u)' \subseteq Rows'
    BY PaymentConstants DEF EarnedBy, PayInv, CountsSound, Recorded
  <2>3. Bought(u)' = Term * Cardinality(PaidBy(u)') + Reward * Cardinality(EarnedBy(u)')
    BY DEF Bought, PaidBy, EarnedBy
  <2> QED BY <2>1, <2>2, <2>3
<1>3. IsFiniteSet(PaidBy(u)') /\ IsFiniteSet(EarnedBy(u)')
  BY <1>2, FS_Subset
<1> DEFINE P == PaidBy(u)
           Q == PaidBy(u)'
           E == EarnedBy(u)
           F == EarnedBy(u)'
<1>4. /\ Term * Cardinality(P) \in Nat /\ Term * Cardinality(Q) \in Nat
      /\ Term * Cardinality(P) <= Term * Cardinality(Q)
      /\ P # Q => Term * Cardinality(P) + Term <= Term * Cardinality(Q)
  <2> HIDE DEF P, Q
  <2>1. P \subseteq Q /\ IsFiniteSet(Q)
    BY <1>3 DEF P, Q
  <2>2. P # Q => \E x \in Q \ P : TRUE
    BY <2>1
  <2> QED BY <1>1, <2>1, <2>2, WorthMore
<1>5. /\ Reward * Cardinality(E) \in Nat /\ Reward * Cardinality(F) \in Nat
      /\ Reward * Cardinality(E) <= Reward * Cardinality(F)
      /\ E # F => Reward * Cardinality(E) + Reward <= Reward * Cardinality(F)
  <2> HIDE DEF E, F
  <2>1. E \subseteq F /\ IsFiniteSet(F)
    BY <1>3 DEF E, F
  <2>2. E # F => \E x \in F \ E : TRUE
    BY <2>1
  <2> QED BY <1>1, <2>1, <2>2, WorthMore
<1>6. Bought(u) = Term * Cardinality(P) + Reward * Cardinality(E)
  BY BoughtTyped
<1>7. Bought(u)' = Term * Cardinality(Q) + Reward * Cardinality(F)
  BY <1>2
<1> HIDE DEF P, Q, E, F
<1>8. /\ Bought(u) \in Nat /\ Bought(u)' \in Nat /\ Bought(u) <= Bought(u)'
      /\ P # Q => Bought(u) + Term <= Bought(u)'
      /\ E # F => Bought(u) + Reward <= Bought(u)'
  BY <1>1, <1>4, <1>5, <1>6, <1>7
<1> QED BY <1>8 DEF P, Q, E, F

\* One reward that is taken back makes it less by no more than that.
LEMMA BoughtShrinks ==
  ASSUME PayInv, PayInv', IsFiniteSet(Rows), IsFiniteSet(Rows'), NEW u \in Users,
         NEW c, PaidBy(u) = PaidBy(u)', EarnedBy(u) \ {c} \subseteq EarnedBy(u)'
  PROVE  Bought(u) \in Nat /\ Bought(u)' \in Nat /\ Bought(u) <= Bought(u)' + Reward
<1>1. Term \in Nat /\ Reward \in Nat
  BY PaymentConstants
<1>2. EarnedBy(u)' \subseteq Rows' /\ EarnedBy(u) \subseteq Rows
  BY PaymentConstants DEF EarnedBy, PayInv, CountsSound, Recorded
<1>3. Bought(u)' = Term * Cardinality(PaidBy(u)') + Reward * Cardinality(EarnedBy(u)')
  BY DEF Bought, PaidBy, EarnedBy
<1>4. IsFiniteSet(EarnedBy(u)') /\ IsFiniteSet(EarnedBy(u))
  BY <1>2, FS_Subset
<1> DEFINE E == EarnedBy(u)
           F == EarnedBy(u)'
           D == E \ {c}
<1>5. Bought(u) = Term * Cardinality(PaidBy(u)) + Reward * Cardinality(E)
      /\ Term * Cardinality(PaidBy(u)) \in Nat /\ Reward * Cardinality(E) \in Nat
  BY BoughtTyped
<1>6. Reward * Cardinality(D) \in Nat /\ Reward * Cardinality(F) \in Nat
      /\ Reward * Cardinality(D) <= Reward * Cardinality(F)
  <2> HIDE DEF D, F
  <2>1. D \subseteq F /\ IsFiniteSet(F)
    BY <1>4 DEF D, F
  <2> QED BY <1>1, <2>1, WorthMore
<1>7. Reward * Cardinality(E) <= Reward * Cardinality(D) + Reward
  <2>1. CASE c \in E
    <3>1. Cardinality(D) = Cardinality(E) - 1 /\ Cardinality(E) \in Nat
          /\ Cardinality(D) \in Nat
      BY <1>4, <2>1, FS_RemoveElement, FS_CardinalityType
    <3> HIDE DEF D, E
    <3>2. \A k \in Nat : Reward * (k + 1) = Reward * k + Reward
      BY <1>1
    <3>3. Cardinality(E) = Cardinality(D) + 1
      BY <3>1
    <3>4. Reward * Cardinality(E) = Reward * Cardinality(D) + Reward
      BY <3>1, <3>2, <3>3
    <3> QED BY <1>1, <1>5, <1>6, <3>4
  <2>2. CASE c \notin E
    <3>1. D = E
      BY <2>2
    <3> HIDE DEF D, E
    <3> QED BY <1>1, <1>6, <3>1
  <2> QED BY <2>1, <2>2
<1> HIDE DEF D, E
<1> QED BY <1>1, <1>3, <1>5, <1>6, <1>7

\* The rows stay finitely many.
LEMMA RowsFinite ==
  ASSUME PayInv, IsFiniteSet(Rows), [Next]_vars
  PROVE  IsFiniteSet(Rows')
<1>1. ASSUME NEW c \in Charges, Rows' \subseteq Rows \cup {c}
      PROVE  IsFiniteSet(Rows')
  <2>1. IsFiniteSet(Rows \cup {c})
    BY FS_AddElement
  <2> QED BY <1>1, <2>1, FS_Subset
<1>2. ASSUME Rows' \subseteq Rows
      PROVE  IsFiniteSet(Rows')
  BY <1>2, FS_Subset
<1>3. ASSUME NEW c \in Charges, Pay(c)
      PROVE  IsFiniteSet(Rows')
  <2>1. Insert(c) => Rows' \subseteq Rows \cup {c}
    BY InsertRows
  <2>2. CommitPayment(c) => Rows' \subseteq Rows \cup {c}
    BY CommitRows
  <2>3. PaymentFails(c) => Rows' \subseteq Rows \cup {c}
    BY FailRows
  <2>4. Deliver(c) \/ ReadPayer(c) \/ ReadReferral(c) => Rows' \subseteq Rows \cup {c}
    BY OtherRows, JobsApart
  <2> QED BY <1>1, <1>3, <2>1, <2>2, <2>3, <2>4 DEF Pay
<1>4. CASE Crash
  <2>1. Rows' \subseteq Rows
    BY <1>4, CrashRows DEF Recorded
  <2> QED BY <1>2, <2>1
<1>5. ASSUME NEW j \in Jobs, ReadInviter(j) \/ (j \in Admins /\ Refund(j))
      PROVE  IsFiniteSet(Rows')
  <2>1. Rows' = Rows
    BY <1>5, OtherRows
  <2> QED BY <2>1
<1>6. CASE Outside \/ UNCHANGED vars
  <2>1. ledger' = ledger
    BY <1>6 DEF Outside, StartBot, DeleteMe, Refer, PreCheckout, ReaperReads, ReaperWrites,
       ReaperFails, Tick, tableVars, vars
  <2> QED BY <2>1 DEF Rows
<1> QED BY <1>3, <1>4, <1>5, <1>6, JobsApart DEF Next, Outside

\* A row that is as it was read becomes what the handler wants.
LEMMA FreshRow ==
  ASSUME PayInv, NEW j \in Jobs, pc[j] = "commit", ~Misses(j), WriteUsers(j),
         NEW u \in Users, u \notin stale'
  PROVE  /\ u \notin stale
         /\ view[j][u] = None => users'[u] = users[u]
         /\ view[j][u] # None =>
              /\ users[u] = view[j][u] /\ users[u] \in UserRows
              /\ users'[u] = NewRows(j)[u]
<1>1. u \notin stale /\ view[j][u] \in {None, users[u]}
  BY DEF WriteUsers
<1>2. users'[u] = IF u \in Writes(j) THEN Updated(users[u], view[j][u], NewRows(j)[u])
                  ELSE users[u]
  BY DEF WriteUsers
<1>3. CASE view[j][u] = None
  BY <1>1, <1>2, <1>3 DEF Writes
<1>4. CASE view[j][u] # None
  <2>1. users[u] = view[j][u] /\ users[u] \in UserRows /\ NewRows(j)[u] \in UserRows
    BY <1>1, <1>4, NewRowsTyped
  <2>2. \A r, n \in UserRows : Updated(r, r, n) = n
    BY DEF Updated, UserRows
  <2> QED BY <1>1, <1>2, <1>4, <2>1, <2>2 DEF Writes
<1> QED BY <1>1, <1>3, <1>4

\* What a payment makes of a row that is as it was read.
LEMMA PaidRow ==
  ASSUME PayInv, NEW c \in Charges, CommitPayment(c), NEW u \in Users, u \notin stale'
  PROVE  /\ u \notin stale
         /\ \/ view[c][u] = None /\ users'[u] = users[u]
            \/ /\ users[u] \in UserRows /\ view[c][u] # None
               /\ \/ u = Payer(c) /\ users'[u] = Extended(users[u], Term)
                  \/ u = link[c] /\ u # Payer(c) /\ users'[u] = Extended(users[u], Reward)
<1>1. c \in Jobs /\ pc[c] = "commit" /\ ~Misses(c) /\ WriteUsers(c)
  BY JobsApart DEF CommitPayment
<1>2. view[c][u] # None => u = Payer(c) \/ u = link[c]
  BY DEF PayInv, PaymentAt
<1>3. view[c][u] # None =>
        NewRows(c)[u] = Extended(view[c][u], IF u = Payer(c) THEN Term ELSE Reward)
  BY DEF NewRows, PaidRows
<1> QED BY <1>1, <1>2, <1>3, FreshRow

\* What a refund makes of it.
LEMMA RefundedRow ==
  ASSUME PayInv, NEW a \in Admins, CommitRefund(a), NEW u \in Users, u \notin stale'
  PROVE  /\ u \notin stale
         /\ \/ view[a][u] = None /\ users'[u] = users[u]
            \/ /\ users[u] \in UserRows /\ view[a][u] = users[u] /\ view[a][u] # None
               /\ \/ u = Payer(hand[a]) /\ u # link[a] /\ users'[u] = Free
                  \/ u = link[a] /\ u # Payer(hand[a]) /\ users'[u] = LessReward(users[u])
<1>1. a \in Jobs /\ a \notin Charges /\ pc[a] = "commit" /\ ~Misses(a) /\ WriteUsers(a)
  BY JobsApart DEF CommitRefund
<1>2. view[a][u] # None => u = Payer(hand[a]) \/ u = link[a]
  BY <1>1 DEF PayInv, RefundAt, Chosen, Returning
<1>3. link[a] # None => link[a] # Payer(hand[a])
  BY DEF PayInv, RefundAt
<1>4. u # None
  BY PaymentConstants
<1>5. view[a][u] # None =>
        NewRows(a)[u] = IF u = link[a] THEN LessReward(view[a][u]) ELSE Stripped(view[a][u])
  BY <1>1 DEF NewRows, RefundedRows
<1>6. Stripped(view[a][u]) = Free
  BY DEF Stripped
<1> QED BY <1>1, <1>2, <1>3, <1>4, <1>5, <1>6, FreshRow

\* Else a row is made, loses a period, or loses its tier when it has lapsed.
LEMMA OtherRow ==
  ASSUME PayInv, Next, ~(\E c \in Charges : CommitPayment(c)),
         ~(\E a \in Admins : CommitRefund(a)),
         NEW u \in Users, users'[u] # None, u \notin stale'
  PROVE  /\ u \notin stale
         /\ \/ users'[u] = users[u] \/ users'[u] = Free
            \/ /\ users[u] \in UserRows /\ users[u].until \notin {None, 0}
               /\ users'[u] = [users[u] EXCEPT !.until = @ - 1]
            \/ /\ users[u] \in UserRows /\ users[u].until = 0
               /\ users'[u] = [users[u] EXCEPT !.tier = "free"]
<1>0. TablesTyped
  BY DEF PayInv, TypeOK
<1>1. u \notin stale
  BY DEF Next, Pay, Refund, StartBot, DeleteMe, Refer, PreCheckout, Deliver, Insert,
     ReadPayer, ReadReferral, PaymentFails, StartRefund, PickPayment, CallTelegram,
     FindReferral, RefundFails, ReadInviter, ReaperReads, ReaperWrites, ReaperFails, Crash,
     Tick, histVars
<1>2. ASSUME NEW v \in Users, StartBot(v) \/ DeleteMe(v)
      PROVE  users'[u] = users[u] \/ users'[u] = Free
  BY <1>0, <1>2 DEF StartBot, DeleteMe, TablesTyped
<1>3. CASE Tick
  BY <1>0, <1>1, <1>3 DEF Tick, TablesTyped
<1>4. CASE ReaperWrites
  <2>1. u \in expired => Lapsed(u)
    BY <1>4 DEF ReaperWrites
  <2> QED BY <1>0, <1>1, <1>4, <2>1 DEF ReaperWrites, Lapsed, TablesTyped
<1>5. CASE users' = users
  BY <1>1, <1>5
<1> QED BY <1>1, <1>2, <1>3, <1>4, <1>5 DEF Next, Pay, Refund, Refer, PreCheckout, Deliver,
  Insert, ReadPayer, ReadReferral, PaymentFails, StartRefund, PickPayment, CallTelegram,
  FindReferral, RefundFails, ReadInviter, ReaperReads, ReaperFails, Crash, tableVars

\* The tier follows the days through all of this.
LEMMA TierStays ==
  ASSUME PayInv, TierFollowsDays, Next
  PROVE  TierFollowsDays'
<1> DEFINE Fits(r) == /\ r.until \notin {None, 0} => r.tier = "paid"
                      /\ r.tier = "paid" => r.until # None
<1>1. \A r \in UserRows : r.tier \in {"free", "paid"} /\ r.until \in Nat \cup {None}
                          /\ r = [tier |-> r.tier, until |-> r.until]
  BY DEF UserRows
<1>2. Fits(Free)
  BY DEF Free
<1>3. \A r \in UserRows, n \in Nat : Fits(Extended(r, n))
  BY <1>1, PaymentConstants DEF Extended
<1>4. \A r \in UserRows : Fits(r) => Fits(LessReward(r))
  <2> SUFFICES ASSUME NEW r \in UserRows, Fits(r)
               PROVE  Fits(LessReward(r))
    OBVIOUS
  <2>1. CASE r.until = None \/ r = None
    BY <2>1 DEF LessReward
  <2>2. CASE r.until \in Nat /\ r # None
    <3>1. r.until # None
      BY <2>2, PaymentConstants
    <3>2. CASE r.until <= Reward
      BY <1>2, <2>2, <3>1, <3>2 DEF LessReward
    <3>3. CASE ~(r.until <= Reward)
      <4>1. LessReward(r) = [r EXCEPT !.until = @ - Reward]
        BY <2>2, <3>1, <3>3 DEF LessReward
      <4>2. r.until - Reward \in Nat /\ r.until # 0
        BY <2>2, <3>3, PaymentConstants
      <4>3. LessReward(r).tier = r.tier /\ LessReward(r).until = r.until - Reward
        BY <1>1, <4>1
      <4>4. r.until - Reward # None
        BY <4>2, PaymentConstants
      <4> QED BY <3>1, <4>2, <4>3, <4>4
    <3> QED BY <3>2, <3>3
  <2> QED BY <1>1, <2>1, <2>2
<1>5. \A r \in UserRows : Fits(r) /\ r.until \notin {None, 0} => Fits([r EXCEPT !.until = @ - 1])
  <2> SUFFICES ASSUME NEW r \in UserRows, Fits(r), r.until \notin {None, 0}
               PROVE  Fits([r EXCEPT !.until = @ - 1])
    OBVIOUS
  <2>1. r.until - 1 \in Nat
    BY <1>1
  <2>2. r.until - 1 # None
    BY <2>1, PaymentConstants
  <2>3. [r EXCEPT !.until = @ - 1].tier = r.tier /\ [r EXCEPT !.until = @ - 1].until = r.until - 1
    BY <1>1
  <2> QED BY <2>2, <2>3
<1>6. \A r \in UserRows : r.until = 0 => Fits([r EXCEPT !.tier = "free"])
  BY <1>1
<1> SUFFICES ASSUME NEW u \in Users, users'[u] # None, u \notin stale'
             PROVE  Fits(users'[u])
  BY DEF TierFollowsDays
<1>7. users[u] # None /\ u \notin stale => Fits(users[u])
  BY DEF TierFollowsDays
<1>8. \A r \in UserRows : r # None
  BY NoneIsNoRow
<1> HIDE DEF Fits
<1>9. Term \in Nat /\ Reward \in Nat
  BY PaymentConstants
<1>10. CASE \E c \in Charges : CommitPayment(c)
  BY <1>3, <1>7, <1>9, <1>10, PaidRow
<1>11. CASE \E a \in Admins : CommitRefund(a)
  BY <1>2, <1>4, <1>7, <1>8, <1>11, RefundedRow
<1>12. CASE ~(\E c \in Charges : CommitPayment(c)) /\ ~(\E a \in Admins : CommitRefund(a))
  BY <1>2, <1>5, <1>6, <1>7, <1>8, <1>12, OtherRow
<1> QED BY <1>10, <1>11, <1>12

\* A payment counts for its payer and for whom it rewards.
LEMMA PaymentCounts ==
  ASSUME PayInv, NEW c \in Charges, CommitPayment(c), NEW u \in Users
  PROVE  /\ PaidBy(u) \subseteq PaidBy(u)' /\ EarnedBy(u) \subseteq EarnedBy(u)'
         /\ u = Payer(c) => PaidBy(u) # PaidBy(u)'
         /\ u = link[c] /\ view[c][u] # None => EarnedBy(u) # EarnedBy(u)'
<1>1. Recorded' = Recorded \cup {c} /\ c \in Rows /\ c \notin Recorded
  BY CommitRows
<1>2. /\ refunded' = refunded /\ owner' = owner /\ reversed' = reversed
      /\ rewarded' = IF link[c] # None /\ view[c][link[c]] # None
                     THEN [rewarded EXCEPT ![c] = link[c]] ELSE rewarded
  BY DEF CommitPayment
<1>3. owner[c] = Payer(c) /\ c \notin refunded /\ rewarded[c] = None
  BY <1>1 DEF PayInv, TypeOK, Open, CommitPayment, TablesSound, CountsSound
<1>4. \A v \in Users : reversed[c][v] = 0
  BY <1>3 DEF PayInv, CountsSound
<1>5. PaidBy(u) \subseteq PaidBy(u)'
  BY <1>1, <1>2 DEF PaidBy
<1>6. u = Payer(c) => c \in PaidBy(u)' /\ c \notin PaidBy(u)
  BY <1>1, <1>2, <1>3 DEF PaidBy
<1>7. rewarded \in [Charges -> Users \cup {None}] /\ u # None
  BY PaymentConstants DEF PayInv, TypeOK, HistoryTyped
<1>8. EarnedBy(u) \subseteq EarnedBy(u)' /\ c \notin EarnedBy(u)
  BY <1>2, <1>3, <1>7 DEF EarnedBy
<1>9. u = link[c] /\ view[c][u] # None => c \in EarnedBy(u)'
  BY <1>2, <1>4, <1>7 DEF EarnedBy
<1> QED BY <1>5, <1>6, <1>8, <1>9

\* A refund takes away its payment and a reward, and only from those it has read.
LEMMA RefundCounts ==
  ASSUME PayInv, NEW a \in Admins, CommitRefund(a), NEW u \in Users
  PROVE  /\ u # Payer(hand[a]) => PaidBy(u) = PaidBy(u)'
         /\ EarnedBy(u) \ {hand[a]} \subseteq EarnedBy(u)'
         /\ view[a][u] = None => PaidBy(u) = PaidBy(u)' /\ EarnedBy(u) = EarnedBy(u)'
<1>1. Recorded' = Recorded
  BY OtherRows, JobsApart DEF Refund
<1>2. /\ refunded' = refunded \cup {hand[a]} /\ owner' = owner /\ rewarded' = rewarded
      /\ reversed' = IF link[a] # None /\ view[a][link[a]] # None /\ view[a][link[a]].until # None
                     THEN [reversed EXCEPT ![hand[a]][link[a]] = @ + 1] ELSE reversed
  BY DEF CommitRefund
<1>3. /\ hand[a] \in Charges /\ link[a] \in Users \cup {None}
      /\ view[a][Payer(hand[a])] # None
  BY RefundFacts DEF CommitRefund, PayInv, RefundAt, Chosen, Returning
<1>4. owner[hand[a]] \in {None, Payer(hand[a])} /\ u # None
  BY <1>3, PaymentConstants DEF PayInv, Invoiced
<1>5. u # Payer(hand[a]) => PaidBy(u) = PaidBy(u)'
  BY <1>1, <1>2, <1>4 DEF PaidBy
<1>6. reversed \in [Charges -> [Users -> Nat]]
  BY DEF PayInv, TypeOK, HistoryTyped
<1>7. \A c \in Charges :
        reversed'[c][u] = reversed[c][u] \/ (c = hand[a] /\ u = link[a] /\ view[a][u] # None)
  BY <1>2, <1>3, <1>6
<1>8. EarnedBy(u) \ {hand[a]} \subseteq EarnedBy(u)'
  BY <1>2, <1>7 DEF EarnedBy
<1>9. view[a][u] = None => EarnedBy(u) = EarnedBy(u)'
  BY <1>2, <1>7 DEF EarnedBy
<1> QED BY <1>3, <1>5, <1>8, <1>9

\* Nothing else counts, for whoever keeps the account.
LEMMA OtherCounts ==
  ASSUME PayInv, Next, ~(\E c \in Charges : CommitPayment(c)),
         ~(\E a \in Admins : CommitRefund(a)), NEW u \in Users, users'[u] # None
  PROVE  PaidBy(u) = PaidBy(u)' /\ EarnedBy(u) = EarnedBy(u)'
<1>0. TypeOK /\ TablesTyped /\ u # None
  BY PaymentConstants DEF PayInv, TypeOK
<1>1. rewarded' = rewarded /\ reversed' = reversed /\ refunded' = refunded
  BY DEF Next, Pay, Refund, StartBot, DeleteMe, Refer, PreCheckout, Deliver, Insert,
     ReadPayer, ReadReferral, PaymentFails, StartRefund, PickPayment, CallTelegram,
     FindReferral, RefundFails, ReadInviter, ReaperReads, ReaperWrites, ReaperFails, Crash,
     Tick, tableVars, histVars
<1>2. EarnedBy(u) = EarnedBy(u)'
  BY <1>1 DEF EarnedBy
<1>3. ASSUME Recorded' = Recorded,
             \A c \in Recorded : owner'[c] = owner[c]
      PROVE  PaidBy(u) = PaidBy(u)'
  BY <1>1, <1>3 DEF PaidBy
<1>r. Recorded \subseteq Charges
  BY DEF Recorded, Rows
<1>4. ASSUME NEW c \in Charges, Pay(c)
      PROVE  PaidBy(u) = PaidBy(u)'
  <2>1. CASE Insert(c)
    <3>1. Known(c) => owner' = owner
      BY <2>1 DEF Insert
    <3>2. Recorded' = Recorded /\ \A d \in Recorded : d # c => owner'[d] = owner[d]
      BY <1>0, <1>r, <2>1, InsertRows DEF Insert, TablesTyped
    <3>3. c \in Recorded => Known(c)
      BY DEF Known, Recorded
    <3>4. \A d \in Recorded : owner'[d] = owner[d]
      BY <3>1, <3>2, <3>3
    <3> QED BY <1>3, <3>2, <3>4
  <2>2. CASE PaymentFails(c)
    <3>1. Recorded' = Recorded
      BY <2>2, FailRows
    <3>2. \A d \in Recorded : owner'[d] = owner[d]
      <4>1. Open(c) => c \notin Recorded
        BY DEF Recorded
      <4> QED BY <1>0, <1>r, <2>2, <4>1 DEF PaymentFails, TablesTyped
    <3> QED BY <1>3, <3>1, <3>2
  <2>3. CASE Deliver(c) \/ ReadPayer(c) \/ ReadReferral(c)
    BY <1>3, <2>3, OtherRows, JobsApart DEF Deliver, ReadPayer, ReadReferral, tableVars
  <2> QED BY <1>4, <2>1, <2>2, <2>3 DEF Pay
<1>5. CASE Crash
  <2>1. Recorded' = Recorded
    BY <1>5, CrashRows
  <2>2. \A d \in Recorded : owner'[d] = owner[d]
    BY <1>5 DEF Crash, Recorded, Rows
  <2> QED BY <1>2, <1>3, <2>1, <2>2
<1>6. ASSUME NEW j \in Jobs, ReadInviter(j) \/ (j \in Admins /\ Refund(j))
      PROVE  PaidBy(u) = PaidBy(u)'
  <2>1. Recorded' = Recorded
    BY <1>6, OtherRows
  <2>2. owner' = owner
    BY <1>6 DEF ReadInviter, Refund, StartRefund, PickPayment, CallTelegram, FindReferral,
       CommitRefund, RefundFails, tableVars
  <2> QED BY <1>3, <2>1, <2>2
<1>7. CASE Outside
  <2>1. ledger' = ledger /\ pc' = pc
    BY <1>7, OutsideMoves DEF Outside, StartBot, DeleteMe, Refer, PreCheckout, ReaperReads,
       ReaperWrites, ReaperFails, Tick, tableVars, jobVars
  <2>2. Recorded' = Recorded
    BY <2>1 DEF Rows, Recorded, Open
  <2>3. CASE \E v \in Users : DeleteMe(v)
    <3>1. PICK v \in Users : DeleteMe(v)
      BY <2>3
    <3>2. v # u
      BY <1>0, <3>1 DEF DeleteMe, TablesTyped
    <3>3. \A c \in Charges : owner'[c] = IF owner[c] = v THEN None ELSE owner[c]
      BY <3>1 DEF DeleteMe
    <3>4. PaidBy(u)' = {c \in Recorded' \ refunded' : owner'[c] = u}
      BY DEF PaidBy
    <3>5. \A c \in Recorded : owner'[c] = u <=> owner[c] = u
      BY <1>0, <1>r, <3>2, <3>3
    <3> QED BY <1>1, <1>2, <2>2, <3>4, <3>5 DEF PaidBy
  <2>4. CASE owner' = owner
    BY <1>2, <1>3, <2>2, <2>4
  <2> QED BY <1>7, <2>3, <2>4 DEF Outside, StartBot, Refer, PreCheckout, ReaperReads,
    ReaperWrites, ReaperFails, Tick, tableVars
<1> QED BY <1>2, <1>4, <1>5, <1>6, <1>7, JobsApart DEF Next, Outside

\* So do the days of each user, step by step.
LEMMA DaysStay ==
  ASSUME PayInv, PayInv', DaysInv, Next
  PROVE  DaysAreBought'
<1>0. IsFiniteSet(Rows) /\ IsFiniteSet(Rows') /\ DaysAreBought
  BY RowsFinite DEF DaysInv
<1> SUFFICES ASSUME NEW u \in Users, users'[u] # None, u \notin stale', users'[u].until # None
             PROVE  users'[u].until <= Bought(u)'
  BY DEF DaysAreBought
<1>1. Term \in Nat /\ Reward \in Nat
  BY PaymentConstants
<1>2. \A r \in UserRows : r # None /\ r.until \in Nat \cup {None}
                          /\ r = [tier |-> r.tier, until |-> r.until]
  BY NoneIsNoRow DEF UserRows
<1>3. users[u] # None /\ users[u].until # None /\ u \notin stale =>
        users[u] \in UserRows /\ users[u].until \in Nat /\ users[u].until <= Bought(u)
  BY <1>0, <1>2 DEF DaysAreBought, PayInv, TypeOK, TablesTyped
<1>4. CASE \E c \in Charges : CommitPayment(c)
  <2>1. PICK c \in Charges : CommitPayment(c)
    BY <1>4
  <2>2. /\ PaidBy(u) \subseteq PaidBy(u)' /\ EarnedBy(u) \subseteq EarnedBy(u)'
        /\ u = Payer(c) => PaidBy(u) # PaidBy(u)'
        /\ u = link[c] /\ view[c][u] # None => EarnedBy(u) # EarnedBy(u)'
    BY <2>1, PaymentCounts
  <2>3. /\ Bought(u) \in Nat /\ Bought(u)' \in Nat
        /\ Bought(u) <= Bought(u)'
        /\ PaidBy(u) # PaidBy(u)' => Bought(u) + Term <= Bought(u)'
        /\ EarnedBy(u) # EarnedBy(u)' => Bought(u) + Reward <= Bought(u)'
    BY <1>0, <2>2, BoughtGrows
  <2>4. u \notin stale
    BY <2>1, PaidRow
  <2>5. CASE view[c][u] = None /\ users'[u] = users[u]
    BY <1>3, <2>3, <2>4, <2>5
  <2>6. ASSUME NEW n \in Nat, users[u] \in UserRows, users'[u] = Extended(users[u], n),
               Bought(u) + n <= Bought(u)'
        PROVE  users'[u].until <= Bought(u)'
    <3>1. users'[u].until = IF users[u].until = None THEN n ELSE users[u].until + n
      BY <2>6 DEF Extended
    <3>2. CASE users[u].until = None
      BY <2>3, <2>6, <3>1, <3>2
    <3>3. CASE users[u].until # None
      BY <1>2, <1>3, <2>3, <2>4, <2>6, <3>1, <3>3
    <3> QED BY <3>2, <3>3
  <2>7. CASE /\ users[u] \in UserRows /\ u = Payer(c) /\ users'[u] = Extended(users[u], Term)
    BY <1>1, <2>2, <2>3, <2>6, <2>7
  <2>8. CASE /\ users[u] \in UserRows /\ u = link[c] /\ view[c][u] # None
             /\ users'[u] = Extended(users[u], Reward)
    BY <1>1, <2>2, <2>3, <2>6, <2>8
  <2> QED BY <2>1, <2>5, <2>7, <2>8, PaidRow
<1>5. CASE \E a \in Admins : CommitRefund(a)
  <2>1. PICK a \in Admins : CommitRefund(a)
    BY <1>5
  <2>2. u \notin stale
    BY <2>1, RefundedRow
  <2>3. CASE view[a][u] = None /\ users'[u] = users[u]
    <3>1. PaidBy(u) = PaidBy(u)' /\ EarnedBy(u) = EarnedBy(u)'
      BY <2>1, <2>3, RefundCounts
    <3>2. Bought(u) \in Nat /\ Bought(u)' \in Nat /\ Bought(u) <= Bought(u)'
      BY <1>0, <3>1, BoughtGrows
    <3> QED BY <1>3, <2>2, <2>3, <3>2
  <2>4. ~(users'[u] = Free)
    BY DEF Free
  <2>5. CASE /\ users[u] \in UserRows /\ u # Payer(hand[a])
             /\ users'[u] = LessReward(users[u])
    <3>1. PaidBy(u) = PaidBy(u)' /\ EarnedBy(u) \ {hand[a]} \subseteq EarnedBy(u)'
      BY <2>1, <2>5, RefundCounts
    <3>2. Bought(u) \in Nat /\ Bought(u)' \in Nat /\ Bought(u) <= Bought(u)' + Reward
      BY <1>0, <3>1, BoughtShrinks
    <3>3. users[u].until # None /\ users[u] # None
      BY <1>2, <2>5 DEF LessReward
    <3>4. ~(users[u].until <= Reward)
      BY <2>4, <2>5, <3>3 DEF LessReward
    <3>5. users'[u].until = users[u].until - Reward
      BY <1>2, <2>5, <3>3, <3>4 DEF LessReward
    <3> QED BY <1>1, <1>3, <2>2, <3>2, <3>3, <3>4, <3>5
  <2> QED BY <2>1, <2>3, <2>4, <2>5, RefundedRow
<1>6. CASE ~(\E c \in Charges : CommitPayment(c)) /\ ~(\E a \in Admins : CommitRefund(a))
  <2>1. PaidBy(u) = PaidBy(u)' /\ EarnedBy(u) = EarnedBy(u)'
    BY <1>6, OtherCounts
  <2>2. Bought(u) \in Nat /\ Bought(u)' \in Nat /\ Bought(u) <= Bought(u)'
    BY <1>0, <2>1, BoughtGrows
  <2>3. u \notin stale
    BY <1>6, OtherRow
  <2>4. CASE users'[u] = users[u]
    BY <1>3, <2>2, <2>3, <2>4
  <2>5. ~(users'[u] = Free)
    BY DEF Free
  <2>6. CASE /\ users[u] \in UserRows /\ users[u].until \notin {None, 0}
             /\ users'[u] = [users[u] EXCEPT !.until = @ - 1]
    <3>1. users'[u].until = users[u].until - 1
      BY <1>2, <2>6
    <3> QED BY <1>2, <1>3, <2>2, <2>3, <2>6, <3>1
  <2>7. CASE /\ users[u] \in UserRows /\ users[u].until = 0
             /\ users'[u] = [users[u] EXCEPT !.tier = "free"]
    <3>1. users'[u].until = 0
      BY <1>2, <2>7
    <3> QED BY <2>2, <3>1
  <2> QED BY <1>6, <2>4, <2>5, <2>6, <2>7, OtherRow
<1> QED BY <1>4, <1>5, <1>6

\* All of it, and when nothing changes.
LEMMA DaysInvStays ==
  ASSUME PayInv, DaysInv, [Next]_vars
  PROVE  DaysInv'
<1>1. CASE Next
  BY <1>1, PayInvStays, RowsFinite, TierStays, DaysStay DEF DaysInv
<1>2. CASE UNCHANGED vars
  <2>1. UNCHANGED tableVars /\ UNCHANGED jobVars /\ UNCHANGED histVars
    BY <1>2 DEF vars
  <2>2. Rows' = Rows
    BY <2>1 DEF tableVars, Rows
  <2>3. Recorded' = Recorded
    BY <2>1, <2>2 DEF jobVars, Recorded, Open
  <2>4. \A u \in Users : Bought(u)' = Bought(u)
    BY <2>1, <2>3 DEF tableVars, histVars, Bought
  <2> QED BY <2>1, <2>2, <2>4 DEF tableVars, histVars, DaysInv, TierFollowsDays, DaysAreBought
<1> QED BY <1>1, <1>2

\* At the start nobody has any.
LEMMA DaysInvInit ==
  ASSUME Init
  PROVE  DaysInv
<1>1. Rows = {}
  BY DEF Init, Rows
<1>2. \A u \in Users : users[u].until = None /\ users[u].tier = "free"
  BY DEF Init, Free
<1> QED BY <1>1, <1>2, FS_EmptySet DEF DaysInv, TierFollowsDays, DaysAreBought

\* And so they always are.
LEMMA DaysInvHolds == Spec => []DaysInv
<1>1. PayInv /\ DaysInv /\ [Next]_vars => DaysInv'
  BY DaysInvStays
<1> QED BY <1>1, DaysInvInit, PayInvHolds, PTL DEF Spec

\* Nobody has more days left than were paid for and earned, refunds deducted, as long as
\* no row has changed between the SELECT and the end of a transaction.
THEOREM NobodyGetsMore == Spec => []DaysAreBought
<1>1. DaysInv => DaysAreBought
  BY DEF DaysInv
<1> QED BY <1>1, DaysInvHolds, PTL

\* Under the same condition nobody who has days left is on the free tier, and nobody is
\* on the paid tier without an end.
THEOREM TiersFollow == Spec => []TierFollowsDays
<1>1. DaysInv => TierFollowsDays
  BY DEF DaysInv
<1> QED BY <1>1, DaysInvHolds, PTL
=============================================================================
