------------------------- MODULE SubscriptionsProofs -------------------------
(***************************************************************************)
(* Proofs about Subscriptions, for any users, locations, limits and lists  *)
(* of types and any number of taps handled at once: every variable keeps   *)
(* its type, the limit of the tier holds for whoever has no overlapping    *)
(* taps, only a tap from before the deletion can bring a deleted account   *)
(* back, who follows a free location hears of it, and what a button said   *)
(* is what is subscribed.                                                  *)
(***************************************************************************)
EXTENDS Subscriptions, FiniteSetTheorems, TLAPS

\* What is counted is no more than the inputs that made it, and a refund under way has a
\* payment to take back.
Bounded ==
  /\ \A l \in Locs : edition[l] <= inputs
  /\ \A u \in Users : payments[u] <= inputs
  /\ trim # None => payments[trim.user] > 0

TypeInv == TypeOK /\ Bounded

\* The lists of types are ones, and a token in range stands for a type of its list.
LEMMA ListsTyped ==
  ASSUME TypeOK, NEW l \in Locs
  PROVE  /\ kinds[l] \in Seq(Types) /\ Len(kinds[l]) \in Nat
         /\ \A i \in 1..Len(kinds[l]) : kinds[l][i] \in Types
<1>1. kinds[l] \in Catalogs \/ kinds[l] = <<>>
  BY DEF TypeOK
<1>2. kinds[l] \in Seq(Types)
  <2>1. CASE kinds[l] \in Catalogs
    BY <2>1, SubscriptionConstants
  <2>2. CASE kinds[l] = <<>>
    BY <2>2
  <2> QED BY <1>1, <2>1, <2>2
<1> QED BY <1>2

\* What a token in range stands for is a type, or any.
LEMMA ResolvedTyped ==
  ASSUME TypeOK, NEW l \in Locs, NEW token \in Tokens, InRange(l, token)
  PROVE  Resolved(l, token) \in Types \cup {None}
  BY ListsTyped DEF InRange, Resolved, Tokens, AnyType

-----------------------------------------------------------------------------
(* Types *)

JobTyped == job \in [Taps -> Jobs \cup {None}]

\* A tap that is being handled has its locals.
LEMMA JobKnown ==
  ASSUME JobTyped, NEW h \in Taps, job[h] # None
  PROVE  /\ job[h] \in Jobs
         /\ job[h].user \in Users /\ job[h].loc \in Locs /\ job[h].choice \in Choices
         /\ job[h].con \in Types \cup {None} /\ job[h].paid \in BOOLEAN
  BY DEF JobTyped, Jobs

\* It goes on with them.
LEMMA GotoTyped ==
  ASSUME JobTyped, NEW h \in Taps, job[h] # None, NEW where \in {"show", "load"},
         Goto(h, where)
  PROVE  JobTyped'
<1>1. job[h] \in Jobs
  BY JobKnown
<1>2. [job[h] EXCEPT !.at = where, !.paid = FALSE] \in Jobs
  BY <1>1 DEF Jobs
<1>3. job' = [job EXCEPT ![h] = [job[h] EXCEPT !.at = where, !.paid = FALSE]]
  BY DEF Goto, JobTyped
<1> QED BY <1>2, <1>3 DEF JobTyped

\* It ends.
LEMMA FinishTyped ==
  ASSUME JobTyped, NEW h \in Taps, Finish(h)
  PROVE  JobTyped'
  BY DEF Finish, JobTyped

\* It begins.
LEMMA StartedTyped ==
  ASSUME JobTyped, NEW h \in Taps, NEW step \in {"sub", "wlim"}, NEW u \in Users,
         NEW l \in Locs, NEW con \in Types \cup {None}, NEW choice \in Choices
  PROVE  [job EXCEPT ![h] = Started(step, u, l, con, choice)] \in [Taps -> Jobs \cup {None}]
<1>1. Started(step, u, l, con, choice) \in Jobs
  BY DEF Started, Jobs
<1> QED BY <1>1 DEF JobTyped

\* Any type is a choice.
LEMMA AnyChoiceTyped == AnyChoice \in Choices
  BY SubscriptionConstants DEF AnyChoice, Choices, Tokens, AnyType

\* The taps.
LEMMA TapsTyped ==
  ASSUME TypeInv,
         \/ \E h \in Taps, u \in Users, l \in Locs : TapSubscribe(h, u, l)
         \/ \E k \in chat : \E c \in k.choices :
              TapConnector(k, c) \/ \E h \in Taps : TapLimit(h, k, c)
  PROVE  TypeInv'
<1> USE SubscriptionConstants DEF TypeInv, TypeOK, Bounded, dbVars, pollVars, worldVars,
    histVars, boundVars
<1>1. ASSUME NEW h \in Taps, NEW u \in Users, NEW l \in Locs, TapSubscribe(h, u, l)
      PROVE  TypeInv'
  <2>1. JobTyped'
    BY <1>1, StartedTyped, AnyChoiceTyped DEF TapSubscribe, JobTyped
  <2> QED
    BY <1>1, <2>1 DEF TapSubscribe, JobTyped
<1>2. ASSUME NEW k \in chat, NEW c \in k.choices, TapConnector(k, c)
      PROVE  TypeInv'
  <2>1. Keyboard("wlim", k.user, k.loc, {c}) \in Keyboards
    BY <1>2 DEF Keyboards, Keyboard
  <2> QED
    BY <1>2, <2>1 DEF TapConnector
<1>3. ASSUME NEW h \in Taps, NEW k \in chat, NEW c \in k.choices, TapLimit(h, k, c)
      PROVE  TypeInv'
  <2>1. k.user \in Users /\ k.loc \in Locs /\ c \in Choices /\ c.token \in Tokens
    BY DEF Keyboards, Choices
  <2>2. Resolved(k.loc, c.token) \in Types \cup {None}
    BY <1>3, <2>1, ResolvedTyped DEF TapLimit
  <2>3. JobTyped'
    BY <1>3, <2>1, <2>2, StartedTyped DEF TapLimit, JobTyped
  <2>4. /\ inputs' \in 0..MaxInputs /\ inputs <= inputs'
        /\ erased' \subseteq erased /\ revived' \subseteq erased'
        /\ UNCHANGED <<dbVars, kinds, events, chat, trim, pollVars, worldVars, widened, raced,
                       faults>>
    BY <1>3 DEF TapLimit
  <2>5. Bounded'
    BY <2>4
  <2> QED
    BY <2>3, <2>4, <2>5 DEF JobTyped
<1> QED
  BY <1>1, <1>2, <1>3

\* What an owner knows does not change which subscriptions there are.
LEMMA HeardTyped ==
  ASSUME TypeOK, NEW some \in SUBSET subs, NEW what \in {"due", "told", "missed", "blind"},
         subs' = (subs \ some) \cup Heard(some, what)
  PROVE  /\ subs' \subseteq Rows
         /\ \A r, s \in subs' : r.user = s.user /\ r.loc = s.loc => r = s
         /\ \A u \in Users : LocsOf(u)' = LocsOf(u)
<1> DEFINE heard(r) == [r EXCEPT !.ear = what]
<1>1. \A r \in some : heard(r) \in Rows /\ heard(r).user = r.user /\ heard(r).loc = r.loc
  <2>1. \A r \in Rows : heard(r) \in Rows /\ heard(r).user = r.user /\ heard(r).loc = r.loc
    BY DEF Rows
  <2>2. some \subseteq Rows
    BY DEF TypeOK
  <2> HIDE DEF heard
  <2> QED BY <2>1, <2>2
<1>2. \A x \in subs' : x \in subs \ some \/ \E r \in some : x = heard(r)
  BY DEF Heard
<1>3. \A r \in some : heard(r) \in subs'
  BY DEF Heard
<1>4. subs' \subseteq Rows
  BY <1>1, <1>2 DEF TypeOK
<1>5. ASSUME NEW r \in subs', NEW s \in subs', r.user = s.user, r.loc = s.loc
      PROVE  r = s
  <2>1. PICK a \in subs : a.user = r.user /\ a.loc = r.loc
                          /\ IF a \in some THEN r = heard(a) ELSE r = a
    BY <1>1, <1>2
  <2>2. PICK b \in subs : b.user = s.user /\ b.loc = s.loc
                          /\ IF b \in some THEN s = heard(b) ELSE s = b
    BY <1>1, <1>2
  <2>3. a = b
    BY <1>5, <2>1, <2>2 DEF TypeOK
  <2> QED BY <2>1, <2>2, <2>3
<1>6. ASSUME NEW u \in Users
      PROVE  LocsOf(u)' = LocsOf(u)
  <2>1. \A r \in subs' : \E a \in subs : a.user = r.user /\ a.loc = r.loc
    <3> SUFFICES ASSUME NEW x \in subs'
                 PROVE  \E a \in subs : a.user = x.user /\ a.loc = x.loc
      OBVIOUS
    <3>1. CASE x \in subs \ some
      BY <3>1
    <3>2. ASSUME NEW r \in some, x = heard(r)
          PROVE  \E a \in subs : a.user = x.user /\ a.loc = x.loc
      <4>1. r \in subs /\ r.user = x.user /\ r.loc = x.loc
        BY <1>1, <3>2
      <4> QED BY <4>1
    <3> QED BY <1>2, <3>1, <3>2
  <2>2. \A a \in subs : \E r \in subs' : a.user = r.user /\ a.loc = r.loc
    <3> SUFFICES ASSUME NEW a \in subs
                 PROVE  \E r \in subs' : a.user = r.user /\ a.loc = r.loc
      OBVIOUS
    <3>1. CASE a \in some
      BY <1>1, <1>3, <3>1
    <3>2. CASE a \notin some
      BY <3>2
    <3> QED BY <3>1, <3>2
  <2> QED BY <2>1, <2>2 DEF LocsOf, RowsOf
<1> QED BY <1>4, <1>5, <1>6

\* What a handler does with its tap.
LEMMA HandlersTyped ==
  ASSUME TypeInv, NEW h \in Taps,
         \/ EnsureUser(h) \/ CountRows(h) \/ LoadLocation(h) \/ Abort(h)
         \/ ShowTypes(h) \/ Insert(h) \/ Hint(h)
  PROVE  TypeInv'
<1> DEFINE j == job[h]
<1>1. j # None /\ JobTyped /\ j \in Jobs /\ j.user \in Users /\ j.loc \in Locs
      /\ j.choice \in Choices
  BY JobKnown DEF TypeInv, TypeOK, JobTyped, EnsureUser, CountRows, LoadLocation, Abort,
     ShowTypes, Insert, Hint
<1> USE SubscriptionConstants DEF TypeInv, TypeOK, Bounded, dbVars, pollVars, worldVars,
    histVars, boundVars
<1>2. CASE EnsureUser(h)
  <2>1. [j EXCEPT !.at = "count", !.paid = EffectivelyPaid(j.user)] \in Jobs
    BY <1>1 DEF Jobs, EffectivelyPaid
  <2>2. job' = [job EXCEPT ![h] = [j EXCEPT !.at = "count", !.paid = EffectivelyPaid(j.user)]]
    BY <1>1, <1>2 DEF EnsureUser
  <2>3. JobTyped'
    BY <2>1, <2>2 DEF JobTyped
  <2> QED
    BY <1>1, <1>2, <2>3 DEF EnsureUser, JobTyped
<1>3. CASE CountRows(h)
  <2>1. JobTyped'
    BY <1>1, <1>3, FinishTyped, GotoTyped DEF CountRows
  <2> QED
    BY <1>1, <1>3, <2>1 DEF CountRows, JobTyped
<1>4. CASE LoadLocation(h)
  <2>1. [j EXCEPT !.at = "insert", !.free = station[j.loc] = "AVAILABLE"] \in Jobs
    BY <1>1 DEF Jobs
  <2>2. job' = [job EXCEPT ![h] = [j EXCEPT !.at = "insert", !.free = station[j.loc] = "AVAILABLE"]]
    BY <1>1, <1>4 DEF LoadLocation
  <2> QED
    BY <1>1, <1>4, <2>1, <2>2 DEF LoadLocation
<1>5. CASE Abort(h)
  <2>1. JobTyped'
    BY <1>1, <1>5, FinishTyped DEF Abort
  <2> QED
    BY <1>5, <2>1 DEF Abort, JobTyped
<1>6. CASE ShowTypes(h)
  <2>1. JobTyped'
    BY <1>1, <1>6, FinishTyped DEF ShowTypes
  <2>2. \A i \in 1..Len(kinds[j.loc]) :
          [token |-> i, label |-> kinds[j.loc][i], edition |-> edition[j.loc]] \in Choices
    BY <1>1, ListsTyped DEF Choices, Tokens
  <2>3. chat' \subseteq Keyboards
    <3> DEFINE named == {[token |-> i, label |-> kinds[j.loc][i], edition |-> edition[j.loc]] :
                         i \in 1..Len(kinds[j.loc])}
               choices == {AnyChoice} \cup named
    <3>1. choices \in SUBSET Choices
      BY <2>2, AnyChoiceTyped
    <3>2. \A step \in {"wcon", "wlim"} : Keyboard(step, j.user, j.loc, choices) \in Keyboards
      BY <1>1, <3>1 DEF Keyboard, Keyboards
    <3>3. PICK step \in {"wcon", "wlim"} :
            chat' = chat \cup {Keyboard(step, j.user, j.loc, choices)}
      BY <1>6 DEF ShowTypes
    <3> QED
      BY <3>2, <3>3
  <2> QED
    BY <1>6, <2>1, <2>3 DEF ShowTypes, JobTyped
<1>7. CASE Insert(h)
  <2>1. JobTyped'
    <3>1. CASE Insertable(j) /\ j.free
      <4>1. [j EXCEPT !.at = "hint", !.choice = AnyChoice, !.con = None] \in Jobs
        BY <1>1, AnyChoiceTyped DEF Jobs
      <4>2. job' = [job EXCEPT ![h] = [j EXCEPT !.at = "hint", !.choice = AnyChoice, !.con = None]]
        BY <1>1, <1>7, <3>1 DEF Insert
      <4> QED
        BY <4>1, <4>2, <1>1 DEF JobTyped
    <3>2. CASE ~(Insertable(j) /\ j.free)
      BY <1>1, <1>7, <3>2, FinishTyped DEF Insert
    <3> QED BY <3>1, <3>2
  <2>2. subs' \subseteq Rows /\ \A r, s \in subs' : r.user = s.user /\ r.loc = s.loc => r = s
    <3>1. CASE Insertable(j)
      <4>1. PICK row \in Rows :
              subs' = subs \cup {row} /\ row.user = j.user /\ row.loc = j.loc
        <5>1. \A ear \in {"missed", "due"} : [user |-> j.user, loc |-> j.loc, ear |-> ear] \in Rows
          BY <1>1 DEF Rows
        <5> QED BY <1>7, <3>1, <5>1 DEF Insert
      <4> QED BY <3>1, <4>1 DEF Insertable
    <3>2. CASE ~Insertable(j)
      BY <1>7, <3>2 DEF Insert
    <3> QED BY <3>1, <3>2
  <2> QED
    BY <1>1, <1>7, <2>1, <2>2 DEF Insert, JobTyped
<1>8. CASE Hint(h)
  <2>1. JobTyped'
    BY <1>1, <1>8, FinishTyped DEF Hint
  <2>2. subs' \subseteq Rows /\ \A r, s \in subs' : r.user = s.user /\ r.loc = s.loc => r = s
    <3> DEFINE mine == {r \in subs : r.user = j.user /\ r.loc = j.loc}
    <3>1. mine \subseteq subs /\ subs' = (subs \ mine) \cup Heard(mine, "told")
      BY <1>8 DEF Hint
    <3> QED BY <3>1, HeardTyped
  <2> QED
    BY <1>8, <2>1, <2>2 DEF Hint, JobTyped
<1> QED
  BY <1>2, <1>3, <1>4, <1>5, <1>6, <1>7, <1>8

\* Rows that go, accounts, tiers.
LEMMA AccountsTyped ==
  ASSUME TypeInv,
         \/ \E r \in subs : Unsubscribe(r)
         \/ \E u \in Users : DeleteMe(u) \/ Pay(u) \/ Lapse(u) \/ RefundSelect(u)
         \/ RefundCommit \/ RefundFails
  PROVE  TypeInv'
<1> USE SubscriptionConstants DEF TypeInv, TypeOK, Bounded, dbVars, pollVars, worldVars,
    histVars, boundVars
<1>1. ASSUME NEW r \in subs, Unsubscribe(r)
      PROVE  TypeInv'
  BY <1>1 DEF Unsubscribe
<1>2. ASSUME NEW u \in Users, DeleteMe(u)
      PROVE  TypeInv'
  BY <1>2 DEF DeleteMe, RowsOf
<1>3. ASSUME NEW u \in Users, Pay(u)
      PROVE  TypeInv'
  BY <1>3 DEF Pay
<1>4. ASSUME NEW u \in Users, Lapse(u)
      PROVE  TypeInv'
  BY <1>4 DEF Lapse
<1>5. ASSUME NEW u \in Users, RefundSelect(u)
      PROVE  TypeInv'
  <2>1. OldestKept(u) \subseteq SUBSET Locs
    <3>1. LocsOf(u) \subseteq Locs
      BY DEF LocsOf, RowsOf, Rows
    <3> QED BY <3>1 DEF OldestKept
  <2>2. PICK rows \in OldestKept(u) :
          trim' = [user |-> u, cuts |-> tier[u] # "free", rows |-> rows]
    BY <1>5 DEF RefundSelect
  <2>3. trim' \in [user : Users, cuts : BOOLEAN, rows : SUBSET Locs] /\ trim'.user = u
    BY <2>1, <2>2
  <2> QED BY <1>5, <2>3 DEF RefundSelect
<1>6. CASE RefundCommit
  BY <1>6 DEF RefundCommit
<1>7. CASE RefundFails
  BY <1>7 DEF RefundFails
<1> QED
  BY <1>1, <1>2, <1>3, <1>4, <1>5, <1>6, <1>7

\* A tap that has been overtaken is the same tap.
LEMMA OvertakenTyped ==
  ASSUME TypeOK, NEW l \in Locs
  PROVE  /\ Overtaken(l) \in [Taps -> Jobs \cup {None}]
         /\ \A h \in Taps : job[h] # None =>
              /\ Overtaken(l)[h].user = job[h].user /\ Overtaken(l)[h].at = job[h].at
              /\ Overtaken(l)[h].step = job[h].step /\ Overtaken(l)[h].paid = job[h].paid
              /\ Overtaken(l)[h].loc = job[h].loc /\ Overtaken(l)[h].con = job[h].con
              /\ Overtaken(l)[h].choice = job[h].choice
         /\ \A h \in Taps : job[h] = None => Overtaken(l)[h] = None
<1>1. \A h \in Taps : job[h] # None =>
        /\ [job[h] EXCEPT !.lost = TRUE] \in Jobs
        /\ [job[h] EXCEPT !.lost = TRUE].user = job[h].user
        /\ [job[h] EXCEPT !.lost = TRUE].at = job[h].at
        /\ [job[h] EXCEPT !.lost = TRUE].step = job[h].step
        /\ [job[h] EXCEPT !.lost = TRUE].paid = job[h].paid
        /\ [job[h] EXCEPT !.lost = TRUE].loc = job[h].loc
        /\ [job[h] EXCEPT !.lost = TRUE].con = job[h].con
        /\ [job[h] EXCEPT !.lost = TRUE].choice = job[h].choice
  <2>1. \A j \in Jobs :
          /\ [j EXCEPT !.lost = TRUE] \in Jobs
          /\ [j EXCEPT !.lost = TRUE].user = j.user /\ [j EXCEPT !.lost = TRUE].at = j.at
          /\ [j EXCEPT !.lost = TRUE].step = j.step /\ [j EXCEPT !.lost = TRUE].paid = j.paid
          /\ [j EXCEPT !.lost = TRUE].loc = j.loc /\ [j EXCEPT !.lost = TRUE].con = j.con
          /\ [j EXCEPT !.lost = TRUE].choice = j.choice
    BY DEF Jobs
  <2> QED BY <2>1, JobKnown DEF TypeOK, JobTyped
<1>2. \A h \in Taps : job[h] \in Jobs \cup {None}
  BY DEF TypeOK
<1> QED BY <1>1, <1>2 DEF Overtaken

\* The poller and the notifier.
LEMMA PollerTyped ==
  ASSUME TypeInv, NEW l \in Locs,
         \/ Change(l) \/ Observe(l) \/ Publish(l) \/ Dispatch(l)
         \/ Follow(l) \/ Unfollow(l) \/ CatalogueSync(l)
         \/ \E types \in Catalogs : ConnectorsTick(l, types)
  PROVE  TypeInv'
<1> USE SubscriptionConstants DEF TypeInv, TypeOK, Bounded, dbVars, pollVars, worldVars,
    histVars, boundVars, Coalesced
<1>1. CASE Change(l)
  BY <1>1 DEF Change
<1>2. CASE Observe(l)
  <2> DEFINE here == {r \in subs : r.loc = l}
             due == {r \in here : r.ear = "due"}
  <2>1. \/ subs' = subs
        \/ subs' = (subs \ due) \cup Heard(due, "blind")
        \/ subs' = (subs \ here) \cup Heard(here, "due")
    BY <1>2 DEF Observe
  <2>2. subs' \subseteq Rows /\ \A r, s \in subs' : r.user = s.user /\ r.loc = s.loc => r = s
    <3>1. due \subseteq subs /\ here \subseteq subs
      OBVIOUS
    <3> QED BY <2>1, <3>1, HeardTyped
  <2>3. job' \in [Taps -> Jobs \cup {None}]
    BY <1>2, OvertakenTyped DEF Observe
  <2> QED
    BY <1>2, <2>2, <2>3 DEF Observe
<1>3. CASE Publish(l)
  BY <1>3 DEF Publish
<1>4. CASE Dispatch(l)
  <2> DEFINE here == {r \in subs : r.loc = l}
  <2>1. here \subseteq subs /\ subs' = (subs \ here) \cup Heard(here, "told")
    BY <1>4 DEF Dispatch
  <2>2. subs' \subseteq Rows /\ \A r, s \in subs' : r.user = s.user /\ r.loc = s.loc => r = s
    BY <2>1, HeardTyped
  <2>3. job' \in [Taps -> Jobs \cup {None}]
    BY <1>4, OvertakenTyped DEF Dispatch
  <2>4. events' \in [Locs -> Nat]
    BY <1>4 DEF Dispatch
  <2>5. UNCHANGED <<tier, payments, station, kinds, chat, trim, pollVars, worldVars,
                    histVars, boundVars>>
    BY <1>4 DEF Dispatch
  <2> QED
    BY <2>2, <2>3, <2>4, <2>5
<1>5. CASE Follow(l)
  BY <1>5 DEF Follow
<1>6. CASE Unfollow(l)
  BY <1>6 DEF Unfollow
<1>7. CASE CatalogueSync(l)
  BY <1>7 DEF CatalogueSync
<1>8. ASSUME NEW types \in Catalogs, ConnectorsTick(l, types)
      PROVE  TypeInv'
  BY <1>8 DEF ConnectorsTick
<1> QED
  BY <1>1, <1>2, <1>3, <1>4, <1>5, <1>6, <1>7, <1>8

\* At first.
LEMMA InitTyped == Init => TypeInv
<1> SUFFICES ASSUME Init
             PROVE  TypeInv
  OBVIOUS
<1>1. Bounded
  BY SubscriptionConstants DEF Init, Bounded
<1>2. follows \subseteq Locs
  BY DEF Init, Locs
<1>3. TypeOK
  BY <1>2, SubscriptionConstants DEF Init, TypeOK, Statuses
<1> QED BY <1>1, <1>3 DEF TypeInv

\* Every step preserves the types.
LEMMA StepTyped ==
  ASSUME TypeInv, [Next]_vars
  PROVE  TypeInv'
<1>1. CASE UNCHANGED vars
  BY <1>1 DEF vars, dbVars, pollVars, worldVars, histVars, boundVars, TypeInv, TypeOK, Bounded
<1>2. CASE Next
  BY <1>2, TapsTyped, HandlersTyped, AccountsTyped, PollerTyped DEF Next
<1> QED BY <1>1, <1>2

\* Every variable has its type in every behaviour, and no user has two subscriptions to
\* one location.
THEOREM TypeInvariant == Spec => []TypeOK
<1>1. TypeInv => TypeOK
  BY DEF TypeInv
<1> QED
  BY <1>1, InitTyped, StepTyped, PTL DEF Spec

-----------------------------------------------------------------------------
(* The limit.  The argument: a tap that has passed the limit and is not done *)
(* is the user's only one and has a place kept for it; a refund under way    *)
(* leaves one row; and `widened` holds whoever is paid.                      *)

WidenedByTier(u) ==
  /\ tier[u] = "paid" => u \in widened
  /\ tier[u] \in {"gone", "free"} => u \notin widened

\* What a tap read of the tier still holds.
TierReadHolds(u) ==
  \A h \in Taps : job[h] # None /\ job[h].user = u /\ job[h].step = "wlim" /\ job[h].paid
    => u \in widened

\* There is a place for the one tap that will insert.
PlaceKept(u) ==
  /\ Cardinality(LocsOf(u)) <= TierLimit(u \in widened)
  /\ \A g, h \in Inserting(u) : g = h
  /\ Inserting(u) # {} => Cardinality(LocsOf(u)) < TierLimit(u \in widened)

\* A refund that ends now leaves one row at most.
CutLeavesOne(u) ==
  trim # None /\ trim.user = u => \A k, l \in LocsOf(u) \ trim.rows : k = l

Roomy(u) ==
  /\ IsFiniteSet(LocsOf(u)) /\ WidenedByTier(u)
  /\ u \notin raced => TierReadHolds(u) /\ PlaceKept(u) /\ CutLeavesOne(u)

\* Only the last step of the wizard inserts.
LastStepInserts ==
  \A h \in Taps : job[h] # None /\ job[h].at \in {"load", "insert"} => job[h].step = "wlim"

LimitInv == TypeInv /\ LastStepInserts /\ \A u \in Users : Roomy(u)

\* A user has as many rows as locations.
LEMMA AsManyRows ==
  ASSUME TypeOK, NEW u \in Users, IsFiniteSet(LocsOf(u))
  PROVE  Cardinality(RowsOf(u)) = Cardinality(LocsOf(u))
<1> DEFINE row(l) == CHOOSE r \in RowsOf(u) : r.loc = l
           f == [l \in LocsOf(u) |-> row(l)]
<1>1. \A l \in LocsOf(u) : row(l) \in RowsOf(u) /\ row(l).loc = l
  BY DEF LocsOf
<1>2. \A r \in RowsOf(u) : r.loc \in LocsOf(u) /\ row(r.loc) = r
  <2>1. \A r, s \in RowsOf(u) : r.loc = s.loc => r = s
    BY DEF TypeOK, RowsOf
  <2>2. \A r \in RowsOf(u) : r.loc \in LocsOf(u)
    BY DEF LocsOf
  <2> HIDE DEF row
  <2> QED BY <1>1, <2>1, <2>2
<1> HIDE DEF row
<1>3. f \in [LocsOf(u) -> RowsOf(u)]
  BY <1>1
<1>4. \A k, l \in LocsOf(u) : f[k] = f[l] => k = l
  BY <1>1
<1>5. \A r \in RowsOf(u) : \E l \in LocsOf(u) : f[l] = r
  BY <1>2
<1> HIDE DEF f
<1>6. f \in Bijection(LocsOf(u), RowsOf(u))
  BY <1>3, <1>4, <1>5 DEF Bijection, Injection, Surjection, IsInjective
<1> QED BY <1>6, FS_Bijection DEF ExistsBijection

\* Most steps: the user gets no row, no tap of theirs passes the limit, a refund leaves
\* no more than it would have.
LEMMA RoomKept ==
  ASSUME LimitInv, NEW u \in Users,
         LocsOf(u)' \subseteq LocsOf(u), u \in raced => u \in raced',
         WidenedByTier(u)', u \in widened => u \in widened',
         u \notin raced => TierReadHolds(u)', Inserting(u)' \subseteq Inserting(u),
         u \notin raced => CutLeavesOne(u)'
  PROVE  Roomy(u)'
<1>1. /\ IsFiniteSet(LocsOf(u)) /\ IsFiniteSet(LocsOf(u)')
      /\ Cardinality(LocsOf(u)') \in Nat /\ Cardinality(LocsOf(u)) \in Nat
      /\ Cardinality(LocsOf(u)') <= Cardinality(LocsOf(u))
  BY FS_Subset, FS_CardinalityType DEF LimitInv, Roomy
<1>2. TierLimit(u \in widened) \in Nat /\ TierLimit(u \in widened') \in Nat
      /\ TierLimit(u \in widened) <= TierLimit(u \in widened')
  BY SubscriptionConstants DEF TierLimit
<1>3. ASSUME u \notin raced'
      PROVE  PlaceKept(u)'
  <2>1. PlaceKept(u)
    BY <1>3 DEF LimitInv, Roomy
  <2>2. Cardinality(LocsOf(u)') <= TierLimit(u \in widened')
    BY <1>1, <1>2, <2>1 DEF PlaceKept
  <2>3. \A g, h \in Inserting(u)' : g = h
    BY <2>1 DEF PlaceKept
  <2>4. Inserting(u)' # {} => Cardinality(LocsOf(u)') < TierLimit(u \in widened')
    BY <1>1, <1>2, <2>1 DEF PlaceKept
  <2> QED BY <2>2, <2>3, <2>4 DEF PlaceKept, TierLimit
<1> QED BY <1>1, <1>3 DEF Roomy

\* A tap starts far from its INSERT.
LEMMA TapsRoom ==
  ASSUME LimitInv,
         \/ \E h \in Taps, u \in Users, l \in Locs : TapSubscribe(h, u, l)
         \/ \E k \in chat : \E c \in k.choices :
              TapConnector(k, c) \/ \E h \in Taps : TapLimit(h, k, c)
  PROVE  LastStepInserts' /\ \A u \in Users : Roomy(u)'
<1>1. JobTyped /\ UNCHANGED <<dbVars, trim, widened, raced>>
  BY DEF TapSubscribe, TapConnector, TapLimit, LimitInv, TypeInv, TypeOK, JobTyped, dbVars,
     histVars
<1>2. \A g \in Taps : job'[g] # job[g] => ~job'[g].paid /\ job'[g].at = "ensure"
  <2>1. ASSUME NEW h \in Taps, NEW step, NEW v, NEW l, NEW con, NEW choice,
               job' = [job EXCEPT ![h] = Started(step, v, l, con, choice)]
        PROVE  \A g \in Taps : job'[g] # job[g] => ~job'[g].paid /\ job'[g].at = "ensure"
    BY <1>1, <2>1 DEF Started, JobTyped
  <2>2. ASSUME NEW h \in Taps, NEW u \in Users, NEW l \in Locs, TapSubscribe(h, u, l)
        PROVE  \A g \in Taps : job'[g] # job[g] => ~job'[g].paid /\ job'[g].at = "ensure"
    BY <2>1, <2>2 DEF TapSubscribe
  <2>3. ASSUME NEW k \in chat, NEW c \in k.choices, TapConnector(k, c)
        PROVE  job' = job
    BY <2>3 DEF TapConnector
  <2>4. ASSUME NEW k \in chat, NEW c \in k.choices, NEW h \in Taps, TapLimit(h, k, c)
        PROVE  \A g \in Taps : job'[g] # job[g] => ~job'[g].paid /\ job'[g].at = "ensure"
    BY <2>1, <2>4 DEF TapLimit
  <2> QED BY <2>2, <2>3, <2>4
<1>0. LastStepInserts'
  BY <1>2 DEF LimitInv, LastStepInserts
<1> SUFFICES ASSUME NEW u \in Users
             PROVE  Roomy(u)'
  BY <1>0
<1>3. LocsOf(u)' = LocsOf(u)
  BY <1>1 DEF LocsOf, RowsOf, dbVars
<1>4. Inserting(u)' \subseteq Inserting(u)
  BY <1>2 DEF Inserting, Busy
<1>5. Roomy(u)
  BY DEF LimitInv
<1>6. u \notin raced => TierReadHolds(u)'
  BY <1>1, <1>2, <1>5 DEF Roomy, TierReadHolds
<1>7. u \notin raced => CutLeavesOne(u)'
  BY <1>1, <1>3, <1>5 DEF Roomy, CutLeavesOne
<1>8. WidenedByTier(u)'
  BY <1>1, <1>5 DEF Roomy, WidenedByTier, dbVars
<1> QED BY <1>1, <1>3, <1>4, <1>6, <1>7, <1>8, RoomKept

\* The poller and the notifier.
LEMMA PollerRoom ==
  ASSUME LimitInv, NEW l \in Locs,
         \/ Change(l) \/ Observe(l) \/ Publish(l) \/ Dispatch(l)
         \/ Follow(l) \/ Unfollow(l) \/ CatalogueSync(l)
         \/ \E types \in Catalogs : ConnectorsTick(l, types)
  PROVE  LastStepInserts' /\ \A u \in Users : Roomy(u)'
<1>1. /\ UNCHANGED <<tier, trim, widened, raced>>
      /\ job' = job \/ job' = Overtaken(l)
      /\ subs' = subs \/ \E some \in SUBSET subs, what \in {"due", "told", "missed", "blind"} :
                           subs' = (subs \ some) \cup Heard(some, what)
  BY DEF Change, Observe, Publish, Dispatch, Follow, Unfollow, CatalogueSync, ConnectorsTick,
     dbVars, histVars
<1>2. TypeOK
  BY DEF LimitInv, TypeInv
<1>3. \A h \in Taps : job'[h] # None =>
        /\ job[h] # None /\ job'[h].user = job[h].user /\ job'[h].at = job[h].at
        /\ job'[h].step = job[h].step /\ job'[h].paid = job[h].paid
  BY <1>1, <1>2, OvertakenTyped
<1>0. LastStepInserts'
  BY <1>3 DEF LimitInv, LastStepInserts
<1> SUFFICES ASSUME NEW u \in Users
             PROVE  Roomy(u)'
  BY <1>0
<1>4. LocsOf(u)' = LocsOf(u)
  <2>1. CASE subs' = subs
    BY <2>1 DEF LocsOf, RowsOf
  <2>2. CASE subs' # subs
    BY <1>1, <1>2, <2>2, HeardTyped
  <2> QED BY <2>1, <2>2
<1>5. Roomy(u)
  BY DEF LimitInv
<1>6. Inserting(u)' \subseteq Inserting(u)
  BY <1>3 DEF Inserting, Busy
<1>7. u \notin raced => TierReadHolds(u)' /\ CutLeavesOne(u)'
  BY <1>1, <1>3, <1>4, <1>5 DEF Roomy, TierReadHolds, CutLeavesOne
<1>8. WidenedByTier(u)'
  BY <1>1, <1>5 DEF Roomy, WidenedByTier
<1> QED BY <1>1, <1>4, <1>6, <1>7, <1>8, RoomKept

\* A handler: one that passes the limit keeps a place, one that inserts takes it.
LEMMA HandlersRoom ==
  ASSUME LimitInv, NEW h \in Taps,
         \/ EnsureUser(h) \/ CountRows(h) \/ LoadLocation(h) \/ Abort(h)
         \/ ShowTypes(h) \/ Insert(h) \/ Hint(h)
  PROVE  LastStepInserts' /\ \A u \in Users : Roomy(u)'
<1> DEFINE j == job[h]
           full == Counted(j) /\ LimitReached(Cardinality(RowsOf(j.user)), j.paid)
<1>1. j # None /\ JobTyped /\ j \in Jobs /\ j.user \in Users /\ TypeOK /\ j.paid \in BOOLEAN
  BY JobKnown DEF LimitInv, TypeInv, TypeOK, JobTyped, EnsureUser, CountRows, LoadLocation,
     Abort, ShowTypes, Insert, Hint
<1>2. widened' = widened /\ trim' = trim /\ raced \subseteq raced'
  BY DEF EnsureUser, CountRows, LoadLocation, Abort, ShowTypes, Insert, Hint, histVars
<1>3. /\ \A g \in Taps \ {h} : job'[g] = job[g]
      /\ job'[h] # None =>
           /\ job'[h].user = j.user /\ job'[h].step = j.step
           /\ job'[h].paid => j.paid \/ (EnsureUser(h) /\ EffectivelyPaid(j.user))
           /\ job'[h].at \in {"load", "insert"} =>
                \/ CountRows(h) /\ ~full /\ j.step = "wlim"
                \/ j.at \in {"load", "insert"}
  <2>1. CASE Finish(h)
    BY <1>1, <2>1 DEF Finish, JobTyped
  <2>2. CASE CountRows(h) /\ ~full /\ j.step = "sub"
    <3>1. Goto(h, "show")
      BY <2>2 DEF CountRows
    <3> QED BY <1>1, <3>1 DEF Goto, JobTyped, Jobs
  <2>3. CASE CountRows(h) /\ ~full /\ j.step # "sub"
    <3>1. Goto(h, "load") /\ j.step = "wlim"
      BY <1>1, <2>3 DEF CountRows, Jobs
    <3> HIDE DEF full
    <3> QED BY <1>1, <2>3, <3>1 DEF Goto, JobTyped, Jobs
  <2>4. CASE EnsureUser(h)
    BY <1>1, <2>4 DEF EnsureUser, JobTyped, Jobs
  <2>5. CASE LoadLocation(h)
    BY <1>1, <2>5 DEF LoadLocation, JobTyped, Jobs
  <2>6. CASE Insert(h) /\ ~Finish(h)
    BY <1>1, <2>6 DEF Insert, JobTyped, Jobs
  <2> QED
    BY <2>1, <2>2, <2>3, <2>4, <2>5, <2>6 DEF CountRows, Abort, ShowTypes, Hint
<1> HIDE DEF full
<1>0. LastStepInserts'
  BY <1>1, <1>3 DEF LimitInv, LastStepInserts
<1> SUFFICES ASSUME NEW u \in Users
             PROVE  Roomy(u)'
  BY <1>0
<1>4. Roomy(u) /\ IsFiniteSet(LocsOf(u)) /\ Cardinality(LocsOf(u)) \in Nat
  BY FS_CardinalityType DEF LimitInv, Roomy
<1>5. WidenedByTier(u)'
  BY <1>1, <1>2, <1>4 DEF Roomy, WidenedByTier, EnsureUser, CountRows, LoadLocation, Abort,
     ShowTypes, Insert, Hint, dbVars, TypeOK
<1>6. u \notin raced => TierReadHolds(u)'
  <2>1. EnsureUser(h) /\ EffectivelyPaid(u) => u \in widened
    BY <1>4 DEF EffectivelyPaid, Roomy, WidenedByTier
  <2> QED BY <1>1, <1>2, <1>3, <1>4, <2>1 DEF Roomy, TierReadHolds
<1>7. CASE u # j.user
  <2>1. LocsOf(u)' = LocsOf(u)
    <3>1. CASE Insert(h) /\ Insertable(j)
      <4>1. PICK row : row.user = j.user /\ subs' = subs \cup {row}
        BY <3>1 DEF Insert
      <4> QED BY <1>7, <4>1 DEF LocsOf, RowsOf
    <3>2. CASE Hint(h)
      <4> DEFINE mine == {r \in subs : r.user = j.user /\ r.loc = j.loc}
      <4>1. mine \subseteq subs /\ subs' = (subs \ mine) \cup Heard(mine, "told")
        BY <3>2 DEF Hint
      <4> QED BY <1>1, <4>1, HeardTyped
    <3>3. CASE ~(Insert(h) /\ Insertable(j)) /\ ~Hint(h)
      <4>1. subs' = subs
        BY <3>3 DEF EnsureUser, CountRows, LoadLocation, Abort, ShowTypes, Insert, dbVars
      <4> QED BY <4>1 DEF LocsOf, RowsOf
    <3> QED BY <3>1, <3>2, <3>3
  <2>2. Inserting(u)' \subseteq Inserting(u)
    BY <1>3, <1>7 DEF Inserting, Busy
  <2>3. u \notin raced => CutLeavesOne(u)'
    BY <1>2, <1>4, <2>1 DEF Roomy, CutLeavesOne
  <2> QED BY <1>2, <1>5, <1>6, <2>1, <2>2, <2>3, RoomKept
<1>8. CASE Insert(h) /\ Insertable(j) /\ u = j.user
  <2>1. LocsOf(u)' = LocsOf(u) \cup {j.loc} /\ j.loc \notin LocsOf(u)
    <3>1. PICK row : row.user = j.user /\ row.loc = j.loc /\ subs' = subs \cup {row}
      BY <1>8 DEF Insert
    <3>2. RowsOf(u)' = RowsOf(u) \cup {row}
      BY <1>8, <3>1 DEF RowsOf
    <3>3. j.loc \notin LocsOf(u)
      BY <1>8 DEF Insertable, LocsOf, RowsOf
    <3> QED BY <3>1, <3>2, <3>3 DEF LocsOf
  <2>2. /\ IsFiniteSet(LocsOf(u)') /\ Cardinality(LocsOf(u)') = Cardinality(LocsOf(u)) + 1
    BY <1>4, <2>1, FS_AddElement
  <2>3. ASSUME u \notin raced'
        PROVE  PlaceKept(u)' /\ CutLeavesOne(u)'
    <3>1. u \notin raced /\ ~(trim # None /\ trim.user = u)
      BY <1>8, <2>3 DEF Insert
    <3>2. h \in Inserting(u)
      BY <1>1, <1>8 DEF Inserting, Busy, Insert, LimitInv, LastStepInserts
    <3>3. Cardinality(LocsOf(u)) < TierLimit(u \in widened) /\ Inserting(u) \subseteq {h}
      BY <1>4, <3>1, <3>2 DEF Roomy, PlaceKept
    <3>4. job'[h] # None => job'[h].at = "hint"
      BY <1>1, <1>8 DEF Insert, Finish, JobTyped, Jobs
    <3>5. Inserting(u)' = {}
      BY <1>3, <3>3, <3>4 DEF Inserting, Busy
    <3>6. TierLimit(u \in widened) \in Nat
      BY SubscriptionConstants DEF TierLimit
    <3>7. Cardinality(LocsOf(u)') <= TierLimit(u \in widened)
      BY <1>4, <2>2, <3>3, <3>6
    <3> QED BY <1>2, <3>1, <3>5, <3>7 DEF PlaceKept, CutLeavesOne, TierLimit
  <2> QED BY <1>2, <1>5, <1>6, <2>2, <2>3 DEF Roomy
<1>9. CASE ~(Insert(h) /\ Insertable(j)) /\ u = j.user
  <2>1. LocsOf(u)' = LocsOf(u)
    <3>1. CASE Hint(h)
      <4> DEFINE mine == {r \in subs : r.user = j.user /\ r.loc = j.loc}
      <4>1. mine \subseteq subs /\ subs' = (subs \ mine) \cup Heard(mine, "told")
        BY <3>1 DEF Hint
      <4> QED BY <1>1, <4>1, HeardTyped
    <3>2. CASE ~Hint(h)
      <4>1. subs' = subs
        BY <1>9, <3>2 DEF EnsureUser, CountRows, LoadLocation, Abort, ShowTypes, Insert, dbVars
      <4> QED BY <4>1 DEF LocsOf, RowsOf
    <3> QED BY <3>1, <3>2
  <2>2. u \notin raced => CutLeavesOne(u)'
    BY <1>2, <1>4, <2>1 DEF Roomy, CutLeavesOne
  <2>3. CASE CountRows(h) /\ ~full /\ j.step = "wlim"
    <3>1. Cardinality(RowsOf(u)) = Cardinality(LocsOf(u))
      BY <1>1, <1>4, AsManyRows
    <3>2. Cardinality(LocsOf(u)) < TierLimit(j.paid)
      <4>1. ~LimitReached(Cardinality(RowsOf(u)), j.paid)
        BY <1>9, <2>3 DEF full, Counted
      <4>2. TierLimit(j.paid) \in Nat
        BY <1>1, SubscriptionConstants DEF TierLimit
      <4> QED BY <1>4, <3>1, <4>1, <4>2 DEF LimitReached
    <3>3. ASSUME u \notin raced'
          PROVE  PlaceKept(u)'
      <4>1. u \notin raced /\ Inserting(u) = {}
        <5>1. raced' = IF Inserting(j.user) # {} THEN raced \cup {j.user} ELSE raced
          BY <2>3 DEF CountRows, full
        <5> QED BY <1>9, <3>3, <5>1
      <4>2. Inserting(u)' \subseteq {h}
        BY <1>3, <4>1 DEF Inserting, Busy
      <4>3. j.paid => u \in widened
        BY <1>1, <1>4, <1>9, <2>3, <4>1 DEF Roomy, TierReadHolds
      <4>4. Cardinality(LocsOf(u)) < TierLimit(u \in widened)
        BY <1>1, <1>4, <3>2, <4>3, SubscriptionConstants DEF TierLimit
      <4>5. TierLimit(u \in widened) \in Nat
        BY SubscriptionConstants DEF TierLimit
      <4>6. Cardinality(LocsOf(u)) <= TierLimit(u \in widened)
        BY <1>4, <4>4, <4>5
      <4> QED BY <1>2, <2>1, <4>2, <4>4, <4>6 DEF PlaceKept, TierLimit
    <3> QED BY <1>2, <1>4, <1>5, <1>6, <2>1, <2>2, <3>3 DEF Roomy
  <2>4. CASE ~(CountRows(h) /\ ~full /\ j.step = "wlim")
    <3>1. Inserting(u)' \subseteq Inserting(u)
      BY <1>1, <1>3, <2>4 DEF Inserting, Busy
    <3> QED BY <1>2, <1>5, <1>6, <2>1, <2>2, <3>1, RoomKept
  <2> QED BY <2>3, <2>4
<1> QED BY <1>7, <1>8, <1>9

\* Rows that go, accounts, tiers: what narrows the limit has no tap to wait for, or the
\* user is exempt.
LEMMA AccountsRoom ==
  ASSUME LimitInv,
         \/ \E r \in subs : Unsubscribe(r)
         \/ \E u \in Users : DeleteMe(u) \/ Pay(u) \/ Lapse(u) \/ RefundSelect(u)
         \/ RefundCommit \/ RefundFails
  PROVE  LastStepInserts' /\ \A u \in Users : Roomy(u)'
<1>1. job' = job /\ raced \subseteq raced' /\ TypeOK
  BY DEF Unsubscribe, DeleteMe, Pay, Lapse, RefundSelect, RefundCommit, RefundFails, dbVars,
     histVars, LimitInv, TypeInv
<1>2. LastStepInserts'
  BY <1>1 DEF LimitInv, LastStepInserts
<1> SUFFICES ASSUME NEW u \in Users
             PROVE  Roomy(u)'
  BY <1>2
<1>3. /\ Roomy(u) /\ WidenedByTier(u) /\ IsFiniteSet(LocsOf(u)) /\ Inserting(u)' = Inserting(u)
      /\ u \notin raced => TierReadHolds(u) /\ PlaceKept(u) /\ CutLeavesOne(u)
  BY <1>1 DEF LimitInv, Roomy, Inserting, Busy
\* Nothing of u changes but what room is kept for.
<1>4. ASSUME LocsOf(u)' \subseteq LocsOf(u), WidenedByTier(u)', u \in widened <=> u \in widened',
             u \notin raced => CutLeavesOne(u)'
      PROVE  Roomy(u)'
  <2>1. u \notin raced => TierReadHolds(u)'
    BY <1>1, <1>3, <1>4 DEF TierReadHolds
  <2> QED BY <1>1, <1>3, <1>4, <2>1, RoomKept
\* The limit is narrow again, nothing is under way, one row is left at most.
<1>5. ASSUME LocsOf(u)' \subseteq LocsOf(u), WidenedByTier(u)', u \notin widened', trim' = None,
             (\E h \in Busy(u) : job[h].step = "wlim") => u \in raced',
             u \notin raced => \A k, l \in LocsOf(u)' : k = l
      PROVE  Roomy(u)'
  <2>1. IsFiniteSet(LocsOf(u)')
    BY <1>3, <1>5, FS_Subset
  <2>2. ASSUME u \notin raced'
        PROVE  TierReadHolds(u)' /\ PlaceKept(u)' /\ CutLeavesOne(u)'
    <3>1. Inserting(u)' = {} /\ TierReadHolds(u)'
      BY <1>1, <1>3, <1>5, <2>2 DEF Inserting, Busy, TierReadHolds
    <3>2. Cardinality(LocsOf(u)') <= 1
      <4>1. CASE LocsOf(u)' = {}
        BY <4>1, FS_EmptySet
      <4>2. CASE LocsOf(u)' # {}
        <5>1. PICK l : LocsOf(u)' = {l}
          BY <1>1, <1>5, <2>2, <4>2
        <5>2. Cardinality({l}) = 1
          BY FS_Singleton
        <5> QED BY <5>1, <5>2
      <4> QED BY <4>1, <4>2
    <3>3. FreeLimit >= 1 /\ FreeLimit \in Nat /\ Cardinality(LocsOf(u)') \in Nat
      BY <2>1, SubscriptionConstants, FS_CardinalityType
    <3>4. Cardinality(LocsOf(u)') <= FreeLimit
      BY <3>2, <3>3
    <3> QED BY <1>5, <3>1, <3>4 DEF PlaceKept, CutLeavesOne, TierLimit
  <2> QED BY <1>5, <2>1, <2>2 DEF Roomy
<1>6. ASSUME NEW r \in subs, Unsubscribe(r)
      PROVE  Roomy(u)'
  <2>1. LocsOf(u)' \subseteq LocsOf(u)
    BY <1>6 DEF Unsubscribe, LocsOf, RowsOf
  <2>2. WidenedByTier(u)' /\ widened' = widened
    BY <1>3, <1>6 DEF Unsubscribe, WidenedByTier, histVars
  <2>3. ASSUME u \notin raced
        PROVE  CutLeavesOne(u)'
    <3>1. CASE trim # None /\ trim.user = u /\ r.user = u
      <4>1. trim'.rows = trim.rows \ {r.loc} /\ r.loc \notin LocsOf(u)'
        <5>1. trim' = [trim EXCEPT !.rows = @ \ {r.loc}] /\ subs' = subs \ {r}
          BY <1>6, <3>1 DEF Unsubscribe
        <5>2. trim \in [user : Users, cuts : BOOLEAN, rows : SUBSET Locs]
          BY <1>1, <3>1 DEF TypeOK
        <5>3. \A s \in subs : s.user = r.user /\ s.loc = r.loc => s = r
          BY <1>1, <1>6 DEF TypeOK
        <5> QED BY <3>1, <5>1, <5>2, <5>3 DEF LocsOf, RowsOf
      <4>2. LocsOf(u)' \ trim'.rows \subseteq LocsOf(u) \ trim.rows
        BY <2>1, <4>1
      <4> QED BY <1>3, <2>3, <3>1, <4>2 DEF CutLeavesOne
    <3>2. CASE ~(trim # None /\ trim.user = u /\ r.user = u)
      <4>1. trim' # None /\ trim'.user = u => trim # None /\ trim.user = u /\ trim' = trim
        <5>1. CASE trim # None /\ trim.user = r.user
          <6>1. trim' = [trim EXCEPT !.rows = @ \ {r.loc}]
            BY <1>6, <5>1 DEF Unsubscribe
          <6>2. trim'.user = trim.user
            BY <1>1, <5>1, <6>1 DEF TypeOK
          <6> QED BY <3>2, <5>1, <6>2
        <5>2. CASE ~(trim # None /\ trim.user = r.user)
          BY <1>6, <5>2 DEF Unsubscribe
        <5> QED BY <5>1, <5>2
      <4> QED BY <1>3, <2>1, <2>3, <4>1 DEF CutLeavesOne
    <3> QED BY <3>1, <3>2
  <2> QED BY <1>4, <2>1, <2>2, <2>3
<1>7. ASSUME NEW v \in Users, DeleteMe(v)
      PROVE  Roomy(u)'
  <2>1. CASE u = v
    <3>1. LocsOf(u)' = {}
      BY <1>7, <2>1 DEF DeleteMe, LocsOf, RowsOf
    <3>2. tier'[u] = "gone" /\ u \notin widened'
      BY <1>1, <1>7, <2>1 DEF DeleteMe, TypeOK
    <3>3. CutLeavesOne(u)'
      BY <3>1 DEF CutLeavesOne
    <3>4. ASSUME u \notin raced'
          PROVE  TierReadHolds(u)' /\ PlaceKept(u)'
      <4>1. ~\E h \in Busy(u) : job[h].step = "wlim"
        BY <1>7, <2>1, <3>4 DEF DeleteMe
      <4>2. Inserting(u)' = {} /\ TierReadHolds(u)'
        BY <1>1, <1>3, <4>1 DEF Inserting, Busy, TierReadHolds
      <4> QED BY <3>1, <4>2, FS_EmptySet, SubscriptionConstants DEF PlaceKept, TierLimit
    <3> QED BY <3>1, <3>2, <3>3, <3>4, FS_EmptySet DEF Roomy, WidenedByTier
  <2>2. CASE u # v
    <3>1. LocsOf(u)' = LocsOf(u)
      BY <1>7, <2>2 DEF DeleteMe, LocsOf, RowsOf
    <3>2. tier'[u] = tier[u] /\ (u \in widened <=> u \in widened')
      BY <1>1, <1>7, <2>2 DEF DeleteMe, TypeOK
    <3>3. trim' = None \/ trim' = trim
      BY <1>7 DEF DeleteMe
    <3>4. u \notin raced => CutLeavesOne(u)'
      BY <1>3, <3>1, <3>3 DEF CutLeavesOne
    <3> QED BY <1>3, <1>4, <3>1, <3>2, <3>4 DEF WidenedByTier
  <2> QED BY <2>1, <2>2
<1>8. ASSUME NEW v \in Users, Pay(v) \/ Lapse(v)
       PROVE  Roomy(u)'
  <2>1. LocsOf(u)' = LocsOf(u) /\ trim' = trim /\ widened \subseteq widened'
    BY <1>8 DEF Pay, Lapse, LocsOf, RowsOf, histVars
  <2>2. WidenedByTier(u)'
    BY <1>1, <1>3, <1>8 DEF Pay, Lapse, WidenedByTier, histVars, TypeOK
  <2>3. u \notin raced => TierReadHolds(u)' /\ CutLeavesOne(u)'
    BY <1>1, <1>3, <2>1 DEF TierReadHolds, CutLeavesOne
  <2> QED BY <1>1, <1>3, <2>1, <2>2, <2>3, RoomKept
<1>9. ASSUME NEW v \in Users, RefundSelect(v)
       PROVE  Roomy(u)'
  <2>1. LocsOf(u)' = LocsOf(u) /\ tier' = tier /\ widened' = widened
    BY <1>9 DEF RefundSelect, LocsOf, RowsOf, dbVars, histVars
  <2>2. PICK rows \in OldestKept(v) : trim'.user = v /\ trim'.rows = rows
    BY <1>9 DEF RefundSelect
  <2>3. \A k, l \in LocsOf(v) \ rows : k = l
    BY <2>2 DEF OldestKept
  <2>4. CutLeavesOne(u)'
    BY <2>1, <2>2, <2>3 DEF CutLeavesOne
  <2> QED BY <1>3, <1>4, <2>1, <2>4 DEF WidenedByTier
<1>10. CASE RefundCommit
  <2> DEFINE v == trim.user
  <2>1. /\ LocsOf(u)' \subseteq LocsOf(u) /\ trim' = None
        /\ u # v => tier'[u] = tier[u] /\ (u \in widened <=> u \in widened')
    BY <1>1, <1>10 DEF RefundCommit, LocsOf, RowsOf, TypeOK
  <2>2. CutLeavesOne(u)'
    BY <2>1 DEF CutLeavesOne
  <2>3. CASE u # v
    BY <1>3, <1>4, <2>1, <2>2, <2>3 DEF WidenedByTier
  <2>4. CASE u = v /\ tier'[u] # "free"
    <3>1. tier' = tier /\ widened' = widened
      BY <1>1, <1>10, <2>4 DEF RefundCommit, TypeOK
    <3> QED BY <1>3, <1>4, <2>1, <2>2, <3>1 DEF WidenedByTier
  <2>5. CASE u = v /\ tier'[u] = "free"
    <3>1. u \notin widened' /\ ((\E h \in Busy(u) : job[h].step = "wlim") => u \in raced')
      BY <1>10, <2>5 DEF RefundCommit
    <3>2. LocsOf(u)' \subseteq LocsOf(u) \ trim.rows
      BY <1>10, <2>5 DEF RefundCommit, LocsOf, RowsOf
    <3>3. u \notin raced => \A k, l \in LocsOf(u)' : k = l
      BY <1>3, <1>10, <2>5, <3>2 DEF CutLeavesOne, RefundCommit
    <3>4. WidenedByTier(u)'
      BY <2>5, <3>1 DEF WidenedByTier
    <3> QED BY <1>5, <2>1, <3>1, <3>3, <3>4
  <2> QED BY <2>3, <2>4, <2>5
<1>11. CASE RefundFails
  <2>1. LocsOf(u)' = LocsOf(u) /\ tier' = tier /\ widened' = widened /\ trim' = None
    BY <1>11 DEF RefundFails, LocsOf, RowsOf, dbVars, histVars
  <2> QED BY <1>3, <1>4, <2>1 DEF WidenedByTier, CutLeavesOne
<1> QED
  BY <1>6, <1>7, <1>8, <1>9, <1>10, <1>11

\* At first nobody has a row.
LEMMA InitRoom == Init => LimitInv
<1> SUFFICES ASSUME Init
             PROVE  LimitInv
  OBVIOUS
<1>1. TypeInv
  BY InitTyped
<1>2. \A h \in Taps : job[h] = None
  BY DEF Init
<1>3. \A u \in Users : Roomy(u)
  <2> SUFFICES ASSUME NEW u \in Users
               PROVE  Roomy(u)
    OBVIOUS
  <2>1. LocsOf(u) = {} /\ Inserting(u) = {} /\ trim = None /\ WidenedByTier(u)
    BY <1>2 DEF Init, LocsOf, RowsOf, Inserting, Busy, WidenedByTier
  <2>2. TierReadHolds(u)
    BY <1>2 DEF TierReadHolds
  <2>3. PlaceKept(u)
    BY <2>1, FS_EmptySet, SubscriptionConstants DEF PlaceKept, TierLimit
  <2> QED BY <2>1, <2>2, <2>3, FS_EmptySet DEF Roomy, CutLeavesOne
<1> QED BY <1>1, <1>2, <1>3 DEF LimitInv, LastStepInserts

\* Every step keeps room.
LEMMA StepRoom ==
  ASSUME LimitInv, [Next]_vars
  PROVE  LimitInv'
<1>1. TypeInv'
  BY StepTyped DEF LimitInv
<1>2. LastStepInserts' /\ \A u \in Users : Roomy(u)'
  <2>1. CASE UNCHANGED vars
    BY <2>1 DEF vars, dbVars, histVars, LimitInv, LastStepInserts, Roomy, WidenedByTier,
       TierReadHolds, PlaceKept, CutLeavesOne, Inserting, Busy, LocsOf, RowsOf, TierLimit
  <2>2. CASE Next
    BY <2>2, TapsRoom, HandlersRoom, AccountsRoom, PollerRoom DEF Next
  <2> QED BY <2>1, <2>2
<1> QED BY <1>1, <1>2 DEF LimitInv

\* A user has no more rows than the tier allows, or than it allowed while it was paid,
\* unless two of their insertions, or one and a refund or a deletion, have overlapped.
THEOREM LimitHolds == Spec => []LimitUnlessRaced
<1>1. LimitInv => LimitUnlessRaced
  <2> SUFFICES ASSUME LimitInv, NEW u \in Users \ raced
               PROVE  Cardinality(RowsOf(u)) <= TierLimit(u \in widened)
    BY DEF LimitUnlessRaced
  <2>1. Cardinality(RowsOf(u)) = Cardinality(LocsOf(u))
    BY AsManyRows DEF LimitInv, TypeInv, Roomy
  <2> QED BY <2>1 DEF LimitInv, Roomy, PlaceKept
<1> QED
  BY <1>1, InitRoom, StepRoom, PTL DEF Spec

-----------------------------------------------------------------------------
(* Deleted accounts.  The argument: only a tap under way can bring one back,  *)
(* a refund under way ends with the account, and whatever tap of the last     *)
(* step the deletion meets makes the user `raced`.                            *)

ErasedUser(u) ==
  /\ tier[u] # "gone" => u \in revived
  /\ LocsOf(u) # {} => tier[u] # "gone" /\ u \in raced
  /\ trim # None /\ trim.user = u => tier[u] # "gone"
  /\ \A h \in Taps : job[h] # None /\ job[h].user = u /\ job[h].step = "wlim" => u \in raced

ErasedInv == LimitInv /\ \A u \in erased : ErasedUser(u)

\* Most steps: the user's account and history stay, and no row, refund or tap comes.
LEMMA ErasedKept ==
  ASSUME NEW u, ErasedUser(u),
         tier'[u] = tier[u], u \in revived => u \in revived', u \in raced => u \in raced',
         LocsOf(u)' \subseteq LocsOf(u),
         trim' # None /\ trim'.user = u => trim # None /\ trim.user = u,
         \A h \in Taps : job'[h] # None /\ job'[h].user = u =>
           job[h] # None /\ job[h].user = u /\ job'[h].step = job[h].step
  PROVE  ErasedUser(u)'
  BY DEF ErasedUser

\* A tap ends what /delete_me promised, to its own user only.
LEMMA TapsErased ==
  ASSUME ErasedInv,
         \/ \E h \in Taps, u \in Users, l \in Locs : TapSubscribe(h, u, l)
         \/ \E k \in chat : \E c \in k.choices :
              TapConnector(k, c) \/ \E h \in Taps : TapLimit(h, k, c)
  PROVE  \A u \in erased' : ErasedUser(u)'
<1>0. JobTyped /\ TypeOK
  BY DEF ErasedInv, LimitInv, TypeInv, TypeOK, JobTyped
<1>1. ASSUME NEW h \in Taps, NEW u \in Users, NEW step, NEW l \in Locs, NEW con, NEW choice,
             job' = [job EXCEPT ![h] = Started(step, u, l, con, choice)],
             erased' = erased \ {u}, revived' = revived \ {u},
             UNCHANGED <<dbVars, trim, raced>>
      PROVE  \A v \in erased' : ErasedUser(v)'
  <2>1. job'[h].user = u /\ \A g \in Taps \ {h} : job'[g] = job[g]
    BY <1>0, <1>1 DEF Started, JobTyped
  <2>2. tier' = tier /\ \A v \in Users : LocsOf(v)' = LocsOf(v)
    BY <1>1 DEF dbVars, LocsOf, RowsOf
  <2>3. \A v \in erased' : v # u /\ v \in Users /\ ErasedUser(v)
    BY <1>0, <1>1 DEF ErasedInv, TypeOK
  <2> QED BY <1>1, <2>1, <2>2, <2>3, ErasedKept
<1>2. ASSUME NEW h \in Taps, NEW u \in Users, NEW l \in Locs, TapSubscribe(h, u, l)
      PROVE  \A v \in erased' : ErasedUser(v)'
  BY <1>1, <1>2 DEF TapSubscribe
<1>3. ASSUME NEW k \in chat, NEW c \in k.choices, TapConnector(k, c)
      PROVE  \A v \in erased' : ErasedUser(v)'
  BY <1>3 DEF TapConnector, ErasedInv, ErasedUser, LocsOf, RowsOf, dbVars, histVars
<1>4. ASSUME NEW k \in chat, NEW c \in k.choices, NEW h \in Taps, TapLimit(h, k, c)
      PROVE  \A v \in erased' : ErasedUser(v)'
  <2>1. k.user \in Users /\ k.loc \in Locs
    BY <1>0 DEF TypeOK, Keyboards
  <2> QED BY <1>1, <1>4, <2>1 DEF TapLimit
<1> QED BY <1>2, <1>3, <1>4

\* A handler of an erased user: its tap came before the deletion.  ensure_user revives the
\* account; what it inserts needs one, and is an insertion that the deletion met.
LEMMA HandlersErased ==
  ASSUME ErasedInv, NEW h \in Taps,
         \/ EnsureUser(h) \/ CountRows(h) \/ LoadLocation(h) \/ Abort(h)
         \/ ShowTypes(h) \/ Insert(h) \/ Hint(h)
  PROVE  \A u \in erased' : ErasedUser(u)'
<1> DEFINE j == job[h]
<1>1. j # None /\ JobTyped /\ j \in Jobs /\ j.user \in Users /\ TypeOK
  BY JobKnown DEF ErasedInv, LimitInv, TypeInv, TypeOK, JobTyped, EnsureUser, CountRows,
     LoadLocation, Abort, ShowTypes, Insert, Hint
<1>2. erased' = erased /\ trim' = trim /\ raced \subseteq raced' /\ revived \subseteq revived'
  BY DEF EnsureUser, CountRows, LoadLocation, Abort, ShowTypes, Insert, Hint, histVars
<1>3. \A g \in Taps : job'[g] # None =>
        job[g] # None /\ job'[g].user = job[g].user /\ job'[g].step = job[g].step
  <2>1. CASE Finish(h)
    BY <1>1, <2>1 DEF Finish, JobTyped
  <2>2. ASSUME NEW where \in {"show", "load"}, Goto(h, where)
        PROVE  \A g \in Taps : job'[g] # None =>
                 job[g] # None /\ job'[g].user = job[g].user /\ job'[g].step = job[g].step
    BY <1>1, <2>2 DEF Goto, JobTyped, Jobs
  <2>3. CASE EnsureUser(h)
    BY <1>1, <2>3 DEF EnsureUser, JobTyped, Jobs
  <2>4. CASE LoadLocation(h)
    BY <1>1, <2>4 DEF LoadLocation, JobTyped, Jobs
  <2>5. CASE Insert(h) /\ ~Finish(h)
    BY <1>1, <2>5 DEF Insert, JobTyped, Jobs
  <2> QED
    BY <2>1, <2>2, <2>3, <2>4, <2>5 DEF CountRows, Abort, ShowTypes, Hint
<1> SUFFICES ASSUME NEW u \in erased
             PROVE  ErasedUser(u)'
  BY <1>2
<1>4. u \in Users /\ ErasedUser(u)
  BY <1>1 DEF TypeOK, ErasedInv
<1>5. CASE EnsureUser(h)
  <2>1. LocsOf(u)' = LocsOf(u)
    BY <1>5 DEF EnsureUser, LocsOf, RowsOf
  <2>2. tier'[u] = tier[u] \/ (tier'[u] # "gone" /\ u \in revived')
    BY <1>1, <1>4, <1>5 DEF EnsureUser, TypeOK
  <2> QED BY <1>2, <1>3, <1>4, <2>1, <2>2 DEF ErasedUser
<1>6. CASE Insert(h)
  <2>1. tier' = tier
    BY <1>6 DEF Insert
  <2>2. u # j.user \/ ~Insertable(j) => LocsOf(u)' = LocsOf(u)
    BY <1>6 DEF Insert, LocsOf, RowsOf
  <2>3. u = j.user /\ Insertable(j) => tier[u] # "gone" /\ u \in raced
    BY <1>1, <1>4, <1>6 DEF Insert, Insertable, ErasedUser, ErasedInv, LimitInv,
       LastStepInserts
  <2> QED BY <1>2, <1>3, <1>4, <2>1, <2>2, <2>3 DEF ErasedUser
<1>7. CASE CountRows(h) \/ LoadLocation(h) \/ Abort(h) \/ ShowTypes(h) \/ Hint(h)
  <2>1. tier' = tier
    BY <1>7 DEF CountRows, LoadLocation, Abort, ShowTypes, Hint, dbVars
  <2>2. LocsOf(u)' = LocsOf(u)
    <3>1. CASE Hint(h)
      <4> DEFINE mine == {r \in subs : r.user = j.user /\ r.loc = j.loc}
      <4>1. mine \subseteq subs /\ subs' = (subs \ mine) \cup Heard(mine, "told")
        BY <3>1 DEF Hint
      <4> QED BY <1>1, <1>4, <4>1, HeardTyped
    <3>2. CASE ~Hint(h)
      BY <1>7, <3>2 DEF CountRows, LoadLocation, Abort, ShowTypes, dbVars, LocsOf, RowsOf
    <3> QED BY <3>1, <3>2
  <2> QED BY <1>2, <1>3, <1>4, <2>1, <2>2, ErasedKept
<1> QED BY <1>5, <1>6, <1>7

\* A payment and a refund need the account; a deletion ends the refund of its user.
LEMMA AccountsErased ==
  ASSUME ErasedInv,
         \/ \E r \in subs : Unsubscribe(r)
         \/ \E u \in Users : DeleteMe(u) \/ Pay(u) \/ Lapse(u) \/ RefundSelect(u)
         \/ RefundCommit \/ RefundFails
  PROVE  \A u \in erased' : ErasedUser(u)'
<1>0. TypeOK /\ \A u \in erased : u \in Users /\ ErasedUser(u)
  BY DEF ErasedInv, LimitInv, TypeInv, TypeOK
<1>1. job' = job
  BY DEF Unsubscribe, DeleteMe, Pay, Lapse, RefundSelect, RefundCommit, RefundFails
<1>2. tier \in [Users -> {"gone", "free", "paid", "lapsed"}]
  BY <1>0 DEF TypeOK
<1>3. ASSUME NEW r \in subs, Unsubscribe(r)
      PROVE  \A v \in erased' : ErasedUser(v)'
  <2>1. trim' # None => trim # None /\ trim'.user = trim.user
    BY <1>0, <1>3 DEF Unsubscribe, TypeOK
  <2>2. UNCHANGED <<tier, erased, revived, raced>> /\ \A v : LocsOf(v)' \subseteq LocsOf(v)
    BY <1>3 DEF Unsubscribe, histVars, LocsOf, RowsOf
  <2> QED BY <1>0, <1>1, <2>1, <2>2, ErasedKept
<1>4. ASSUME NEW u \in Users, DeleteMe(u)
      PROVE  \A v \in erased' : ErasedUser(v)'
  <2>1. erased' = erased \cup {u} /\ revived' = revived \ {u} /\ raced \subseteq raced'
    BY <1>4 DEF DeleteMe
  <2>2. tier'[u] = "gone" /\ \A v \in Users \ {u} : tier'[v] = tier[v]
    BY <1>2, <1>4 DEF DeleteMe
  <2>3. LocsOf(u)' = {} /\ \A v : LocsOf(v)' \subseteq LocsOf(v)
    BY <1>4 DEF DeleteMe, LocsOf, RowsOf
  <2>4. trim' # None => trim' = trim /\ trim.user # u
    BY <1>4 DEF DeleteMe
  <2>5. (\E h \in Busy(u) : job[h].step = "wlim") => u \in raced'
    BY <1>4 DEF DeleteMe
  <2>6. ErasedUser(u)'
    BY <1>1, <2>2, <2>3, <2>4, <2>5 DEF ErasedUser, Busy
  <2>7. ASSUME NEW v \in erased \ {u}
        PROVE  ErasedUser(v)'
    BY <1>0, <1>1, <2>1, <2>2, <2>3, <2>4, ErasedKept
  <2> QED BY <2>1, <2>6, <2>7
<1>5. ASSUME NEW u \in Users, Pay(u) \/ Lapse(u)
      PROVE  \A v \in erased' : ErasedUser(v)'
  <2>1. UNCHANGED <<trim, erased, revived, raced>> /\ \A v : LocsOf(v)' = LocsOf(v)
    BY <1>5 DEF Pay, Lapse, histVars, LocsOf, RowsOf
  <2>2. \A v \in Users : tier'[v] = tier[v] \/ (tier[v] # "gone" /\ tier'[v] # "gone")
    BY <1>2, <1>5 DEF Pay, Lapse
  <2> QED BY <1>0, <1>1, <2>1, <2>2 DEF ErasedUser
<1>6. ASSUME NEW u \in Users, RefundSelect(u)
      PROVE  \A v \in erased' : ErasedUser(v)'
  <2>1. UNCHANGED <<tier, erased, revived, raced>> /\ \A v : LocsOf(v)' = LocsOf(v)
    BY <1>6 DEF RefundSelect, dbVars, histVars, LocsOf, RowsOf
  <2>2. trim'.user = u /\ tier[u] # "gone"
    BY <1>6 DEF RefundSelect
  <2> QED BY <1>0, <1>1, <2>1, <2>2 DEF ErasedUser
<1>7. CASE RefundCommit
  <2>1. trim # None /\ trim' = None /\ erased' = erased /\ revived' = revived
        /\ raced \subseteq raced' /\ \A v : LocsOf(v)' \subseteq LocsOf(v)
    BY <1>7 DEF RefundCommit, LocsOf, RowsOf
  <2>2. \A v \in Users : tier'[v] = tier[v] \/ (v = trim.user /\ tier'[v] = "free")
    BY <1>2, <1>7 DEF RefundCommit
  <2> QED BY <1>0, <1>1, <2>1, <2>2 DEF ErasedUser
<1>8. CASE RefundFails
  <2>1. UNCHANGED <<tier, erased, revived, raced>> /\ trim' = None
        /\ \A v : LocsOf(v)' = LocsOf(v)
    BY <1>8 DEF RefundFails, dbVars, histVars, LocsOf, RowsOf
  <2> QED BY <1>0, <1>1, <2>1, ErasedKept
<1> QED BY <1>3, <1>4, <1>5, <1>6, <1>7, <1>8

\* The poller and the notifier write no users and no new rows.
LEMMA PollerErased ==
  ASSUME ErasedInv, NEW l \in Locs,
         \/ Change(l) \/ Observe(l) \/ Publish(l) \/ Dispatch(l)
         \/ Follow(l) \/ Unfollow(l) \/ CatalogueSync(l)
         \/ \E types \in Catalogs : ConnectorsTick(l, types)
  PROVE  \A u \in erased' : ErasedUser(u)'
<1>1. /\ UNCHANGED <<tier, trim, erased, revived, raced>>
      /\ job' = job \/ job' = Overtaken(l)
      /\ subs' = subs \/ \E some \in SUBSET subs, what \in {"due", "told", "missed", "blind"} :
                           subs' = (subs \ some) \cup Heard(some, what)
  BY DEF Change, Observe, Publish, Dispatch, Follow, Unfollow, CatalogueSync, ConnectorsTick,
     dbVars, histVars
<1>2. TypeOK /\ \A u \in erased : u \in Users /\ ErasedUser(u)
  BY DEF ErasedInv, LimitInv, TypeInv, TypeOK
<1>3. \A h \in Taps : job'[h] # None =>
        job[h] # None /\ job'[h].user = job[h].user /\ job'[h].step = job[h].step
  BY <1>1, <1>2, OvertakenTyped
<1>4. \A u \in Users : LocsOf(u)' = LocsOf(u)
  <2>1. CASE subs' = subs
    BY <2>1 DEF LocsOf, RowsOf
  <2>2. CASE subs' # subs
    BY <1>1, <1>2, <2>2, HeardTyped
  <2> QED BY <2>1, <2>2
<1> QED BY <1>1, <1>2, <1>3, <1>4, ErasedKept

\* Every step preserves it.
LEMMA StepErased ==
  ASSUME ErasedInv, [Next]_vars
  PROVE  ErasedInv'
<1>1. LimitInv'
  BY StepRoom DEF ErasedInv
<1>2. \A u \in erased' : ErasedUser(u)'
  <2>1. CASE UNCHANGED vars
    BY <2>1 DEF vars, dbVars, histVars, ErasedInv, ErasedUser, LocsOf, RowsOf
  <2>2. CASE Next
    BY <2>2, TapsErased, HandlersErased, AccountsErased, PollerErased DEF Next
  <2> QED BY <2>1, <2>2
<1> QED BY <1>1, <1>2 DEF ErasedInv

\* Until its owner taps a button again, a deleted account comes back in one way only: a tap
\* from before the deletion runs its ensure_user after it.  Without such a tap, no payment,
\* refund or handler brings back the account; and its subscriptions come back only with
\* it, by a tap of the last step that the deletion has overtaken.
THEOREM DeletedStaysDeleted == Spec => []ErasedStaysErased
<1>1. Init => ErasedInv
  BY InitRoom DEF Init, ErasedInv
<1>2. ErasedInv => ErasedStaysErased
  BY DEF ErasedInv, ErasedUser, ErasedStaysErased, LocsOf
<1> QED
  BY <1>1, <1>2, StepErased, PTL DEF Spec

-----------------------------------------------------------------------------
(* Told or alerted.  The argument: a status that was observed is in Postgres, *)
(* so a tap that reads the location as not free reads it before the poller    *)
(* has seen it free, and its row is there before that alert is dispatched, or *)
(* the tap has been overtaken.                                                *)

StatusInStep == \A l \in Locs : prev[l] # None => station[l] = prev[l]

OnItsWay(l) == l \in telling \/ events[l] > 0

\* A tap that will not say that the location is free is in time for the alert.
TapsInTime ==
  \A h \in Taps :
    (/\ job[h] # None /\ job[h].at = "insert" /\ ~job[h].free /\ ~job[h].lost
     /\ prev[job[h].loc] = "AVAILABLE")
      => OnItsWay(job[h].loc)

\* A tap of the owner is about to say it.
AboutToSay(r) ==
  \E h \in Taps :
    job[h] # None /\ job[h].at = "hint" /\ job[h].user = r.user /\ job[h].loc = r.loc

RowsServed ==
  \A r \in subs : r.ear = "due" /\ prev[r.loc] = "AVAILABLE" =>
    OnItsWay(r.loc) \/ faults > 0 \/ AboutToSay(r)

ToldInv == TypeInv /\ StatusInStep /\ TapsInTime /\ RowsServed

\* Steps that only take rows away and leave the taps alone.
LEMMA AccountsTold ==
  ASSUME ToldInv,
         \/ \E r \in subs : Unsubscribe(r)
         \/ \E u \in Users : DeleteMe(u) \/ Pay(u) \/ Lapse(u) \/ RefundSelect(u)
         \/ RefundCommit \/ RefundFails
  PROVE  StatusInStep' /\ TapsInTime' /\ RowsServed'
<1>1. UNCHANGED <<station, prev, telling, events, job, faults>> /\ subs' \subseteq subs
  BY DEF Unsubscribe, DeleteMe, Pay, Lapse, RefundSelect, RefundCommit, RefundFails, dbVars,
     pollVars, boundVars
<1> QED
  BY <1>1 DEF ToldInv, StatusInStep, TapsInTime, RowsServed, OnItsWay, AboutToSay

\* A tap starts far from its INSERT.
LEMMA TapsTold ==
  ASSUME ToldInv,
         \/ \E h \in Taps, u \in Users, l \in Locs : TapSubscribe(h, u, l)
         \/ \E k \in chat : \E c \in k.choices :
              TapConnector(k, c) \/ \E h \in Taps : TapLimit(h, k, c)
  PROVE  StatusInStep' /\ TapsInTime' /\ RowsServed'
<1>1. UNCHANGED <<station, prev, telling, events, subs, faults>> /\ JobTyped
  BY DEF TapSubscribe, TapConnector, TapLimit, dbVars, pollVars, boundVars, ToldInv, TypeInv,
     TypeOK, JobTyped
<1>2. \A g \in Taps : job'[g] = job[g] \/ (job[g] = None /\ job'[g].at = "ensure")
  <2>1. ASSUME NEW h \in Taps, NEW step, NEW v, NEW l, NEW con, NEW choice, job[h] = None,
               job' = [job EXCEPT ![h] = Started(step, v, l, con, choice)]
        PROVE  \A g \in Taps : job'[g] = job[g] \/ (job[g] = None /\ job'[g].at = "ensure")
    BY <1>1, <2>1 DEF Started, JobTyped
  <2>2. ASSUME NEW h \in Taps, NEW u \in Users, NEW l \in Locs, TapSubscribe(h, u, l)
        PROVE  \A g \in Taps : job'[g] = job[g] \/ (job[g] = None /\ job'[g].at = "ensure")
    BY <2>1, <2>2 DEF TapSubscribe
  <2>3. ASSUME NEW k \in chat, NEW c \in k.choices, TapConnector(k, c)
        PROVE  job' = job
    BY <2>3 DEF TapConnector
  <2>4. ASSUME NEW k \in chat, NEW c \in k.choices, NEW h \in Taps, TapLimit(h, k, c)
        PROVE  \A g \in Taps : job'[g] = job[g] \/ (job[g] = None /\ job'[g].at = "ensure")
    BY <2>1, <2>4 DEF TapLimit
  <2> QED BY <2>2, <2>3, <2>4
<1>3. \A g \in Taps : job[g] # None => job'[g] = job[g]
  BY <1>2
<1>4. StatusInStep'
  BY <1>1 DEF ToldInv, StatusInStep
<1>5. TapsInTime'
  BY <1>1, <1>2 DEF ToldInv, TapsInTime, OnItsWay
<1>6. RowsServed'
  BY <1>1, <1>3 DEF ToldInv, RowsServed, OnItsWay, AboutToSay
<1> QED BY <1>4, <1>5, <1>6

\* A handler: what it reads is what the poller has written, and a row it inserts is told
\* of the location at once, or in time.
LEMMA HandlersTold ==
  ASSUME ToldInv, NEW h \in Taps,
         \/ EnsureUser(h) \/ CountRows(h) \/ LoadLocation(h) \/ Abort(h)
         \/ ShowTypes(h) \/ Insert(h) \/ Hint(h)
  PROVE  StatusInStep' /\ TapsInTime' /\ RowsServed'
<1> DEFINE j == job[h]
<1>1. j # None /\ JobTyped /\ j \in Jobs /\ j.user \in Users /\ j.loc \in Locs /\ TypeOK
  BY JobKnown DEF ToldInv, TypeInv, TypeOK, JobTyped, EnsureUser, CountRows, LoadLocation,
     Abort, ShowTypes, Insert, Hint
<1>2. UNCHANGED <<station, prev, telling, events>>
  BY DEF EnsureUser, CountRows, LoadLocation, Abort, ShowTypes, Insert, Hint, dbVars, pollVars
<1>3. StatusInStep'
  BY <1>2 DEF ToldInv, StatusInStep
<1>4. /\ \A g \in Taps \ {h} : job'[g] = job[g]
      /\ job'[h] # None /\ job'[h].at = "insert" =>
           LoadLocation(h) /\ job'[h].loc = j.loc /\ job'[h].free = (station[j.loc] = "AVAILABLE")
  <2>1. CASE Finish(h)
    BY <1>1, <2>1 DEF Finish, JobTyped
  <2>2. ASSUME NEW where \in {"show", "load"}, Goto(h, where)
        PROVE  (\A g \in Taps \ {h} : job'[g] = job[g]) /\ job'[h].at # "insert"
    BY <1>1, <2>2 DEF Goto, JobTyped, Jobs
  <2>3. CASE EnsureUser(h)
    BY <1>1, <2>3 DEF EnsureUser, JobTyped, Jobs
  <2>4. CASE LoadLocation(h)
    BY <1>1, <2>4 DEF LoadLocation, JobTyped, Jobs
  <2>5. CASE Insert(h) /\ ~Finish(h)
    BY <1>1, <2>5 DEF Insert, JobTyped, Jobs
  <2> QED
    BY <2>1, <2>2, <2>3, <2>4, <2>5 DEF CountRows, Abort, ShowTypes, Hint
<1>5. TapsInTime'
  <2> SUFFICES ASSUME NEW g \in Taps, job'[g] # None, job'[g].at = "insert", ~job'[g].free,
                      ~job'[g].lost, prev'[job'[g].loc] = "AVAILABLE"
               PROVE  job'[g].loc \in telling' \/ events'[job'[g].loc] > 0
    BY DEF TapsInTime, OnItsWay
  <2>1. CASE g # h
    BY <1>2, <1>4, <2>1 DEF ToldInv, TapsInTime, OnItsWay
  <2>2. CASE g = h
    <3>1. station[j.loc] # "AVAILABLE" /\ prev[j.loc] = "AVAILABLE"
      BY <1>2, <1>4, <2>2
    <3>2. prev[j.loc] # None
      BY <3>1, SubscriptionConstants DEF Statuses
    <3> QED BY <1>1, <3>1, <3>2 DEF ToldInv, StatusInStep
  <2> QED BY <2>1, <2>2
\* No other handler changes a row, or ends as it is about to say it.
<1>6. ASSUME NEW r \in subs, r.ear = "due", prev[r.loc] = "AVAILABLE", ~Hint(h)
      PROVE  OnItsWay(r.loc)' \/ faults' > 0 \/ AboutToSay(r)'
  <2>1. CASE OnItsWay(r.loc)
    BY <1>2, <2>1 DEF OnItsWay
  <2>2. CASE faults > 0
    <3>1. CASE Abort(h)
      BY <1>1, <3>1 DEF Abort, TypeOK
    <3>2. CASE ~Abort(h)
      BY <1>6, <2>2, <3>2 DEF EnsureUser, CountRows, LoadLocation, ShowTypes, Insert, boundVars
    <3> QED BY <3>1, <3>2
  <2>3. CASE AboutToSay(r)
    <3>1. CASE Abort(h)
      BY <1>1, <3>1 DEF Abort, TypeOK
    <3>2. CASE ~Abort(h)
      <4>1. j.at # "hint"
        BY <1>6, <3>2 DEF EnsureUser, CountRows, LoadLocation, ShowTypes, Insert
      <4> QED BY <1>4, <2>3, <4>1 DEF AboutToSay
    <3> QED BY <3>1, <3>2
  <2> QED BY <1>6, <2>1, <2>2, <2>3 DEF ToldInv, RowsServed
<1>7. CASE Hint(h)
  <2> DEFINE mine == {r \in subs : r.user = j.user /\ r.loc = j.loc}
             said(r) == [r EXCEPT !.ear = "told"]
  <2>1. subs' = (subs \ mine) \cup {said(r) : r \in mine} /\ faults' = faults
    BY <1>7 DEF Hint, Heard, boundVars
  <2>2. \A r \in mine : said(r).ear = "told"
    <3>1. \A r \in Rows : said(r).ear = "told"
      BY DEF Rows
    <3>2. mine \subseteq Rows
      BY <1>1 DEF TypeOK
    <3> HIDE DEF said
    <3> QED BY <3>1, <3>2
  <2> HIDE DEF said
  <2>3. ASSUME NEW r \in subs', r.ear = "due", prev'[r.loc] = "AVAILABLE"
        PROVE  OnItsWay(r.loc)' \/ faults' > 0 \/ AboutToSay(r)'
    <3>1. r \in subs /\ ~(r.user = j.user /\ r.loc = j.loc)
      BY <2>1, <2>2, <2>3
    <3>2. OnItsWay(r.loc) \/ faults > 0 \/ AboutToSay(r)
      BY <1>2, <2>3, <3>1 DEF ToldInv, RowsServed
    <3>3. AboutToSay(r) => AboutToSay(r)'
      BY <1>4, <3>1 DEF AboutToSay
    <3> QED BY <1>2, <2>1, <3>2, <3>3 DEF OnItsWay
  <2> QED BY <1>3, <1>5, <2>3 DEF RowsServed
<1>8. CASE Insert(h) /\ Insertable(j)
  <2>0. PICK row : row = [user |-> j.user, loc |-> j.loc,
                          ear |-> IF j.lost THEN "missed" ELSE "due"]
    OBVIOUS
  <2>1. /\ subs' = subs \cup {row} /\ row.user = j.user /\ row.loc = j.loc
        /\ row.ear = IF j.lost THEN "missed" ELSE "due"
    BY <1>8, <2>0 DEF Insert
  <2>2. ASSUME row.ear = "due", prev[row.loc] = "AVAILABLE"
        PROVE  OnItsWay(row.loc)' \/ AboutToSay(row)'
    <3>1. CASE j.free
      <4>1. job'[h] = [j EXCEPT !.at = "hint", !.choice = AnyChoice, !.con = None]
        BY <1>1, <1>8, <3>1 DEF Insert, JobTyped
      <4>2. job'[h].at = "hint" /\ job'[h].user = j.user /\ job'[h].loc = j.loc
            /\ job'[h] \in Jobs
        BY <1>1, <4>1, AnyChoiceTyped DEF Jobs
      <4>3. job'[h] # None
        BY <4>2, NoneIsNoJob
      <4> QED BY <2>1, <4>2, <4>3 DEF AboutToSay
    <3>2. CASE ~j.free
      <4>1. ~j.lost /\ j.at = "insert"
        BY <1>8, <2>1, <2>2 DEF Insert
      <4> QED BY <1>1, <1>2, <2>1, <2>2, <3>2, <4>1 DEF ToldInv, TapsInTime, OnItsWay
    <3> QED BY <3>1, <3>2
  <2>3. ~Hint(h)
    BY <1>8 DEF Insert, Hint
  <2> QED BY <1>2, <1>3, <1>5, <1>6, <2>1, <2>2, <2>3 DEF RowsServed
<1>9. CASE ~Hint(h) /\ ~(Insert(h) /\ Insertable(j))
  <2>1. subs' = subs
    BY <1>9 DEF EnsureUser, CountRows, LoadLocation, Abort, ShowTypes, Insert, dbVars
  <2> QED BY <1>2, <1>3, <1>5, <1>6, <1>9, <2>1 DEF RowsServed
<1> QED BY <1>7, <1>8, <1>9

\* Once a location is dispatched, or seen free for the first time, the taps that will not
\* say it have been overtaken; the others are as they were.
LEMMA LeftBehind ==
  ASSUME TypeOK, NEW l \in Locs, job' = Overtaken(l)
  PROVE  /\ \A h \in Taps :
              job'[h] # None /\ job'[h].at = "insert" /\ ~job'[h].free /\ ~job'[h].lost
                => job'[h] = job[h] /\ job[h].loc # l
         /\ \A r : AboutToSay(r) => AboutToSay(r)'
<1>1. \A j \in Jobs : [j EXCEPT !.lost = TRUE].lost = TRUE
  BY DEF Jobs
<1>2. ASSUME NEW h \in Taps, job'[h] # None, job'[h].at = "insert", ~job'[h].free,
             ~job'[h].lost
      PROVE  job'[h] = job[h] /\ job[h].loc # l
  <2> DEFINE overtaken == job[h] # None /\ job[h].at = "insert" /\ job[h].loc = l /\ ~job[h].free
  <2>1. job'[h] = IF overtaken THEN [job[h] EXCEPT !.lost = TRUE] ELSE job[h]
    BY DEF Overtaken
  <2>2. ~overtaken
    <3>1. job[h] # None => job[h] \in Jobs
      BY DEF TypeOK
    <3> QED BY <1>1, <1>2, <2>1, <3>1
  <2> QED BY <1>2, <2>1, <2>2
<1>3. \A h \in Taps : job[h] # None /\ job[h].at = "hint" => job'[h] = job[h]
  BY DEF Overtaken
<1> QED BY <1>2, <1>3 DEF AboutToSay

\* Rows whose owners have heard something differ in nothing else.
LEMMA HeardEars ==
  ASSUME TypeOK, NEW some \in SUBSET subs, NEW what \in {"due", "told", "missed", "blind"},
         subs' = (subs \ some) \cup Heard(some, what)
  PROVE  \A x \in subs' : x \in subs \ some
                           \/ (x.ear = what /\ \E r \in some : x.user = r.user /\ x.loc = r.loc)
<1> DEFINE heard(r) == [r EXCEPT !.ear = what]
<1>1. \A r \in some : heard(r).ear = what /\ heard(r).user = r.user /\ heard(r).loc = r.loc
  <2>1. \A r \in Rows : heard(r).ear = what /\ heard(r).user = r.user /\ heard(r).loc = r.loc
    BY DEF Rows
  <2>2. some \subseteq Rows
    BY DEF TypeOK
  <2> HIDE DEF heard
  <2> QED BY <2>1, <2>2
<1>2. \A x \in subs' : x \in subs \ some \/ \E r \in some : x = heard(r)
  BY DEF Heard
<1> HIDE DEF heard
<1> QED BY <1>1, <1>2

\* The poller and the notifier: what is free for the first time overtakes the taps and
\* finds rows that are blind; what has become free is published, then dispatched.
LEMMA PollerTold ==
  ASSUME ToldInv, NEW l \in Locs,
         \/ Change(l) \/ Observe(l) \/ Publish(l) \/ Dispatch(l)
         \/ Follow(l) \/ Unfollow(l) \/ CatalogueSync(l)
         \/ \E types \in Catalogs : ConnectorsTick(l, types)
  PROVE  StatusInStep' /\ TapsInTime' /\ RowsServed'
<1>1. TypeOK
  BY DEF ToldInv, TypeInv
<1>2. CASE Change(l) \/ \E types \in Catalogs : ConnectorsTick(l, types)
  <2>1. UNCHANGED <<station, prev, telling, events, job, faults, subs>>
    BY <1>2 DEF Change, ConnectorsTick, dbVars, pollVars
  <2> QED
    BY <2>1 DEF ToldInv, StatusInStep, TapsInTime, RowsServed, OnItsWay, AboutToSay
<1>3. CASE Publish(l) \/ Follow(l)
  <2>1. UNCHANGED <<station, prev, job, faults, subs>>
    BY <1>3 DEF Publish, Follow, dbVars, boundVars
  <2>2. \A k \in Locs : k \in telling \/ events[k] > 0 => k \in telling' \/ events'[k] > 0
    <3>1. CASE Publish(l)
      <4>1. events'[l] = events[l] + 1 /\ events[l] \in Nat
        BY <1>1, <3>1 DEF Publish, TypeOK
      <4>2. \A k \in Locs \ {l} : events'[k] = events[k]
        BY <1>1, <3>1 DEF Publish, TypeOK
      <4>3. telling' = telling \ {l} /\ events'[l] > 0
        BY <3>1, <4>1 DEF Publish
      <4> QED BY <4>2, <4>3
    <3>2. CASE Follow(l)
      BY <3>2 DEF Follow
    <3> QED BY <1>3, <3>1, <3>2
  <2>3. \A h \in Taps : job[h] # None => job[h].loc \in Locs
    BY <1>1, JobKnown DEF TypeOK, JobTyped
  <2>4. \A r \in subs : r.loc \in Locs
    BY <1>1 DEF TypeOK, Rows
  <2> QED
    BY <2>1, <2>2, <2>3, <2>4 DEF ToldInv, StatusInStep, TapsInTime, RowsServed, OnItsWay,
       AboutToSay
<1>4. CASE CatalogueSync(l)
  <2>1. UNCHANGED <<prev, telling, events, job, faults, subs>>
    BY <1>4 DEF CatalogueSync, pollVars, boundVars
  <2>2. StatusInStep'
    <3>1. \A k \in Locs \ {l} : station'[k] = station[k]
      BY <1>1, <1>4 DEF CatalogueSync, TypeOK
    <3>2. station[l] # "absent" => station'[l] = station[l]
      BY <1>1, <1>4 DEF CatalogueSync, Coalesced, TypeOK
    <3>3. station[l] = "absent" => prev[l] = None
      BY <1>1 DEF ToldInv, StatusInStep, TypeOK, Statuses
    <3> QED BY <2>1, <3>1, <3>2, <3>3 DEF ToldInv, StatusInStep
  <2> QED
    BY <2>1, <2>2 DEF ToldInv, TapsInTime, RowsServed, OnItsWay, AboutToSay
<1>5. CASE Unfollow(l)
  <2>1. UNCHANGED <<station, events, job, faults, subs>> /\ telling' = telling \ {l}
    BY <1>5 DEF Unfollow, dbVars, boundVars
  <2>2. prev'[l] = None /\ \A k \in Locs \ {l} : prev'[k] = prev[k]
    BY <1>1, <1>5 DEF Unfollow, TypeOK
  <2>3. \A h \in Taps : job[h] # None => job[h].loc \in Locs
    BY <1>1, JobKnown DEF TypeOK, JobTyped
  <2>4. \A r \in subs : r.loc \in Locs
    BY <1>1 DEF TypeOK, Rows
  <2>5. None # "AVAILABLE"
    BY SubscriptionConstants DEF Statuses
  <2> QED
    BY <2>1, <2>2, <2>3, <2>4, <2>5 DEF ToldInv, StatusInStep, TapsInTime, RowsServed,
       OnItsWay, AboutToSay
<1>6. CASE Dispatch(l)
  <2> DEFINE here == {r \in subs : r.loc = l}
  <2>1. /\ UNCHANGED <<station, prev, telling, faults>> /\ job' = Overtaken(l)
        /\ \A k \in Locs \ {l} : events'[k] = events[k]
        /\ subs' = (subs \ here) \cup Heard(here, "told")
    BY <1>1, <1>6 DEF Dispatch, pollVars, boundVars, TypeOK
  <2>2. here \in SUBSET subs
    OBVIOUS
  <2>3. TapsInTime'
    <3>1. \A h \in Taps : job[h] # None => job[h].loc \in Locs
      BY <1>1, JobKnown DEF TypeOK, JobTyped
    <3> QED BY <1>1, <2>1, <3>1, LeftBehind DEF ToldInv, TapsInTime, OnItsWay
  <2>4. \A r \in subs' : r.ear = "due" => r \in subs /\ r.loc \in Locs \ {l}
    <3>1. \A r \in subs' : r \in subs \ here \/ r.ear = "told"
      BY <1>1, <2>1, <2>2, HeardEars
    <3> QED BY <1>1, <3>1 DEF TypeOK, Rows
  <2>5. RowsServed'
    <3>1. \A r : AboutToSay(r) => AboutToSay(r)'
      BY <1>1, <2>1, LeftBehind
    <3> QED BY <2>1, <2>4, <3>1 DEF ToldInv, RowsServed, OnItsWay
  <2> QED BY <2>1, <2>3, <2>5 DEF ToldInv, StatusInStep
<1>7. CASE Observe(l)
  <2> DEFINE here == {r \in subs : r.loc = l}
             due == {r \in here : r.ear = "due"}
             free == actual[l] = "AVAILABLE"
             cold == free /\ prev[l] = None
  <2>1. /\ UNCHANGED <<events, faults>>
        /\ prev'[l] = actual[l] /\ \A k \in Locs \ {l} : prev'[k] = prev[k]
        /\ station'[l] = actual[l] /\ \A k \in Locs \ {l} : station'[k] = station[k]
    <3>1. actual[l] # None
      BY <1>1, SubscriptionConstants DEF TypeOK
    <3> QED BY <1>1, <1>7, <3>1 DEF Observe, Coalesced, TypeOK, boundVars
  <2>2. StatusInStep'
    BY <2>1 DEF ToldInv, StatusInStep
  <2>3. \A h \in Taps : job[h] # None => job[h].loc \in Locs
    BY <1>1, JobKnown DEF TypeOK, JobTyped
  <2>4. \A r \in subs : r.loc \in Locs
    BY <1>1 DEF TypeOK, Rows
  <2>5. CASE cold
    <3>1. /\ job' = Overtaken(l) /\ telling' = telling
          /\ subs' = (subs \ due) \cup Heard(due, "blind")
      BY <1>7, <2>5 DEF Observe
    <3>2. due \in SUBSET subs
      OBVIOUS
    <3>3. TapsInTime'
      BY <1>1, <2>1, <2>3, <3>1, LeftBehind DEF ToldInv, TapsInTime, OnItsWay
    <3>4. \A r \in subs' : r.ear = "due" => r \in subs /\ r.loc \in Locs \ {l}
      <4>1. \A r \in subs' : r \in subs \ due \/ r.ear = "blind"
        BY <1>1, <3>1, <3>2, HeardEars
      <4> QED BY <2>4, <4>1
    <3>5. RowsServed'
      <4>1. \A r : AboutToSay(r) => AboutToSay(r)'
        BY <1>1, <3>1, LeftBehind
      <4> QED BY <2>1, <3>1, <3>4, <4>1 DEF ToldInv, RowsServed, OnItsWay
    <3> QED BY <2>2, <3>3, <3>5
  <2>6. CASE free /\ ~cold
    <3>1. /\ job' = job /\ telling' = telling \cup {l}
          /\ subs' = (subs \ here) \cup Heard(here, "due")
      BY <1>7, <2>6 DEF Observe
    <3>2. here \in SUBSET subs
      OBVIOUS
    <3>3. TapsInTime'
      BY <2>1, <2>3, <3>1 DEF ToldInv, TapsInTime, OnItsWay
    <3>4. \A r \in subs' : (r \in subs /\ r.loc \in Locs \ {l}) \/ r.loc = l
      <4>1. \A r \in subs' : r \in subs \ here \/ r.loc = l
        BY <1>1, <3>1, <3>2, HeardEars
      <4> QED BY <2>4, <4>1
    <3>5. RowsServed'
      BY <2>1, <3>1, <3>4 DEF ToldInv, RowsServed, OnItsWay, AboutToSay
    <3> QED BY <2>2, <3>3, <3>5
  <2>7. CASE ~free
    <3>1. job' = job /\ telling' = telling /\ subs' = subs
      BY <1>7, <2>7 DEF Observe
    <3>2. TapsInTime'
      BY <2>1, <2>3, <2>7, <3>1 DEF ToldInv, TapsInTime, OnItsWay
    <3>3. RowsServed'
      BY <2>1, <2>4, <2>7, <3>1 DEF ToldInv, RowsServed, OnItsWay, AboutToSay
    <3> QED BY <2>2, <3>2, <3>3
  <2> QED BY <2>5, <2>6, <2>7
<1> QED BY <1>2, <1>3, <1>4, <1>5, <1>6, <1>7

\* At first there is no row and no tap.
LEMMA InitTold == Init => ToldInv
<1> SUFFICES ASSUME Init
             PROVE  ToldInv
  OBVIOUS
<1>1. StatusInStep /\ TapsInTime /\ RowsServed
  BY DEF Init, StatusInStep, TapsInTime, RowsServed
<1> QED BY <1>1, InitTyped DEF ToldInv

\* Every step preserves it.
LEMMA StepTold ==
  ASSUME ToldInv, [Next]_vars
  PROVE  ToldInv'
<1>1. TypeInv'
  BY StepTyped DEF ToldInv
<1>2. StatusInStep' /\ TapsInTime' /\ RowsServed'
  <2>1. CASE UNCHANGED vars
    BY <2>1 DEF vars, dbVars, pollVars, boundVars, ToldInv, StatusInStep, TapsInTime,
       RowsServed, OnItsWay, AboutToSay
  <2>2. CASE Next
    BY <2>2, TapsTold, HandlersTold, AccountsTold, PollerTold DEF Next
  <2> QED BY <2>1, <2>2
<1> QED BY <1>1, <1>2 DEF ToldInv

\* The owner of a subscription knows when its location is free, or is about to, in whatever
\* order the wizard, the poller and the notifier run, unless the location was first seen
\* free when the row was there ("blind"), or dispatched or first seen free between the
\* SELECT and the COMMIT of its tap ("missed").
THEOREM FreeIsTold == Spec => []ToldOrAlerted
<1>1. ToldInv => ToldOrAlerted
  BY DEF ToldInv, RowsServed, ToldOrAlerted, OnItsWay, AboutToSay, Busy
<1> QED
  BY <1>1, InitTold, StepTold, PTL DEF Spec

-----------------------------------------------------------------------------
(* Tokens.  The argument: editions only grow, so as long as the list is the one *)
(* the button came from, its token stands for the label that was on it.         *)

\* A choice on a keyboard.
Sound(l, c) ==
  /\ c.edition <= edition[l]
  /\ InRange(l, c.token) /\ c.edition = edition[l] => Resolved(l, c.token) = c.label

ButtonsSound == \A k \in chat : \A c \in k.choices : Sound(k.loc, c)

TapsSound ==
  \A h \in Taps : job[h] # None =>
    /\ job[h].choice.edition <= edition[job[h].loc]
    /\ job[h].step = "wlim" => \/ job[h].con = job[h].choice.label
                               \/ edition[job[h].loc] # job[h].choice.edition

ChoiceInv == TypeInv /\ ButtonsSound /\ TapsSound

\* Any type is in every list.
LEMMA AnySound ==
  ASSUME TypeOK, NEW l \in Locs
  PROVE  Sound(l, AnyChoice) /\ AnyChoice.edition = 0 /\ AnyChoice.label = None
<1>1. edition[l] \in Nat
  BY SubscriptionConstants DEF TypeOK
<1> QED BY <1>1 DEF Sound, AnyChoice, Resolved, AnyType

\* The taps: a token is resolved in the list as it is.
LEMMA TapsChosen ==
  ASSUME ChoiceInv,
         \/ \E h \in Taps, u \in Users, l \in Locs : TapSubscribe(h, u, l)
         \/ \E k \in chat : \E c \in k.choices :
              TapConnector(k, c) \/ \E h \in Taps : TapLimit(h, k, c)
  PROVE  ButtonsSound' /\ TapsSound'
<1>1. UNCHANGED <<kinds, edition>> /\ JobTyped /\ TypeOK
  BY DEF TapSubscribe, TapConnector, TapLimit, worldVars, ChoiceInv, TypeInv, TypeOK, JobTyped
<1>2. \A l, c : Sound(l, c)' <=> Sound(l, c)
  BY <1>1 DEF Sound, InRange, Resolved
<1>3. ASSUME NEW h \in Taps, NEW step, NEW v, NEW l, NEW con, NEW choice,
             job' = [job EXCEPT ![h] = Started(step, v, l, con, choice)],
             choice.edition <= edition[l],
             step = "wlim" => con = choice.label \/ edition[l] # choice.edition
      PROVE  TapsSound'
  <2>1. /\ job'[h].choice = choice /\ job'[h].step = step /\ job'[h].con = con
        /\ job'[h].loc = l /\ \A g \in Taps \ {h} : job'[g] = job[g]
    BY <1>1, <1>3 DEF Started, JobTyped
  <2> QED BY <1>1, <1>3, <2>1 DEF ChoiceInv, TapsSound
<1>4. ASSUME NEW h \in Taps, NEW u \in Users, NEW l \in Locs, TapSubscribe(h, u, l)
      PROVE  ButtonsSound' /\ TapsSound'
  <2>1. AnyChoice.edition <= edition[l]
    BY <1>1, AnySound DEF Sound
  <2>2. job' = [job EXCEPT ![h] = Started("sub", u, l, None, AnyChoice)] /\ chat' = chat
    BY <1>4 DEF TapSubscribe
  <2>3. TapsSound'
    BY <1>3, <2>1, <2>2
  <2> QED BY <1>2, <2>2, <2>3 DEF ChoiceInv, ButtonsSound
<1>5. ASSUME NEW k \in chat, NEW c \in k.choices, TapConnector(k, c)
      PROVE  ButtonsSound' /\ TapsSound'
  <2>1. job' = job /\ chat' = (chat \ {k}) \cup {Keyboard("wlim", k.user, k.loc, {c})}
    BY <1>5 DEF TapConnector
  <2>2. Sound(k.loc, c)
    BY DEF ChoiceInv, ButtonsSound
  <2> QED
    BY <1>1, <1>2, <2>1, <2>2 DEF ChoiceInv, ButtonsSound, TapsSound, Keyboard
<1>6. ASSUME NEW k \in chat, NEW c \in k.choices, NEW h \in Taps, TapLimit(h, k, c)
      PROVE  ButtonsSound' /\ TapsSound'
  <2>1. /\ job' = [job EXCEPT ![h] = Started("wlim", k.user, k.loc, Resolved(k.loc, c.token), c)]
        /\ chat' = chat /\ InRange(k.loc, c.token)
    BY <1>6 DEF TapLimit
  <2>2. Sound(k.loc, c)
    BY DEF ChoiceInv, ButtonsSound
  <2>3. /\ c.edition <= edition[k.loc]
        /\ Resolved(k.loc, c.token) = c.label \/ edition[k.loc] # c.edition
    BY <2>1, <2>2 DEF Sound
  <2>4. TapsSound'
    BY <1>3, <2>1, <2>3
  <2> QED BY <1>2, <2>1, <2>4 DEF ChoiceInv, ButtonsSound
<1> QED BY <1>4, <1>5, <1>6

\* A handler goes on with its choice; the keyboard it shows has the list as it is.
LEMMA HandlersChosen ==
  ASSUME ChoiceInv, NEW h \in Taps,
         \/ EnsureUser(h) \/ CountRows(h) \/ LoadLocation(h) \/ Abort(h)
         \/ ShowTypes(h) \/ Insert(h) \/ Hint(h)
  PROVE  ButtonsSound' /\ TapsSound'
<1> DEFINE j == job[h]
<1>1. j # None /\ JobTyped /\ j \in Jobs /\ j.user \in Users /\ j.loc \in Locs /\ TypeOK
  BY JobKnown DEF ChoiceInv, TypeInv, TypeOK, JobTyped, EnsureUser, CountRows, LoadLocation,
     Abort, ShowTypes, Insert, Hint
<1>2. UNCHANGED <<kinds, edition>>
  BY DEF EnsureUser, CountRows, LoadLocation, Abort, ShowTypes, Insert, Hint, worldVars
<1>3. \A l, c : Sound(l, c)' <=> Sound(l, c)
  BY <1>2 DEF Sound, InRange, Resolved
<1>4. /\ \A g \in Taps \ {h} : job'[g] = job[g]
      /\ job'[h] # None =>
           /\ job'[h].loc = j.loc /\ job'[h].step = j.step
           /\ \/ job'[h].con = j.con /\ job'[h].choice = j.choice
              \/ job'[h].con = None /\ job'[h].choice = AnyChoice
  <2>1. CASE Finish(h)
    BY <1>1, <2>1 DEF Finish, JobTyped
  <2>2. ASSUME NEW where \in {"show", "load"}, Goto(h, where)
        PROVE  /\ \A g \in Taps \ {h} : job'[g] = job[g]
               /\ job'[h].loc = j.loc /\ job'[h].step = j.step
               /\ job'[h].con = j.con /\ job'[h].choice = j.choice
    BY <1>1, <2>2 DEF Goto, JobTyped, Jobs
  <2>3. CASE EnsureUser(h)
    BY <1>1, <2>3 DEF EnsureUser, JobTyped, Jobs
  <2>4. CASE LoadLocation(h)
    BY <1>1, <2>4 DEF LoadLocation, JobTyped, Jobs
  <2>5. CASE Insert(h) /\ ~Finish(h)
    BY <1>1, <2>5 DEF Insert, JobTyped, Jobs
  <2> QED
    BY <2>1, <2>2, <2>3, <2>4, <2>5 DEF CountRows, Abort, ShowTypes, Hint
<1>5. TapsSound'
  <2>1. AnyChoice.edition <= edition[j.loc] /\ AnyChoice.label = None
    BY <1>1, AnySound DEF Sound
  <2> QED BY <1>1, <1>2, <1>4, <2>1 DEF ChoiceInv, TapsSound
<1>6. CASE ShowTypes(h)
  <2> DEFINE button(i) == [token |-> i, label |-> kinds[j.loc][i], edition |-> edition[j.loc]]
             choices == {AnyChoice} \cup {button(i) : i \in 1..Len(kinds[j.loc])}
  <2>1. PICK step \in {"wcon", "wlim"} :
          chat' = chat \cup {Keyboard(step, j.user, j.loc, choices)}
    BY <1>6 DEF ShowTypes
  <2>2. \A i \in 1..Len(kinds[j.loc]) : Sound(j.loc, button(i))
    <3>1. edition[j.loc] \in Nat
      BY <1>1, SubscriptionConstants DEF TypeOK
    <3>2. Len(kinds[j.loc]) \in Nat
      BY <1>1, ListsTyped
    <3> QED BY <3>1, <3>2 DEF Sound, Resolved, AnyType
  <2>3. \A c \in choices : Sound(j.loc, c)
    BY <1>1, <2>2, AnySound
  <2> HIDE DEF choices
  <2>4. Keyboard(step, j.user, j.loc, choices).choices = choices
        /\ Keyboard(step, j.user, j.loc, choices).loc = j.loc
    BY DEF Keyboard
  <2>5. \A k \in chat' : \A c \in k.choices : Sound(k.loc, c)
    BY <2>1, <2>3, <2>4 DEF ChoiceInv, ButtonsSound
  <2> QED BY <1>3, <1>5, <2>5 DEF ButtonsSound
<1>7. CASE ~ShowTypes(h)
  <2>1. chat' \subseteq chat
    BY <1>7 DEF EnsureUser, CountRows, LoadLocation, Abort, Insert, Hint
  <2> QED BY <1>3, <1>5, <2>1 DEF ChoiceInv, ButtonsSound
<1> QED BY <1>6, <1>7

\* What touches neither lists, keyboards nor choices.
LEMMA OthersChosen ==
  ASSUME ChoiceInv, UNCHANGED <<kinds, edition, chat>>,
         \A h \in Taps : job'[h] # None =>
           /\ job[h] # None /\ job'[h].loc = job[h].loc /\ job'[h].step = job[h].step
           /\ job'[h].con = job[h].con /\ job'[h].choice = job[h].choice
  PROVE  ButtonsSound' /\ TapsSound'
<1>1. \A l, c : Sound(l, c)' <=> Sound(l, c)
  BY DEF Sound, InRange, Resolved
<1> QED BY <1>1 DEF ChoiceInv, ButtonsSound, TapsSound

\* A new list is a new edition of its location's.
LEMMA TickChosen ==
  ASSUME ChoiceInv, NEW l \in Locs, NEW types \in Catalogs, ConnectorsTick(l, types)
  PROVE  ButtonsSound' /\ TapsSound'
<1>1. TypeOK /\ chat' = chat /\ job' = job
  BY DEF ConnectorsTick, ChoiceInv, TypeInv
<1>2. /\ edition'[l] = edition[l] + 1 /\ edition[l] \in Nat
      /\ \A k \in Locs \ {l} : edition'[k] = edition[k] /\ kinds'[k] = kinds[k]
  BY <1>1, SubscriptionConstants DEF ConnectorsTick, TypeOK
<1>3. \A k \in Locs, c \in Choices : Sound(k, c) => Sound(k, c)'
  <2> SUFFICES ASSUME NEW k \in Locs, NEW c \in Choices, Sound(k, c)
               PROVE  Sound(k, c)'
    OBVIOUS
  <2>1. c.edition \in Nat
    BY SubscriptionConstants DEF Choices
  <2>2. CASE k = l
    BY <1>2, <2>1, <2>2 DEF Sound
  <2>3. CASE k # l
    BY <1>2, <2>3 DEF Sound, InRange, Resolved
  <2> QED BY <2>2, <2>3
<1>4. ButtonsSound'
  <2>1. \A k \in chat : k.loc \in Locs /\ k.choices \subseteq Choices
    BY <1>1 DEF TypeOK, Keyboards
  <2> QED BY <1>1, <1>3, <2>1 DEF ChoiceInv, ButtonsSound
<1>5. TapsSound'
  <2>1. \A h \in Taps : job[h] # None =>
          job[h].loc \in Locs /\ job[h].choice.edition \in Nat
    BY <1>1, JobKnown, SubscriptionConstants DEF TypeOK, JobTyped, Choices
  <2> QED BY <1>1, <1>2, <2>1 DEF ChoiceInv, TapsSound
<1> QED BY <1>4, <1>5

\* Every step preserves it.
LEMMA StepChosen ==
  ASSUME ChoiceInv, [Next]_vars
  PROVE  ChoiceInv'
<1>1. TypeInv' /\ TypeOK
  BY StepTyped DEF ChoiceInv, TypeInv
<1>2. CASE UNCHANGED vars
  <2>1. ButtonsSound' /\ TapsSound'
    BY <1>2, OthersChosen DEF vars, worldVars
  <2> QED BY <1>1, <2>1 DEF ChoiceInv
<1>3. ASSUME \/ \E r \in subs : Unsubscribe(r)
             \/ \E u \in Users : DeleteMe(u) \/ Pay(u) \/ Lapse(u) \/ RefundSelect(u)
             \/ RefundCommit \/ RefundFails
      PROVE  ButtonsSound' /\ TapsSound'
  <2>1. UNCHANGED <<kinds, edition, chat, job>>
    BY <1>3 DEF Unsubscribe, DeleteMe, Pay, Lapse, RefundSelect, RefundCommit, RefundFails,
       worldVars
  <2> QED BY <2>1, OthersChosen
<1>4. ASSUME NEW l \in Locs,
             \/ Change(l) \/ Observe(l) \/ Publish(l) \/ Dispatch(l)
             \/ Follow(l) \/ Unfollow(l) \/ CatalogueSync(l)
      PROVE  ButtonsSound' /\ TapsSound'
  <2>1. UNCHANGED <<kinds, edition, chat>> /\ (job' = job \/ job' = Overtaken(l))
    BY <1>4 DEF Change, Observe, Publish, Dispatch, Follow, Unfollow, CatalogueSync, worldVars
  <2>2. \A h \in Taps : job'[h] # None =>
          /\ job[h] # None /\ job'[h].loc = job[h].loc /\ job'[h].step = job[h].step
          /\ job'[h].con = job[h].con /\ job'[h].choice = job[h].choice
    BY <1>1, <2>1, OvertakenTyped
  <2> QED BY <2>1, <2>2, OthersChosen
<1>5. ASSUME Next
      PROVE  ButtonsSound' /\ TapsSound'
  BY <1>3, <1>4, <1>5, TapsChosen, HandlersChosen, TickChosen DEF Next
<1> QED BY <1>1, <1>2, <1>5 DEF ChoiceInv

\* The connector type a subscription is about to wait for is the one that was on the
\* button, unless the list of its location has changed since.
THEOREM ButtonIsMeant == Spec => []ChosenConnector
<1>1. Init => ChoiceInv
  BY InitTyped DEF Init, ChoiceInv, ButtonsSound, TapsSound
<1>2. ChoiceInv => ChosenConnector
  BY DEF ChoiceInv, TapsSound, ChosenConnector
<1> QED
  BY <1>1, <1>2, StepChosen, PTL DEF Spec
=============================================================================
