---------------------------- MODULE QuietHours ----------------------------
(***************************************************************************)
(* The quiet hours of one user: the window on a clock face, the moment a   *)
(* message is declared silent (src/bot/notifier.py) and the moment it      *)
(* arrives, with the settings (src/bot/main.py) and the clock moving on in *)
(* between.  Quiet hours delay nothing: they only take the sound away.     *)
(***************************************************************************)
EXTENDS Integers

CONSTANTS
  Day,       \* ticks in a day
  Offset,    \* local time ahead of UTC; no code changes users.tz
  Presets,   \* the windows of the keyboard
  Off,       \* both columns NULL
  Delay,     \* free_tier_notify_delay_sec
  Horizon    \* bound: the last tick

Face == 0..(Day - 1)

\* Any pair of hours is accepted, equal ones included.
Windows == [from : Face, to : Face]

ASSUME QuietConstants ==
  /\ Day \in Nat \ {0} /\ Offset \in Nat /\ Delay \in Nat /\ Horizon \in Nat
  /\ Presets \subseteq Windows /\ Off \notin Windows

VARIABLES
  now,       \* UTC, in ticks since some midnight
  window,    \* quiet_from and quiet_to
  alert,     \* where the alert under way is; "sending": in a call of Telegram
  asked,     \* the window it was declared silent, or not, by
  decided,   \* when; until then, the event's time
  silent,    \* disable_notification
  waited     \* it has slept between the two attempts of _send

vars == <<now, window, alert, asked, decided, silent, waited>>

-----------------------------------------------------------------------------
(* _quiet_until_utc *)

OnClock(t) == t % Day

\* Faulty: a window never crosses midnight.
SameDay(w, t) == w.from <= OnClock(t) /\ OnClock(t) < w.to
\* in_window, at local time t
InWindow(w, t) ==
  IF w.from > w.to THEN OnClock(t) >= w.from \/ OnClock(t) < w.to
  ELSE w.from <= OnClock(t) /\ OnClock(t) < w.to

\* candidate: the face of the window's end today, or else tomorrow
NextEnd(w, t) ==
  LET candidate == t - OnClock(t) + w.to
  IN  IF candidate <= t THEN candidate + Day ELSE candidate

Never == -1

\* The end of the window, in UTC, while inside; else Never (None).
QuietUntil(w, utc) ==
  IF \/ w = Off
     \/ w.from = w.to
     \/ ~InWindow(w, utc + Offset)
  THEN Never
  ELSE NextEnd(w, utc + Offset) - Offset

IsQuiet(w, utc) == QuietUntil(w, utc) # Never

-----------------------------------------------------------------------------

Init ==
  /\ now \in Face /\ window = Off
  /\ alert = "none" /\ asked = Off /\ decided = now
  /\ silent = FALSE /\ waited = FALSE

\* on_qh_callback
SetQuiet(w) ==
  /\ window' = w
  /\ UNCHANGED <<now, alert, asked, decided, silent, waited>>

\* A call takes no time at this scale; the waits for a flood, for the messages before it in
\* the batch and for the delay of the free tier do.
Tick ==
  /\ now < Horizon /\ alert # "sending"
  /\ now' = now + 1
  /\ UNCHANGED <<window, alert, asked, decided, silent, waited>>

Decide ==
  /\ asked' = window /\ decided' = now /\ silent' = IsQuiet(window, now)

\* dispatch_event, the paid tier: declared with the `now` of the whole batch, sent in turn.
SelectPaid ==
  /\ alert = "none"
  /\ alert' = "batch" /\ waited' = FALSE
  /\ Decide
  /\ UNCHANGED <<now, window>>

Turn ==
  /\ alert = "batch"
  /\ alert' = "sending"
  /\ UNCHANGED <<now, window, asked, decided, silent, waited>>

\* dispatch_event, the free tier: the payload says when, and nothing of silence.
Enqueue ==
  /\ alert = "none"
  /\ alert' = "delayed" /\ waited' = FALSE
  /\ decided' = now
  /\ UNCHANGED <<now, window, asked, silent>>

\* Faulty: the flag of a free alert is that of its event.
TakeAsDecided ==
  /\ alert = "delayed" /\ now >= decided + Delay
  /\ alert' = "sending"
  /\ asked' = window /\ decided' = now /\ silent' = IsQuiet(window, decided)
  /\ UNCHANGED <<now, window, waited>>
\* delayed_worker: declared when it is served.
Take ==
  /\ alert = "delayed" /\ now >= decided + Delay
  /\ alert' = "sending"
  /\ Decide
  /\ UNCHANGED <<now, window, waited>>

\* _send sleeps after TelegramRetryAfter or TelegramNetworkError, once.
Sleep ==
  /\ alert = "sending" /\ ~waited
  /\ alert' = "sleeping" /\ waited' = TRUE
  /\ UNCHANGED <<now, window, asked, decided, silent>>

Wake ==
  /\ alert = "sleeping"
  /\ alert' = "sending"
  /\ UNCHANGED <<now, window, asked, decided, silent, waited>>

\* Telegram takes the message, or refuses it for good.
Answer ==
  /\ alert = "sending"
  /\ alert' = "none"
  /\ UNCHANGED <<now, window, asked, decided, silent, waited>>

Next ==
  \/ \E w \in Presets \cup {Off} : SetQuiet(w)
  \/ Tick \/ SelectPaid \/ Turn \/ Enqueue \/ Take \/ Sleep \/ Wake \/ Answer

Spec == Init /\ [][Next]_vars

-----------------------------------------------------------------------------
(* Properties *)

\* Every variable keeps its type, and what is declared was declared in the past.
TypeOK ==
  /\ now \in Nat /\ window \in Windows \cup {Off}
  /\ alert \in {"none", "batch", "delayed", "sending", "sleeping"}
  /\ asked \in Windows \cup {Off}
  /\ decided \in Nat /\ decided <= now
  /\ silent \in BOOLEAN /\ waited \in BOOLEAN

\* The hour hand walks from the start of the window to its end.
Span(w) == (w.to - w.from) % Day
Walk(w) == {(w.from + k) % Day : k \in 0..(Span(w) - 1)}

\* It is quiet while the hand is on its way from the window's start to its end, midnight or
\* not, and the moment _quiet_until_utc returns is the first at which it no longer is.
EndIsRight ==
  window # Off =>
    LET until == QuietUntil(window, now)
        Local(t) == OnClock(t + Offset)
    IN  /\ until # Never <=> Local(now) \in Walk(window)
        /\ until # Never =>
             /\ until > now /\ Local(until) = window.to
             /\ \A t \in now..(until - 1) : Local(t) \in Walk(window)

\* A message in a call of Telegram is silent if it is quiet, by the window that was read
\* for it, unless that window has begun or ended since (a flood wait, the messages before it
\* in the batch): the delay of the free tier is no excuse (notifier.py:519-523).
OnlyTheBoundary ==
  alert = "sending" /\ silent # IsQuiet(asked, now) =>
    IF silent THEN QuietUntil(asked, decided) <= now
    ELSE QuietUntil(asked, now) - Span(asked) > decided
=============================================================================
