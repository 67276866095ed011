-------------------------- MODULE QuietHoursProofs --------------------------
(***************************************************************************)
(* The arithmetic of quiet hours is right and a message differs from the   *)
(* hour only by a boundary it crossed while it waited: proofs for a day of *)
(* any length, any offset from UTC and any windows.                        *)
(*                                                                         *)
(* The provers know a remainder only by the equation t = q * Day + r.      *)
(* From it, OnClock turns the walk of the hour hand into comparisons of    *)
(* hours (WalkIs), which are those of the code (QuietIsWalk); and the      *)
(* moment the code returns is a whole window after its start (UntilIsEnd). *)
(***************************************************************************)
EXTENDS QuietHours, TLAPS

\* The face of a moment, and the midnight before it.
LEMMA FaceOf ==
  ASSUME NEW t \in Nat
  PROVE  OnClock(t) \in Face /\ \E q \in Nat : t = q * Day + OnClock(t)
<1>1. t % Day \in 0..(Day - 1)
  BY QuietConstants, SMT
<1>2. (t % Day) + Day * (t \div Day) = t /\ t \div Day \in Nat
  BY QuietConstants, SMT
<1>3. t = (t \div Day) * Day + (t % Day)
  BY <1>1, <1>2, QuietConstants, SMT
<1> QED
  BY <1>1, <1>2, <1>3 DEF OnClock, Face

\* A moment some hours after a midnight shows those hours.
LEMMA FaceIs ==
  ASSUME NEW q \in Int, NEW r \in Face
  PROVE  (q * Day + r) % Day = r
  BY QuietConstants, SMTT(30) DEF Face

\* The length of a window, across midnight or not.
LEMMA SpanIs ==
  ASSUME NEW w \in Windows
  PROVE  Span(w) = IF w.from > w.to THEN w.to - w.from + Day ELSE w.to - w.from
<1>1. w.from \in Face /\ w.to \in Face /\ Day \in Nat \ {0}
  BY QuietConstants DEF Windows
<1>2. CASE w.from > w.to
  <2>1. w.to - w.from + Day \in Face
    BY <1>1, <1>2 DEF Face
  <2>2. ((-1) * Day + (w.to - w.from + Day)) % Day = w.to - w.from + Day
    BY <2>1, FaceIs
  <2>3. (-1) * Day + (w.to - w.from + Day) = w.to - w.from
    BY <1>1 DEF Face
  <2> QED BY <1>2, <2>2, <2>3 DEF Span
<1>3. CASE ~(w.from > w.to)
  <2>1. w.to - w.from \in Face
    BY <1>1, <1>3 DEF Face
  <2>2. (0 * Day + (w.to - w.from)) % Day = w.to - w.from
    BY <2>1, FaceIs
  <2>3. 0 * Day + (w.to - w.from) = w.to - w.from
    BY <1>1 DEF Face
  <2> QED BY <1>3, <2>2, <2>3 DEF Span
<1> QED
  BY <1>2, <1>3

\* The hours between two ends of a window, as the code compares them.
Between(w, r) == IF w.from > w.to THEN r >= w.from \/ r < w.to ELSE w.from <= r /\ r < w.to

\* They are those the hand passes.
LEMMA WalkIs ==
  ASSUME NEW w \in Windows, NEW r \in Face
  PROVE  r \in Walk(w) <=> Between(w, r)
<1>1. w.from \in Face /\ w.to \in Face /\ Day \in Nat \ {0}
  BY QuietConstants DEF Windows
<1>2. Span(w) \in Int /\ Span(w) \in Face
  BY <1>1, SpanIs DEF Face
<1>3. ASSUME NEW k \in 0..(Span(w) - 1)
      PROVE  (w.from + k) % Day = IF w.from + k < Day THEN w.from + k ELSE w.from + k - Day
  <2>1. CASE w.from + k < Day
    <3>1. w.from + k \in Face
      BY <1>1, <1>2, <2>1 DEF Face
    <3>2. (0 * Day + (w.from + k)) % Day = w.from + k
      BY <3>1, FaceIs
    <3>3. 0 * Day + (w.from + k) = w.from + k
      BY <1>1, <1>2 DEF Face
    <3> QED BY <2>1, <3>2, <3>3
  <2>2. CASE ~(w.from + k < Day)
    <3>1. w.from + k - Day \in Face
      BY <1>1, <1>2, <2>2 DEF Face
    <3>2. (1 * Day + (w.from + k - Day)) % Day = w.from + k - Day
      BY <3>1, FaceIs
    <3>3. 1 * Day + (w.from + k - Day) = w.from + k
      BY <1>1, <1>2 DEF Face
    <3> QED BY <2>2, <3>2, <3>3
  <2> QED BY <2>1, <2>2
<1>4. ASSUME r \in Walk(w)
      PROVE  Between(w, r)
  <2>1. PICK k \in 0..(Span(w) - 1) : r = (w.from + k) % Day
    BY <1>4 DEF Walk
  <2> QED
    BY <1>1, <1>2, <1>3, <2>1, SpanIs DEF Between, Face
<1>5. ASSUME Between(w, r)
      PROVE  r \in Walk(w)
  <2> DEFINE k == IF r >= w.from THEN r - w.from ELSE r - w.from + Day
  <2>1. k \in 0..(Span(w) - 1)
    BY <1>1, <1>2, <1>5, SpanIs DEF Between, Face
  <2>2. r = IF w.from + k < Day THEN w.from + k ELSE w.from + k - Day
    BY <1>1 DEF Face
  <2> HIDE DEF k
  <2> QED BY <1>3, <2>1, <2>2 DEF Walk
<1> QED
  BY <1>4, <1>5

\* The end that the code computes lies ahead, not a window too far, and is the window's.
LEMMA EndIsAhead ==
  ASSUME NEW w \in Windows, NEW u \in Nat, Between(w, OnClock(u))
  PROVE  /\ NextEnd(w, u) \in Int
         /\ NextEnd(w, u) > u /\ NextEnd(w, u) - Span(w) <= u
         /\ \E p \in Nat : NextEnd(w, u) = p * Day + w.to
<1>1. w.from \in Face /\ w.to \in Face /\ Day \in Nat \ {0}
  BY QuietConstants DEF Windows
<1>2. PICK q \in Nat : u = q * Day + OnClock(u)
  BY FaceOf
<1>3. OnClock(u) \in Face
  BY FaceOf
<1>4. NextEnd(w, u) = IF w.to <= OnClock(u) THEN u - OnClock(u) + w.to + Day
                      ELSE u - OnClock(u) + w.to
  BY <1>1, <1>3 DEF NextEnd, Face
<1>5. NextEnd(w, u) > u /\ NextEnd(w, u) - Span(w) <= u /\ NextEnd(w, u) \in Int
  BY <1>1, <1>3, <1>4, SpanIs DEF Between, Face
<1>6. q * Day \in Nat /\ (q + 1) * Day = q * Day + Day
  BY <1>1, SMT
<1>7. u - OnClock(u) = q * Day
  BY <1>2, <1>3, <1>6 DEF Face
<1>8. NextEnd(w, u) = q * Day + w.to \/ NextEnd(w, u) = (q + 1) * Day + w.to
  BY <1>1, <1>4, <1>6, <1>7 DEF Face
<1> QED
  BY <1>5, <1>8

\* Before an end of the window, and no further than its length, the hand is on its way.
LEMMA WalkEnds ==
  ASSUME NEW w \in Windows, NEW p \in Int, NEW end \in Int, end = p * Day + w.to,
         NEW j \in 1..Span(w)
  PROVE  OnClock(end - j) \in Walk(w)
<1>1. w.from \in Face /\ w.to \in Face /\ Day \in Nat \ {0} /\ p * Day \in Int
      /\ (p - 1) * Day = p * Day - Day
  BY QuietConstants, SMT DEF Windows
<1>2. Span(w) \in Face
  BY <1>1, SpanIs DEF Face
<1>3. CASE j <= w.to
  <2>1. w.to - j \in Face /\ Between(w, w.to - j)
    BY <1>1, <1>2, <1>3, SpanIs DEF Face, Between
  <2>2. end - j = p * Day + (w.to - j)
    BY <1>1, <1>2 DEF Face
  <2> QED BY <2>1, <2>2, FaceIs, WalkIs DEF OnClock
<1>4. CASE ~(j <= w.to)
  <2>1. w.to - j + Day \in Face /\ Between(w, w.to - j + Day)
    BY <1>1, <1>2, <1>4, SpanIs DEF Face, Between
  <2>2. end - j = (p - 1) * Day + (w.to - j + Day)
    BY <1>1, <1>2 DEF Face
  <2> QED BY <2>1, <2>2, FaceIs, WalkIs DEF OnClock
<1> QED
  BY <1>3, <1>4

\* It is quiet where the hand is on its way.
LEMMA QuietIsWalk ==
  ASSUME NEW w \in Windows, NEW t \in Nat
  PROVE  /\ IsQuiet(w, t) <=> OnClock(t + Offset) \in Walk(w)
         /\ IsQuiet(w, t) => /\ Between(w, OnClock(t + Offset))
                             /\ QuietUntil(w, t) = NextEnd(w, t + Offset) - Offset
<1>1. w.from \in Face /\ w.to \in Face /\ Day \in Nat \ {0} /\ Offset \in Nat /\ w # Off
  BY QuietConstants DEF Windows
<1>2. t + Offset \in Nat /\ OnClock(t + Offset) \in Face
  BY <1>1, FaceOf
<1>3. InWindow(w, t + Offset) <=> Between(w, OnClock(t + Offset))
  BY DEF InWindow, Between
<1>4. w.from = w.to => ~Between(w, OnClock(t + Offset))
  BY <1>1, <1>2 DEF Between, Face
<1>5. CASE Between(w, OnClock(t + Offset))
  <2>1. QuietUntil(w, t) = NextEnd(w, t + Offset) - Offset
    BY <1>1, <1>3, <1>4, <1>5 DEF QuietUntil
  <2>2. NextEnd(w, t + Offset) > t + Offset /\ NextEnd(w, t + Offset) \in Int
    BY <1>2, <1>5, EndIsAhead
  <2>3. IsQuiet(w, t)
    BY <1>1, <2>1, <2>2 DEF IsQuiet, Never
  <2> QED BY <1>2, <1>5, <2>1, <2>3, WalkIs
<1>6. CASE ~Between(w, OnClock(t + Offset))
  <2>1. ~IsQuiet(w, t)
    BY <1>3, <1>6 DEF IsQuiet, QuietUntil
  <2> QED BY <1>2, <1>6, <2>1, WalkIs
<1> QED
  BY <1>5, <1>6

\* The moment returned is the end of a whole window that holds the present.
LEMMA UntilIsEnd ==
  ASSUME NEW w \in Windows, NEW t \in Nat, IsQuiet(w, t)
  PROVE  /\ QuietUntil(w, t) \in Int
         /\ QuietUntil(w, t) > t /\ QuietUntil(w, t) - Span(w) <= t
         /\ OnClock(QuietUntil(w, t) + Offset) = w.to
         /\ \A x \in Int : QuietUntil(w, t) - Span(w) <= x /\ x < QuietUntil(w, t) =>
              OnClock(x + Offset) \in Walk(w)
<1>1. w.from \in Face /\ w.to \in Face /\ Day \in Nat \ {0} /\ Offset \in Nat
  BY QuietConstants DEF Windows
<1>2. t + Offset \in Nat
  BY <1>1
<1> DEFINE end == NextEnd(w, t + Offset)
<1>3. QuietUntil(w, t) = end - Offset /\ Between(w, OnClock(t + Offset))
  BY QuietIsWalk
<1>4. end \in Int /\ end > t + Offset /\ end - Span(w) <= t + Offset
  BY <1>2, <1>3, EndIsAhead
<1>5. PICK p \in Nat : end = p * Day + w.to
  BY <1>2, <1>3, EndIsAhead
<1>6. Span(w) \in Int
  BY <1>1, SpanIs DEF Face
<1> HIDE DEF end
<1>7. OnClock(QuietUntil(w, t) + Offset) = w.to
  <2>1. QuietUntil(w, t) + Offset = p * Day + w.to
    BY <1>1, <1>3, <1>4, <1>5
  <2>2. (p * Day + w.to) % Day = w.to
    BY <1>1, FaceIs
  <2> QED BY <2>1, <2>2 DEF OnClock
<1>8. ASSUME NEW x \in Int, QuietUntil(w, t) - Span(w) <= x, x < QuietUntil(w, t)
      PROVE  OnClock(x + Offset) \in Walk(w)
  <2>1. end - (x + Offset) \in 1..Span(w)
    BY <1>1, <1>3, <1>4, <1>6, <1>8
  <2>2. OnClock(end - (end - (x + Offset))) \in Walk(w)
    BY <1>4, <1>5, <2>1, WalkEnds
  <2>3. end - (end - (x + Offset)) = x + Offset
    BY <1>1, <1>4
  <2> QED BY <2>2, <2>3
<1> QED
  BY <1>1, <1>3, <1>4, <1>6, <1>7, <1>8

-----------------------------------------------------------------------------
(* The theorems *)

\* A message that was declared silent or not was by the hour of the declaration; one that
\* waits in the ZSET is not declared yet.
DeclaredByHour ==
  alert \in {"batch", "sending", "sleeping"} => (silent <=> IsQuiet(asked, decided))

\* The types of the variables that the clock and the declaration compare, and of the others.
NumbersTyped == now \in Nat /\ decided \in Nat /\ decided <= now
FlagsTyped ==
  /\ window \in Windows \cup {Off} /\ asked \in Windows \cup {Off}
  /\ alert \in {"none", "batch", "delayed", "sending", "sleeping"}
  /\ silent \in BOOLEAN /\ waited \in BOOLEAN

\* Every variable keeps its type, and the flag stays what it was declared.
LEMMA QuietStep == TypeOK /\ DeclaredByHour /\ [Next]_vars => TypeOK' /\ DeclaredByHour'
<1> SUFFICES ASSUME TypeOK, DeclaredByHour, [Next]_vars
             PROVE  TypeOK' /\ DeclaredByHour'
  OBVIOUS
<1>1. NumbersTyped /\ FlagsTyped
  BY DEF TypeOK, NumbersTyped, FlagsTyped
<1>2. NumbersTyped'
  BY <1>1 DEF NumbersTyped, Next, SetQuiet, Tick, SelectPaid, Turn, Enqueue, Take, Sleep, Wake,
     Answer, Decide, vars
<1>3. FlagsTyped' /\ DeclaredByHour'
  <2> USE <1>1 DEF FlagsTyped, DeclaredByHour
  <2>1. ASSUME NEW w \in Presets \cup {Off}, SetQuiet(w)
        PROVE  FlagsTyped' /\ DeclaredByHour'
    BY <2>1, QuietConstants, Zenon DEF SetQuiet
  <2>2. CASE Tick
    BY <2>2, Zenon DEF Tick
  <2>3. CASE SelectPaid \/ Take
    BY <2>3, Zenon DEF SelectPaid, Take, Decide, IsQuiet
  <2>4. CASE Turn
    BY <2>4, Zenon DEF Turn
  <2>5. CASE Enqueue
    BY <2>5, Zenon DEF Enqueue
  <2>6. CASE Sleep
    BY <2>6, Zenon DEF Sleep
  <2>7. CASE Wake
    BY <2>7, Zenon DEF Wake
  <2>8. CASE Answer
    BY <2>8, Zenon DEF Answer
  <2>9. CASE UNCHANGED vars
    BY <2>9, Zenon DEF vars
  <2> QED
    BY <2>1, <2>2, <2>3, <2>4, <2>5, <2>6, <2>7, <2>8, <2>9 DEF Next
<1> QED
  BY <1>2, <1>3 DEF TypeOK, NumbersTyped, FlagsTyped

\* They hold in every behaviour.
LEMMA QuietHolds == Spec => [](TypeOK /\ DeclaredByHour)
<1>1. Init => NumbersTyped
  BY QuietConstants DEF Init, NumbersTyped, Face
<1>2. Init => FlagsTyped /\ DeclaredByHour
  BY Zenon DEF Init, FlagsTyped, DeclaredByHour
<1>3. Init => TypeOK /\ DeclaredByHour
  BY <1>1, <1>2 DEF TypeOK, NumbersTyped, FlagsTyped
<1> QED
  BY <1>3, QuietStep, PTL DEF Spec

\* Whatever the window, the length of the day and the offset, it is quiet exactly while the hand is
\* on its way from the one end to the other, and what _quiet_until_utc returns is the first
\* moment at which it no longer is (notifier.py:94-130).
THEOREM EndsAreRight == Spec => []EndIsRight
<1>1. TypeOK => EndIsRight
  <2> SUFFICES ASSUME TypeOK, window # Off
               PROVE  LET until == QuietUntil(window, now)
                          Local(t) == OnClock(t + Offset)
                      IN  /\ until # Never <=> Local(now) \in Walk(window)
                          /\ until # Never =>
                               /\ until > now /\ Local(until) = window.to
                               /\ \A t \in now..(until - 1) : Local(t) \in Walk(window)
    BY DEF EndIsRight
  <2>1. window \in Windows /\ now \in Nat
    BY DEF TypeOK
  <2>2. IsQuiet(window, now) <=> OnClock(now + Offset) \in Walk(window)
    BY <2>1, QuietIsWalk
  <2>3. ASSUME IsQuiet(window, now)
        PROVE  /\ QuietUntil(window, now) > now
               /\ OnClock(QuietUntil(window, now) + Offset) = window.to
               /\ \A t \in now..(QuietUntil(window, now) - 1) :
                    OnClock(t + Offset) \in Walk(window)
    <3>1. Span(window) \in Int
      BY <2>1, SpanIs, QuietConstants DEF Windows, Face
    <3> QED BY <2>1, <2>3, <3>1, UntilIsEnd
  <2> QED BY <2>2, <2>3 DEF IsQuiet
<1> QED
  BY <1>1, QuietHolds, PTL

\* A message that is sent silent outside the window it was declared by has waited past the end of
\* that window, and one that is sent aloud inside it was declared before it began: no
\* other message differs from the hour (notifier.py:519-523).
THEOREM SilenceByTheHour == Spec => []OnlyTheBoundary
<1>1. TypeOK /\ DeclaredByHour => OnlyTheBoundary
  <2> SUFFICES ASSUME TypeOK, DeclaredByHour, alert = "sending", silent # IsQuiet(asked, now)
               PROVE  IF silent THEN QuietUntil(asked, decided) <= now
                      ELSE QuietUntil(asked, now) - Span(asked) > decided
    BY DEF OnlyTheBoundary
  <2>1. now \in Nat /\ decided \in Nat /\ decided <= now /\ silent \in BOOLEAN
    BY DEF TypeOK
  <2>2. silent <=> IsQuiet(asked, decided)
    BY DEF DeclaredByHour
  <2>3. IsQuiet(asked, decided) \/ IsQuiet(asked, now)
    BY <2>2 DEF IsQuiet
  <2>4. asked \in Windows
    BY <2>3 DEF TypeOK, IsQuiet, QuietUntil
  <2>5. Span(asked) \in Int
    BY <2>4, SpanIs, QuietConstants DEF Windows, Face
  <2>6. CASE silent
    <3>1. ~IsQuiet(asked, now)
      BY <2>6 DEF IsQuiet
    <3>2. SUFFICES ASSUME ~(QuietUntil(asked, decided) <= now)
                   PROVE  FALSE
      BY <2>6
    <3>3. OnClock(now + Offset) \in Walk(asked)
      BY <2>1, <2>2, <2>4, <2>5, <2>6, <3>2, UntilIsEnd
    <3> QED BY <2>1, <2>4, <3>1, <3>3, QuietIsWalk
  <2>7. CASE ~silent
    <3>1. IsQuiet(asked, now) /\ ~IsQuiet(asked, decided)
      BY <2>2, <2>3, <2>7
    <3>2. SUFFICES ASSUME ~(QuietUntil(asked, now) - Span(asked) > decided)
                   PROVE  FALSE
      BY <2>7
    <3>3. OnClock(decided + Offset) \in Walk(asked)
      BY <2>1, <2>4, <2>5, <3>1, <3>2, UntilIsEnd
    <3> QED BY <2>1, <2>4, <3>1, <3>3, QuietIsWalk
  <2> QED BY <2>1, <2>6, <2>7
<1> QED
  BY <1>1, QuietHolds, PTL
=============================================================================
