--------------------------- MODULE RestDiffProofs ---------------------------
(***************************************************************************)
(* Proofs about RestDiff, for any sets of operators, locations and         *)
(* statuses: type correctness; that a transition is saved only after it is *)
(* published; that a baseline survives failing listings, aborted ticks,    *)
(* lost answers and restarts; and that between two ticks the readers of    *)
(* the stream know the baseline the next tick compares with.               *)
(***************************************************************************)
EXTENDS RestDiff, TLAPS

\* The listing of an operator has been dealt with in this tick.
Dealt(l) == OperatorOf[l] \notin left

\* What a tick has noted as a change, it has published.
ChangesTold ==
  \A l \in Locs :
    (new[l] # None /\ prev[l] # None /\ new[l] # prev[l]) => told[l] = new[l]

\* A location with a baseline gets a new one before its tick ends.
BaselineFollows ==
  pc = "tick" =>
    \A l \in Locs \ omitted :
      (prev[l] # None /\ Dealt(l)) => l \in todo \/ new[l] # None

\* Readers know the baseline: of this tick where it is noted, else of the last one.
ToldIsKnown ==
  faults = 0 => \A l \in Locs \ omitted :
    told[l] # None => told[l] = (IF new[l] # None THEN new[l] ELSE saved[l])

\* A tick notes a location only when it compares it or its operator fails, and it
\* compares only what it has listed.
NotedOnce ==
  pc = "tick" =>
    \A l \in Locs :
      /\ (~Dealt(l) \/ l \in todo) => new[l] = None
      /\ l \in todo => Dealt(l)

\* The inductive invariant behind ToldIsBaseline.
BaselineInv ==
  TypeOK /\ SavedIsPrev /\ BaselineFollows /\ ToldIsKnown /\ NotedOnce

-----------------------------------------------------------------------------
(* Type correctness *)

\* Every initial state is well typed.
LEMMA InitTyped == Init => TypeOK
  BY OperatorsTyped DEF Init, TypeOK, Baseline, Blank

\* save_rest_prev leaves a status, or none, in every field.
LEMMA SavedTyped ==
  ASSUME TypeOK
  PROVE  Saved \in Baseline
  BY DEF TypeOK, Baseline, Saved

\* Every step of the poller and of the stations preserves the types.
LEMMA StepTyped ==
  ASSUME TypeOK, [Next]_vars
  PROVE  TypeOK'
<1>1. ASSUME NEW l \in Locs, NEW st \in Statuses, Change(l, st)
      PROVE  TypeOK'
  BY <1>1 DEF TypeOK, Change, tickVars, histVars, Baseline, Blank
<1>2. CASE StartTick
  BY <1>2 DEF TypeOK, StartTick, Baseline, Blank, histVars
<1>3. ASSUME NEW op \in Operators, List(op)
      PROVE  TypeOK'
  BY <1>3, NoneIsNoStatus DEF TypeOK, List, Baseline, Blank
<1>4. ASSUME NEW op \in Operators, ListFails(op)
      PROVE  TypeOK'
  BY <1>4 DEF TypeOK, ListFails, Kept, Baseline, Blank, histVars
<1>5. ASSUME NEW l \in Locs, Compare(l)
      PROVE  TypeOK'
  BY <1>5 DEF TypeOK, Compare, Baseline, Blank, histVars
<1>6. CASE Save
  BY <1>6, SavedTyped DEF TypeOK, Save, EndTick, Baseline, Blank, histVars
<1>7. CASE TickFails
  BY <1>7, OperatorsTyped DEF TypeOK, TickFails, CutShort, EndTick, Baseline, Blank
<1>8. CASE SaveUnseen
  BY <1>8, OperatorsTyped, SavedTyped DEF TypeOK, SaveUnseen, CutShort, EndTick, Baseline, Blank
<1>9. CASE Stop
  BY <1>9, OperatorsTyped DEF TypeOK, Stop, CutShort, Baseline, Blank
<1>10. CASE Start
  BY <1>10 DEF TypeOK, Start, Load, tickVars, histVars, Baseline, Blank
<1>11. CASE UNCHANGED vars
  BY <1>11 DEF TypeOK, vars, tickVars, histVars
<1> QED
  BY <1>1, <1>2, <1>3, <1>4, <1>5, <1>6, <1>7, <1>8, <1>9, <1>10, <1>11
  DEF Next, Tick

\* Every variable keeps its type in every behaviour.
THEOREM TypeCorrect == Spec => []TypeOK
  BY InitTyped, StepTyped, PTL DEF Spec

-----------------------------------------------------------------------------
(* Publication comes before the save *)

\* ChangesTold is inductive: Compare notes and publishes in one go, a failed
\* listing notes what was known, and everything else clears the notes.
LEMMA ChangesToldStep ==
  ASSUME TypeOK, ChangesTold, [Next]_vars
  PROVE  ChangesTold'
<1> USE DEF ChangesTold
<1>1. ASSUME NEW op \in Operators, ListFails(op)
      PROVE  ChangesTold'
  BY <1>1 DEF ListFails, Kept
<1>2. ASSUME NEW l \in Locs, Compare(l)
      PROVE  ChangesTold'
  BY <1>2 DEF Compare, Differs, TypeOK, Baseline
<1>3. CASE StartTick \/ Save \/ TickFails \/ SaveUnseen \/ Stop
  BY <1>3 DEF StartTick, Save, TickFails, SaveUnseen, EndTick, Stop, Blank
<1>4. CASE Start
  BY <1>4 DEF Start, TypeOK, Blank, tickVars, histVars
<1>5. ASSUME NEW op \in Operators, List(op)
      PROVE  ChangesTold'
  BY <1>5 DEF List
<1>6. ASSUME NEW l \in Locs, NEW st \in Statuses, Change(l, st)
      PROVE  ChangesTold'
  BY <1>6 DEF Change, tickVars, histVars
<1>7. CASE UNCHANGED vars
  BY <1>7 DEF vars, tickVars, histVars
<1> QED
  BY <1>1, <1>2, <1>3, <1>4, <1>5, <1>6, <1>7 DEF Next, Tick

\* A transition is published before it is saved, whatever fails or stops.
THEOREM PublicationFirst == Spec => PublishedBeforeSaved
<1> DEFINE SavedIsTold(l) ==
             (saved'[l] # saved[l] /\ prev[l] # None /\ saved'[l] # None) =>
               told'[l] = saved'[l]
<1>1. Init => ChangesTold
  BY DEF Init, ChangesTold, Blank
<1>2. ASSUME TypeOK, ChangesTold, [Next]_vars
      PROVE  \A l \in Locs : SavedIsTold(l)
  <2>1. CASE Save \/ SaveUnseen
    BY <1>2, <2>1 DEF Save, SaveUnseen, Saved, ChangesTold
  <2>2. CASE ~(Save \/ SaveUnseen)
    <3>1. saved' = saved
      BY <1>2, <2>2 DEF Next, Tick, Change, StartTick, List, ListFails, Compare,
                        TickFails, Stop, Start, vars
    <3> QED BY <3>1
  <2> QED BY <2>1, <2>2
<1> QED
  BY <1>1, <1>2, TypeCorrect, ChangesToldStep, PTL DEF Spec, PublishedBeforeSaved

-----------------------------------------------------------------------------
(* No known location loses its baseline *)

\* BaselineFollows is inductive: what a listing leaves out is omitted.
LEMMA BaselineFollowsStep ==
  ASSUME TypeOK, BaselineFollows, [Next]_vars
  PROVE  BaselineFollows'
<1> USE DEF BaselineFollows, Dealt
<1>1. CASE StartTick
  BY <1>1, OperatorsTyped DEF StartTick
<1>2. ASSUME NEW op \in Operators, List(op)
      PROVE  BaselineFollows'
  BY <1>2 DEF List
<1>3. ASSUME NEW op \in Operators, ListFails(op)
      PROVE  BaselineFollows'
  BY <1>3 DEF ListFails, Kept, histVars
<1>4. ASSUME NEW l \in Locs, Compare(l)
      PROVE  BaselineFollows'
  BY <1>4 DEF Compare, TypeOK, Baseline, histVars
<1>5. CASE Save \/ TickFails \/ SaveUnseen \/ Stop \/ Start
  BY <1>5 DEF Save, TickFails, SaveUnseen, EndTick, Stop, Start
<1>6. ASSUME NEW l \in Locs, NEW st \in Statuses, Change(l, st)
      PROVE  BaselineFollows'
  BY <1>6 DEF Change, tickVars, histVars
<1>7. CASE UNCHANGED vars
  BY <1>7 DEF vars, tickVars, histVars
<1> QED
  BY <1>1, <1>2, <1>3, <1>4, <1>5, <1>6, <1>7 DEF Next, Tick

\* No failure of a listing, a call or the process makes the poller forget a location
\* that it knows and that no listing left out.
THEOREM BaselineSurvives == Spec => BaselineKept
<1> DEFINE KeptField(l) == saved[l] # None => saved'[l] # None
<1>1. Init => BaselineFollows
  BY DEF Init, BaselineFollows
<1>2. ASSUME TypeOK, BaselineFollows, [Next]_vars
      PROVE  \A l \in Locs \ omitted : KeptField(l)
  <2>1. CASE Save \/ SaveUnseen
    <3>1. pc = "tick" /\ left = {} /\ todo = {} /\ saved' = Saved
      BY <2>1 DEF Save, SaveUnseen
    <3>2. \A l \in Locs \ omitted : prev[l] # None => new[l] # None
      BY <1>2, <3>1 DEF BaselineFollows, Dealt
    <3> QED BY <3>1, <3>2 DEF Saved
  <2>2. CASE ~(Save \/ SaveUnseen)
    <3>1. saved' = saved
      BY <1>2, <2>2 DEF Next, Tick, Change, StartTick, List, ListFails, Compare,
                        TickFails, Stop, Start, vars
    <3> QED BY <3>1
  <2> QED BY <2>1, <2>2
<1>3. TypeOK /\ BaselineFollows /\ [Next]_vars => BaselineFollows'
  BY BaselineFollowsStep
<1> QED
  BY <1>1, <1>2, <1>3, TypeCorrect, PTL DEF Spec, BaselineKept

-----------------------------------------------------------------------------
(* Between two ticks the readers know the baseline *)

\* The inductive invariant holds at the start.
LEMMA BaselineInit == Init => BaselineInv
  BY InitTyped DEF Init, BaselineInv, SavedIsPrev, BaselineFollows, ToldIsKnown,
                   NotedOnce, Blank

\* Every step preserves it; a tick cut short ends what it says of readers.
LEMMA BaselineStep ==
  ASSUME BaselineInv, [Next]_vars
  PROVE  BaselineInv'
<1>1. TypeOK' /\ BaselineFollows'
  BY StepTyped, BaselineFollowsStep DEF BaselineInv
<1> USE DEF BaselineInv, SavedIsPrev, ToldIsKnown, NotedOnce, Dealt
<1>2. CASE StartTick
  BY <1>1, <1>2, OperatorsTyped DEF StartTick, TypeOK, Blank, histVars
<1>3. ASSUME NEW op \in Operators, List(op)
      PROVE  BaselineInv'
  BY <1>1, <1>3 DEF List
<1>4. ASSUME NEW op \in Operators, ListFails(op)
      PROVE  BaselineInv'
  BY <1>1, <1>4 DEF ListFails, Kept, histVars
<1>5. ASSUME NEW l \in Locs, Compare(l)
      PROVE  BaselineInv'
  BY <1>1, <1>5 DEF Compare, Differs, TypeOK, Baseline, histVars
<1>6. CASE Save
  <2>1. pc = "tick" /\ left = {} /\ todo = {} /\ pc' = "idle" /\ new' = Blank
        /\ saved' = Saved /\ prev' = new /\ told' = told /\ UNCHANGED histVars
    BY <1>6 DEF Save, EndTick
  <2>2. ASSUME NEW l \in Locs, faults = 0
        PROVE  saved'[l] = new[l]
    BY <2>1, <2>2 DEF Saved
  <2>3. faults = 0 => saved' = prev'
    BY <2>1, <2>2, SavedTyped DEF TypeOK, Baseline
  <2>4. ASSUME NEW l \in Locs \ omitted, faults = 0, told[l] # None
        PROVE  told[l] = new[l]
    BY <2>1, <2>4 DEF BaselineFollows
  <2> QED BY <1>1, <2>1, <2>2, <2>3, <2>4 DEF Blank, histVars
<1>7. CASE TickFails \/ SaveUnseen
  BY <1>1, <1>7 DEF TickFails, SaveUnseen, CutShort, EndTick, TypeOK
<1>8. CASE Stop
  BY <1>1, <1>8 DEF Stop, CutShort, TypeOK
<1>9. CASE Start
  BY <1>1, <1>9 DEF Start, Load, tickVars, histVars
<1>10. ASSUME NEW l \in Locs, NEW st \in Statuses, Change(l, st)
      PROVE  BaselineInv'
  BY <1>1, <1>10 DEF Change, tickVars, histVars
<1>11. CASE UNCHANGED vars
  BY <1>1, <1>11 DEF vars, tickVars, histVars
<1> QED
  BY <1>2, <1>3, <1>4, <1>5, <1>6, <1>7, <1>8, <1>9, <1>10, <1>11 DEF Next, Tick

\* Until a tick is cut short, whoever was told of a location that no listing left
\* out was told the status that the next tick will compare with, whatever listings
\* fail and however often the process restarts between ticks.
THEOREM ReadersKnowBaseline == Spec => [](ToldIsBaseline /\ SavedIsPrev)
<1>1. BaselineInv => ToldIsBaseline /\ SavedIsPrev
  BY DEF BaselineInv, ToldIsBaseline, SavedIsPrev, ToldIsKnown, TypeOK, Blank
<1>2. BaselineInv /\ [Next]_vars => BaselineInv'
  BY BaselineStep
<1> QED
  BY <1>1, <1>2, BaselineInit, PTL DEF Spec
=============================================================================
