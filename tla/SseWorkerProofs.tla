--------------------------- MODULE SseWorkerProofs ---------------------------
(***************************************************************************)
(* Proofs about SseWorker, for any connectors, labels and number of frames *)
(* that are cut short: every variable keeps its type, the database follows *)
(* what the worker knows, and what it announces has been taken.            *)
(***************************************************************************)
EXTENDS SseWorker, TLAPS

InFrame == {"sync", "seed", "save", "flip", "publish"}

\* What a frame has computed; a worker in step with the database has a baseline.
FrameInv ==
  /\ pc \in InFrame => cur = FreeLabels(seen)
  /\ pc \in {"save", "flip", "publish"} => fresh \subseteq cur
  /\ synced => prev # None
  /\ pc \in {"seed", "save", "flip", "publish"} => synced

\* Between its calls the database is behind only by the flip under way.
Behind ==
  synced /\ faults = 0 =>
    /\ pc \in {"read", "seed", "publish"} => db = Aggregate(prev)
    /\ pc = "save" /\ ~flipped => db = Aggregate(cur)

\* Who is taken is known to be; and a connector that was seen taken is either known to be,
\* or its label was free for another, or taken with it.
TakenKnown ==
  /\ \A c \in Conns : world[c] = "Charging" => c \in gone
  /\ \A c \in Conns : seen[c] = "Charging" =>
       \/ LabelOf[c] \in FreeLabels(seen) \cup {None}
       \/ \E d \in gone : LabelOf[d] = LabelOf[c] /\ seen[d] = "Charging"

WorkerInv == TypeOK /\ FrameInv /\ Behind /\ TakenKnown

\* The labels of free connectors are labels; none is "no baseline".
LEMMA LabelsTyped ==
  /\ \A status : FreeLabels(status) \subseteq Labels /\ FreeLabels(status) # None
  /\ \A labels \in SUBSET Labels : labels # None
<1>1. \A status : FreeLabels(status) \subseteq Labels
  BY WorkerConstants DEF FreeLabels
<1> QED BY <1>1, WorkerConstants

\* A label is free if one of its connectors is.
LEMMA FreeMeans ==
  ASSUME NEW status, NEW label
  PROVE  label \in FreeLabels(status) <=>
           label # None /\ \E c \in Conns : LabelOf[c] = label /\ status[c] = "Available"
  BY DEF FreeLabels

\* The end of a frame's comparison.
LEMMA DiffTyped ==
  ASSUME TypeOK, NEW labels \in SUBSET Labels, NEW status, Diff(labels, status)
  PROVE  /\ prev' = labels /\ labels # None /\ pc' \in {"seed", "read", "save"}
         /\ fresh' \subseteq labels /\ flipped' \in BOOLEAN
         /\ gone' \subseteq gone
         /\ \A c \in gone : "Charging" \in {status[c], world[c]} => c \in gone'
         /\ pc' = "read" => prev = labels
         /\ pc' = "save" => prev # None /\ flipped' = (Aggregate(prev) # Aggregate(labels))
                            /\ fresh' = labels \ prev
  BY LabelsTyped DEF Diff, Fresh, TypeOK

\* Types.
LEMMA StepTyped ==
  ASSUME TypeOK, [Next]_vars
  PROVE  TypeOK'
<1> USE WorkerConstants DEF TypeOK, memory, frameVars
<1>1. ASSUME NEW c \in Conns, Change(c)
      PROVE  TypeOK'
  BY <1>1 DEF Change
<1>2. CASE Start
  BY <1>2 DEF Start, Load
<1>3. ASSUME NEW c \in Conns, Frame(c)
      PROVE  TypeOK'
  <2>1. seen' \in [Conns -> {None, "Available", "Charging"}] /\ cur' \in SUBSET Labels
    BY <1>3, LabelsTyped DEF Frame
  <2>2. CASE synced
    <3>1. Diff(cur', seen')
      BY <1>3, <2>2 DEF Frame
    <3>2. /\ prev' = cur' /\ pc' \in {"seed", "read", "save"} /\ fresh' \subseteq cur'
          /\ flipped' \in BOOLEAN /\ gone' \subseteq gone
      BY <2>1, <3>1, DiffTyped
    <3>3. UNCHANGED <<world, saved, db, told, synced, faults>>
      BY <1>3 DEF Frame
    <3> QED BY <2>1, <2>2, <3>2, <3>3
  <2>3. CASE ~synced
    BY <1>3, <2>1, <2>3 DEF Frame
  <2> QED BY <2>2, <2>3
<1>4. CASE Sync
  <2>1. Diff(cur, seen) /\ cur \in SUBSET Labels
    BY <1>4 DEF Sync
  <2>2. /\ prev' = cur' /\ pc' \in {"seed", "read", "save"} /\ fresh' \subseteq cur'
        /\ flipped' \in BOOLEAN /\ gone' \subseteq gone
    BY <1>4, <2>1, DiffTyped DEF Sync
  <2>3. /\ UNCHANGED <<world, saved, told, seen, cur, faults>>
        /\ synced' = TRUE /\ db' \in {"FULLY_USED", "AVAILABLE"}
    BY <1>4 DEF Sync, Aggregate
  <2> QED BY <2>1, <2>2, <2>3
<1>5. CASE Seed \/ Save \/ Flip \/ Publish
  <2>1. CASE Seed
    BY <1>5, <2>1 DEF Seed, Seeded
  <2>2. CASE Save
    BY <1>5, <2>2 DEF Save
  <2>3. CASE Flip
    BY <1>5, <2>3 DEF Flip, Aggregate
  <2>4. CASE Publish
    BY <1>5, <2>4 DEF Publish
  <2> QED BY <1>5, <2>1, <2>2, <2>3, <2>4
<1>6. CASE CallFails \/ Stop \/ Cancel
  <2>1. Blank \in [Conns -> {None, "Available", "Charging"}]
    BY DEF Blank
  <2>2. faults' \in 0..MaxFaults
    BY <1>6 DEF CallFails, Stop, Cancel, CutShort
  <2>3. CASE CallFails
    BY <2>2, <2>3 DEF CallFails
  <2>4. CASE Forget
    BY <1>6, <2>1, <2>2, <2>4 DEF CallFails, Stop, Cancel, Forget
  <2> QED BY <1>6, <2>3, <2>4 DEF Stop, Cancel
<1>7. CASE UNCHANGED vars
  BY <1>7 DEF vars
<1> QED BY <1>1, <1>2, <1>3, <1>4, <1>5, <1>6, <1>7 DEF Next, Work

\* What a frame computes, it keeps to its end.
LEMMA StepFrames ==
  ASSUME TypeOK, FrameInv, [Next]_vars
  PROVE  FrameInv'
<1> USE DEF FrameInv, InFrame, memory, frameVars
<1>1. ASSUME NEW c \in Conns, Change(c)
      PROVE  FrameInv'
  BY <1>1 DEF Change
<1>2. CASE Start
  BY <1>2 DEF Start, TypeOK
<1>3. ASSUME NEW c \in Conns, Frame(c)
      PROVE  FrameInv'
  <2>1. cur' \in SUBSET Labels /\ cur' = FreeLabels(seen')
    BY <1>3, LabelsTyped DEF Frame
  <2> QED BY <1>3, <2>1, DiffTyped DEF Frame
<1>4. CASE Sync
  <2>1. Diff(cur, seen) /\ cur \in SUBSET Labels
    BY <1>4 DEF Sync, TypeOK
  <2> QED BY <1>4, <2>1, DiffTyped DEF Sync
<1>5. CASE Seed \/ Save \/ Flip \/ Publish
  BY <1>5 DEF Seed, Save, Flip, Publish
<1>6. CASE CallFails \/ Stop \/ Cancel
  BY <1>6 DEF CallFails, Stop, Cancel, CutShort, Forget
<1>7. CASE UNCHANGED vars
  BY <1>7 DEF vars
<1> QED BY <1>1, <1>2, <1>3, <1>4, <1>5, <1>6, <1>7 DEF Next, Work

\* The flip is written before the next frame is read.
LEMMA StepBehind ==
  ASSUME TypeOK, FrameInv, Behind, [Next]_vars
  PROVE  Behind'
<1> USE DEF Behind, memory, frameVars
<1>1. ASSUME NEW c \in Conns, Change(c)
      PROVE  Behind'
  BY <1>1 DEF Change
<1>2. CASE Start
  BY <1>2 DEF Start, TypeOK
<1>3. ASSUME NEW c \in Conns, Frame(c)
      PROVE  Behind'
  <2>1. cur' \in SUBSET Labels /\ db' = db /\ faults' = faults /\ synced' = synced
    BY <1>3, LabelsTyped DEF Frame
  <2>2. CASE synced /\ faults = 0
    <3>1. Diff(cur', seen') /\ pc = "read" /\ db = Aggregate(prev) /\ prev # None
      BY <1>3, <2>2 DEF Frame, FrameInv
    <3>2. pc' # "seed"
      BY <2>1, <3>1 DEF Diff
    <3> QED BY <2>1, <3>1, <3>2, DiffTyped
  <2>3. CASE ~(synced /\ faults = 0)
    BY <2>1, <2>3
  <2> QED BY <2>2, <2>3
<1>4. CASE Sync
  <2>1. Diff(cur, seen) /\ cur \in SUBSET Labels /\ db' = Aggregate(cur) /\ cur' = cur
    BY <1>4 DEF Sync, TypeOK
  <2> QED BY <2>1, DiffTyped
<1>5. CASE Seed \/ Save \/ Flip \/ Publish
  BY <1>5 DEF Seed, Save, Flip, Publish, Flips, TypeOK
<1>6. CASE CallFails \/ Stop \/ Cancel
  BY <1>6 DEF CallFails, Stop, Cancel, CutShort, Forget, TypeOK
<1>7. CASE UNCHANGED vars
  BY <1>7 DEF vars
<1> QED BY <1>1, <1>2, <1>3, <1>4, <1>5, <1>6, <1>7 DEF Next, Work

\* A frame forgets nobody it has seen taken.
LEMMA StepTaken ==
  ASSUME TypeOK, FrameInv, TakenKnown, [Next]_vars
  PROVE  TakenKnown'
<1> USE DEF memory, frameVars
<1>1. ASSUME NEW c \in Conns, Change(c)
      PROVE  TakenKnown'
  <2>1. seen' = seen /\ gone' = gone \cup {c} /\ \A d \in Conns \ {c} : world'[d] = world[d]
    BY <1>1 DEF Change, TypeOK
  <2>2. FreeLabels(seen') = FreeLabels(seen)
    BY <2>1
  <2> QED BY <2>1, <2>2 DEF TakenKnown
<1>2. CASE Start \/ Seed \/ Save \/ Flip \/ CallFails \/ UNCHANGED vars
  <2>1. seen' = seen /\ gone' = gone /\ world' = world
    BY <1>2 DEF Start, Seed, Save, Flip, CallFails, vars
  <2> QED BY <2>1 DEF TakenKnown
\* After a comparison: what is known to be taken, and was seen so, stays known.
<1>3. ASSUME world' = world, gone' \subseteq gone,
             \A c \in gone : "Charging" \in {seen'[c], world[c]} => c \in gone',
             \/ seen' = seen
             \/ \E c \in Conns : seen' = [seen EXCEPT ![c] = world[c]]
      PROVE  TakenKnown'
  <2>1. \A c \in Conns : world'[c] = "Charging" => c \in gone'
    BY <1>3 DEF TakenKnown
  <2>2. ASSUME NEW x \in Conns, seen'[x] = "Charging", LabelOf[x] # None,
               LabelOf[x] \notin FreeLabels(seen')
        PROVE  \E d \in gone' : LabelOf[d] = LabelOf[x] /\ seen'[d] = "Charging"
    <3>0. gone \subseteq Conns
      BY DEF TypeOK
    <3>1. CASE seen' = seen
      BY <1>3, <2>2, <3>0, <3>1 DEF TakenKnown
    <3>2. ASSUME NEW c \in Conns, seen' = [seen EXCEPT ![c] = world[c]]
          PROVE  \E d \in gone' : LabelOf[d] = LabelOf[x] /\ seen'[d] = "Charging"
      <4>1. seen'[c] = world[c] /\ \A d \in Conns \ {c} : seen'[d] = seen[d]
        BY <3>2 DEF TypeOK
      <4>2. world[c] \in {"Available", "Charging"}
        BY DEF TypeOK
      <4>3. CASE LabelOf[c] = LabelOf[x]
        <5>1. world[c] = "Charging"
          BY <2>2, <4>1, <4>2, <4>3, FreeMeans
        <5>2. c \in gone
          BY <5>1 DEF TakenKnown
        <5> QED BY <1>3, <4>1, <4>3, <5>1, <5>2
      <4>4. CASE LabelOf[c] # LabelOf[x]
        <5>1. seen[x] = "Charging"
          BY <2>2, <4>1, <4>4
        <5>2. LabelOf[x] \notin FreeLabels(seen)
          BY <2>2, <4>1, <4>4, FreeMeans
        <5>3. PICK d \in gone : LabelOf[d] = LabelOf[x] /\ seen[d] = "Charging"
          BY <2>2, <5>1, <5>2 DEF TakenKnown
        <5>4. seen'[d] = "Charging"
          BY <3>0, <4>1, <4>4, <5>3
        <5> QED BY <1>3, <5>3, <5>4
      <4> QED BY <4>3, <4>4
    <3> QED BY <1>3, <3>1, <3>2
  <2> QED BY <2>1, <2>2 DEF TakenKnown
<1>4. ASSUME NEW c \in Conns, Frame(c)
      PROVE  TakenKnown'
  <2>1. cur' \in SUBSET Labels /\ seen' = [seen EXCEPT ![c] = world[c]] /\ world' = world
    BY <1>4, LabelsTyped DEF Frame
  <2>2. CASE synced
    BY <1>3, <1>4, <2>1, <2>2, DiffTyped DEF Frame
  <2>3. CASE ~synced
    BY <1>3, <1>4, <2>1, <2>3 DEF Frame
  <2> QED BY <2>2, <2>3
<1>5. CASE Sync
  <2>1. Diff(cur, seen) /\ cur \in SUBSET Labels /\ seen' = seen /\ world' = world
    BY <1>5 DEF Sync, TypeOK
  <2> QED BY <1>3, <2>1, DiffTyped
<1>6. CASE Publish
  <2>1. /\ seen' = seen /\ world' = world /\ cur = FreeLabels(seen) /\ fresh \subseteq cur
        /\ gone' = {c \in gone : LabelOf[c] \notin fresh \/ world[c] = "Charging"}
    BY <1>6 DEF Publish, FrameInv, InFrame
  <2>2. FreeLabels(seen') = FreeLabels(seen)
    BY <2>1
  <2> QED BY <2>1, <2>2 DEF TakenKnown
<1>7. CASE Stop \/ Cancel
  <2>1. seen' = Blank /\ gone' = gone /\ world' = world
    BY <1>7 DEF Stop, Cancel, Forget
  <2>2. \A c \in Conns : seen'[c] # "Charging"
    BY <2>1, WorkerConstants DEF Blank
  <2> QED BY <2>1, <2>2 DEF TakenKnown
<1> QED BY <1>1, <1>2, <1>4, <1>5, <1>6, <1>7 DEF Next, Work

\* A worker starts with nothing.
LEMMA InitInv == Init => WorkerInv
<1> SUFFICES ASSUME Init
             PROVE  WorkerInv
  OBVIOUS
<1>1. TypeOK
  <2>1. Blank \in [Conns -> {None, "Available", "Charging"}]
    BY DEF Blank
  <2>2. gone \subseteq Conns /\ 0 \in 0..MaxFaults
    BY WorkerConstants DEF Init
  <2> QED BY <2>1, <2>2 DEF Init, TypeOK
<1>2. FrameInv /\ Behind
  BY DEF Init, FrameInv, InFrame, Behind
<1>3. TakenKnown
  BY WorkerConstants DEF Init, TakenKnown, Blank
<1> QED BY <1>1, <1>2, <1>3 DEF WorkerInv

\* Every step preserves the invariant.
LEMMA StepInv == WorkerInv /\ [Next]_vars => WorkerInv'
  BY StepTyped, StepFrames, StepBehind, StepTaken DEF WorkerInv

\* Every variable keeps its type in every behaviour.
THEOREM TypeCorrect == Spec => []TypeOK
<1>1. WorkerInv => TypeOK
  BY DEF WorkerInv
<1> QED
  BY <1>1, InitInv, StepInv, PTL DEF Spec

\* Between two frames the database shows what the worker knows, until a frame is cut
\* short: last_status is written with the first frame and with every flip.
THEOREM DatabaseFollows == Spec => []DbFollows
<1>1. WorkerInv => DbFollows
  BY DEF WorkerInv, Behind, DbFollows
<1> QED
  BY <1>1, InitInv, StepInv, PTL DEF Spec

\* A worker that has seen every connector announces a label only if one of its
\* connectors was taken since it was announced or found free.
THEOREM AnnouncedWasTaken == Spec => OnlyFreedIsAnnouncedOnceSeen
<1> DEFINE Announces == /\ pc' = "save" /\ pc # "save"
                        /\ \A c \in Conns : seen[c] # None
                        /\ prev = FreeLabels(seen)
<1>1. WorkerInv /\ [Next]_vars => [Announces => FreshIsTrue]_vars
  <2> SUFFICES ASSUME WorkerInv, Next, Announces, NEW label \in fresh'
               PROVE  label \in {LabelOf[c] : c \in gone}
    BY DEF FreshIsTrue
  <2>1. TypeOK /\ FrameInv /\ TakenKnown
    BY DEF WorkerInv
  <2>2. CASE Sync
    <3>1. Diff(cur, seen) /\ cur = prev
      BY <2>1, <2>2 DEF Sync, FrameInv, InFrame
    <3>2. pc' # "save"
      BY <3>1 DEF Diff
    <3> QED BY <3>2
  <2>3. ASSUME NEW c \in Conns, Frame(c)
        PROVE  label \in {LabelOf[d] : d \in gone}
    <3>1. cur' = FreeLabels(seen') /\ seen' = [seen EXCEPT ![c] = world[c]] /\ synced
      BY <2>3 DEF Frame
    <3>2. Diff(cur', seen') /\ cur' \in SUBSET Labels
      BY <2>3, <3>1, LabelsTyped DEF Frame
    <3>3. label \in FreeLabels(seen') \ FreeLabels(seen)
      BY <2>1, <3>1, <3>2, DiffTyped
    <3>4. PICK x \in Conns : LabelOf[x] = label /\ seen'[x] = "Available" /\ label # None
      BY <3>3, FreeMeans
    <3>5. seen[x] # "Available"
      BY <3>3, <3>4, FreeMeans
    <3>6. seen[x] = "Charging"
      BY <2>1, <3>5 DEF TypeOK
    <3>7. PICK d \in gone : LabelOf[d] = label
      BY <2>1, <3>3, <3>4, <3>6 DEF TakenKnown
    <3> QED BY <3>7
  <2> QED
    BY <2>2, <2>3 DEF Next, Work, Start, Seed, Save, Flip, Publish, CallFails, Stop, Cancel,
       Forget, Change, memory
<1> QED
  BY <1>1, InitInv, StepInv, PTL DEF Spec, OnlyFreedIsAnnouncedOnceSeen
=============================================================================
