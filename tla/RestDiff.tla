------------------------------ MODULE RestDiff ------------------------------
(***************************************************************************)
(* The polling half of the poller (src/poller/main.py): every tick lists   *)
(* the locations of each operator, compares their status with that of the  *)
(* previous tick, publishes the differences, and saves the new statuses in *)
(* Redis for the next start.                                               *)
(*                                                                         *)
(* Of the stream of events the module keeps, per location, what it told    *)
(* last: all that later ticks and the readers of the stream can compare    *)
(* with.  The connector types of an event are Notifier's concern.          *)
(***************************************************************************)
EXTENDS Naturals, FiniteSets

CONSTANTS
  Operators,  \* SUPPORTED_OPERATORS_MVP
  Locs,       \* locations, by external id
  OperatorOf, \* [Locs -> Operators]
  Statuses,   \* LocationStatus
  None,       \* no status: not listed, listed without one, or never seen
  Gaps,       \* TRUE: a listing may omit a location or its status
  Cuts,       \* what may cut a tick short: a subset of {"call", "stop"}
  MaxFaults   \* bound of the ticks that are

ASSUME OperatorsTyped ==
  /\ OperatorOf \in [Locs -> Operators]
  /\ Gaps \in BOOLEAN /\ Cuts \subseteq {"call", "stop"} /\ MaxFaults \in Nat

ASSUME NoneIsNoStatus == None \notin Statuses

VARIABLES
  world,   \* the status of each location at the provider
  told,    \* the to_status of the last event published about it
  saved,   \* REST_PREV_HASH
  prev,    \* the statuses of the previous tick
  new,     \* new_state of the tick under way
  pc,      \* "down", "idle", or "tick"
  left,    \* operators still to be listed in this tick
  items,   \* the last listing: a status, or None, for each location
  todo,    \* its locations that are still to be compared
  omitted, \* history: the locations that a listing left out
  faults   \* history: ticks cut short

tickVars == <<new, left, items, todo>>
histVars == <<omitted, faults>>
vars == <<world, told, saved, prev, pc, tickVars, histVars>>

Baseline == [Locs -> Statuses \cup {None}]
Blank == [l \in Locs |-> None]

Init ==
  /\ world \in [Locs -> Statuses]
  /\ told = Blank /\ saved = Blank /\ prev = Blank /\ new = Blank
  /\ pc = "idle" /\ left = {} /\ items = Blank /\ todo = {}
  /\ omitted = {} /\ faults = 0

\* A station changes its status.
Change(l, st) ==
  /\ st # world[l]
  /\ world' = [world EXCEPT ![l] = st]
  /\ UNCHANGED <<told, saved, prev, pc, tickVars, histVars>>

-----------------------------------------------------------------------------
(* rest_diff_once *)

StartTick ==
  /\ pc = "idle"
  /\ pc' = "tick" /\ left' = Operators /\ new' = Blank
  /\ UNCHANGED <<world, told, saved, prev, items, todo, histVars>>

\* list_locations and upsert_locations: the statuses of the moment, some of them
\* missing if the provider leaves gaps.
List(op) ==
  LET asked == {l \in Locs : OperatorOf[l] = op}
  IN  /\ pc = "tick" /\ todo = {} /\ op \in left
      /\ left' = left \ {op}
      /\ \E shown \in SUBSET asked :
           /\ Gaps \/ shown = asked
           /\ items' = [l \in Locs |-> IF l \in shown THEN world[l] ELSE None]
           /\ todo' = shown
           /\ omitted' = omitted \cup (asked \ shown)
      /\ UNCHANGED <<world, told, saved, prev, new, pc, faults>>

\* Faulty: the locations of an operator that did not answer are forgotten.
Forget(op) == new

\* The baseline that is kept for the locations of an operator that did not answer.
Kept(op) == [l \in Locs |-> IF OperatorOf[l] = op THEN prev[l] ELSE new[l]]

\* list_locations raises.
ListFails(op) ==
  /\ pc = "tick" /\ todo = {} /\ op \in left
  /\ left' = left \ {op}
  /\ new' = Kept(op)
  /\ UNCHANGED <<world, told, saved, prev, pc, items, todo, histVars>>

\* Faulty: only a status that becomes available is published.
AlertsOnly(l) == prev[l] # None /\ prev[l] # items[l] /\ items[l] = "AVAILABLE"

\* A location is worth an event when it had another status at the previous tick.
Differs(l) == prev[l] # None /\ prev[l] # items[l]

Compare(l) ==
  /\ pc = "tick" /\ l \in todo
  /\ todo' = todo \ {l}
  /\ new' = [new EXCEPT ![l] = items[l]]
  /\ told' = IF Differs(l) THEN [told EXCEPT ![l] = items[l]] ELSE told
  /\ UNCHANGED <<world, saved, prev, pc, left, items, histVars>>

\* save_rest_prev: one pipeline of HSET for what changed and HDEL for what is gone.
Saved ==
  [l \in Locs |-> IF prev[l] = new[l] THEN saved[l] ELSE new[l]]

\* Faulty: the state of a tick outlives it.
StateShared ==
  /\ pc' = "idle"
  /\ left' = {} /\ items' = Blank /\ todo' = {} /\ UNCHANGED new

EndTick ==
  /\ pc' = "idle"
  /\ new' = Blank /\ left' = {} /\ items' = Blank /\ todo' = {}

Save ==
  /\ pc = "tick" /\ left = {} /\ todo = {}
  /\ saved' = Saved
  /\ prev' = new
  /\ EndTick
  /\ UNCHANGED <<world, told, histVars>>

CutShort(by) == by \in Cuts /\ faults < MaxFaults /\ faults' = faults + 1

\* Postgres or Redis raises in the middle of a tick: _periodic catches it and
\* the next tick starts from the same `prev`.
TickFails ==
  /\ pc = "tick"
  /\ CutShort("call")
  /\ EndTick
  /\ UNCHANGED <<world, told, saved, prev, omitted>>

\* The pipeline is executed and its answer lost.
SaveUnseen ==
  /\ pc = "tick" /\ left = {} /\ todo = {} /\ new # prev
  /\ CutShort("call")
  /\ saved' = Saved
  /\ EndTick
  /\ UNCHANGED <<world, told, prev, omitted>>

-----------------------------------------------------------------------------
(* The process *)

\* The process stops, between two ticks or in one.
Stop ==
  /\ \/ pc = "idle" /\ UNCHANGED faults
     \/ pc = "tick" /\ CutShort("stop")
  /\ pc' = "down"
  /\ prev' = Blank /\ new' = Blank /\ left' = {} /\ items' = Blank /\ todo' = {}
  /\ UNCHANGED <<world, told, saved, omitted>>

\* Faulty: the diff starts from nothing.
LoadNothing == Blank

\* load_rest_prev.
Load == saved

Start ==
  /\ pc = "down"
  /\ pc' = "idle"
  /\ prev' = Load
  /\ UNCHANGED <<world, told, saved, tickVars, histVars>>

Tick ==
  \/ StartTick \/ Save
  \/ \E op \in Operators : List(op) \/ ListFails(op)
  \/ \E l \in Locs : Compare(l)

Next ==
  \/ Tick \/ TickFails \/ SaveUnseen \/ Stop \/ Start
  \/ \E l \in Locs, st \in Statuses : Change(l, st)

Spec == Init /\ [][Next]_vars

\* What _periodic and the container's restart policy guarantee: a tick that can go
\* on does, a process that was stopped starts, and it is not always stopped before
\* its next tick.  An operator that is asked again and again answers in the end.
FairSpec ==
  /\ Spec
  /\ WF_vars(Tick) /\ WF_vars(Start) /\ SF_vars(StartTick)
  /\ \A op \in Operators : SF_vars(List(op))

-----------------------------------------------------------------------------
(* Properties *)

\* Every variable keeps its type, and the locals of a tick are empty outside one.
TypeOK ==
  /\ world \in [Locs -> Statuses]
  /\ told \in Baseline /\ saved \in Baseline /\ prev \in Baseline
  /\ new \in Baseline /\ items \in Baseline
  /\ pc \in {"down", "idle", "tick"}
  /\ left \subseteq Operators /\ todo \subseteq Locs
  /\ \A l \in todo : items[l] # None
  /\ pc # "tick" => left = {} /\ todo = {} /\ new = Blank
  /\ pc = "down" => prev = Blank
  /\ omitted \subseteq Locs /\ faults \in 0..MaxFaults

\* Between two ticks the readers of the stream know the status the next tick will
\* compare with: no transition is lost and none is told twice, until a tick is cut
\* short, but for the locations that a listing left out.
ToldIsBaseline ==
  (pc = "idle" /\ faults = 0) =>
    \A l \in Locs \ omitted : told[l] # None => told[l] = prev[l]

\* What the next start will load is what this process compares with, until a tick is
\* cut short (main.py:138-140).
SavedIsPrev == (pc # "down" /\ faults = 0) => saved = prev

\* A transition is published before it is saved, so that no stop, fault or
\* restart in between can lose it (main.py:289-291); a location that this
\* process sees for the first time has no transition yet.
PublishedBeforeSaved ==
  [][\A l \in Locs :
       (saved'[l] # saved[l] /\ prev[l] # None /\ saved'[l] # None) =>
         told'[l] = saved'[l]]_vars

\* A location whose status is known does not lose its baseline to a failed
\* listing, a fault or a restart (main.py:224-231), unless a listing left it out.
BaselineKept ==
  [][\A l \in Locs \ omitted : saved[l] # None => saved'[l] # None]_vars

\* A status that stays is told in the end, to whoever was told another one.
Told(l) ==
  \A st \in Statuses : <>[](world[l] = st) => []<>(told[l] \in {st, None})

\* A status that stays is told in the end, if no tick is cut short and no listing
\* leaves the location out.
StatusTold ==
  \A l \in Locs : [](faults = 0 /\ l \notin omitted) => Told(l)
=============================================================================
