----------------------------- MODULE SseWorker ------------------------------
(***************************************************************************)
(* One worker of the streaming half of the poller (_sse_worker of          *)
(* src/poller/main.py): it follows the connectors of one device, keeps the *)
(* labels of those that are free, and publishes the labels that became     *)
(* free.  The worker is started and cancelled by SseManager, and keeps its *)
(* baseline in Redis for the next start.                                   *)
(*                                                                         *)
(* Statuses are "Available" and, for every other OCPP status, "Charging".  *)
(***************************************************************************)
EXTENDS Naturals

CONSTANTS
  Conns,     \* codeByProtocol of the device's connectors
  Labels,    \* human-readable connector types
  LabelOf,   \* [Conns -> Labels \cup {None}]: connector_map
  None,      \* no label, no status, no baseline
  MaxFaults  \* bound of the frames that are cut short

ASSUME WorkerConstants ==
  /\ LabelOf \in [Conns -> Labels \cup {None}]
  /\ MaxFaults \in Nat
  /\ None \notin Labels \cup {"Available", "Charging"}
  /\ \A labels \in SUBSET Labels : labels # None

VARIABLES
  world,   \* the status of each connector
  saved,   \* the device's entry of SSE_PREV_FREE_HASH
  db,      \* locations.last_status
  told,    \* the location's status in the last event of the stream
  pc,      \* "down", "read", or the call of the frame under way
  seen,    \* last
  prev,    \* prev_free_labels
  cur,     \* current_free_labels
  fresh,   \* newly_free
  flipped, \* was_any_free != any_free
  synced,  \* db_synced
  gone,    \* history: connectors taken since they were announced or found free
  faults   \* history: frames cut short

frameVars == <<cur, fresh, flipped>>
memory == <<seen, prev, synced, frameVars>>
vars == <<world, saved, db, told, pc, memory, gone, faults>>

Blank == [c \in Conns |-> None]

\* The labels of the connectors that a table of statuses shows free.
FreeLabels(status) ==
  {LabelOf[c] : c \in {x \in Conns : status[x] = "Available"}} \ {None}

Aggregate(labels) == IF labels = {} THEN "FULLY_USED" ELSE "AVAILABLE"

Init ==
  /\ world \in [Conns -> {"Available", "Charging"}]
  /\ saved = None /\ db = None /\ told = None
  /\ pc = "down" /\ seen = Blank /\ prev = None /\ synced = FALSE
  /\ cur = {} /\ fresh = {} /\ flipped = FALSE
  /\ gone = {c \in Conns : world[c] = "Charging"} /\ faults = 0

\* A connector is taken or released.
Change(c) ==
  /\ world' = [world EXCEPT ![c] = IF @ = "Available" THEN "Charging" ELSE "Available"]
  /\ gone' = gone \cup {c}
  /\ UNCHANGED <<saved, db, told, pc, memory, faults>>

-----------------------------------------------------------------------------
(* The worker *)

\* Faulty: no baseline after a restart.
LoadNothing == None

\* HGET of the persisted baseline.
Load == saved

\* A call that raises here ends the task; the manager starts another.
Start ==
  /\ pc = "down"
  /\ pc' = "read"
  /\ prev' = Load
  /\ UNCHANGED <<world, saved, db, told, seen, synced, frameVars, gone, faults>>

\* A restart would know that the label is free.
Known(label) == saved # None /\ label \in saved

\* Faulty: what is free now, instead of what has become so.
FreshIsFree(labels) == labels

\* What has become free since the previous frame.
Fresh(labels) == labels \ prev

\* What a frame leads to once the labels free now are known: a first baseline,
\* nothing, or a difference to save and publish.
Diff(labels, status) ==
  /\ prev' = labels
  /\ \/ prev = None /\ pc' = "seed" /\ fresh' = {} /\ flipped' = FALSE
     \/ prev = labels /\ pc' = "read" /\ fresh' = {} /\ flipped' = FALSE
     \/ /\ prev \notin {None, labels} /\ pc' = "save"
        /\ fresh' = Fresh(labels)
        /\ flipped' = (Aggregate(prev) # Aggregate(labels))
  /\ gone' = {c \in gone : \/ "Charging" \in {status[c], world[c]}
                           \/ LabelOf[c] \in fresh' \/ ~Known(LabelOf[c])}

\* A frame: the status of one connector.  The first of a worker's life is written
\* to the database before anything else.
Frame(c) ==
  /\ pc = "read"
  /\ seen' = [seen EXCEPT ![c] = world[c]]
  /\ cur' = FreeLabels(seen')
  /\ IF synced
     THEN Diff(cur', seen')
     ELSE /\ pc' = "sync"
          /\ UNCHANGED <<prev, fresh, flipped, gone>>
  /\ UNCHANGED <<world, saved, db, told, synced, faults>>

\* The first _set_location_status of the worker.
Sync ==
  /\ pc = "sync"
  /\ db' = Aggregate(cur)
  /\ synced' = TRUE
  /\ Diff(cur, seen)
  /\ UNCHANGED <<world, saved, told, seen, cur, faults>>

\* HSET of the first baseline.
Seeded == cur

Seed ==
  /\ pc = "seed"
  /\ saved' = Seeded
  /\ pc' = "read"
  /\ UNCHANGED <<world, db, told, memory, gone, faults>>

\* Faulty: the aggregate is written only with an event.
FlipsWithNews == flipped /\ fresh # {}

\* The database is written when the aggregate changes.
Flips == flipped

\* HSET of the new baseline.
Save ==
  /\ pc = "save"
  /\ saved' = cur
  /\ pc' = IF Flips THEN "flip" ELSE IF fresh # {} THEN "publish" ELSE "read"
  /\ UNCHANGED <<world, db, told, memory, gone, faults>>

\* _set_location_status.
Flip ==
  /\ pc = "flip"
  /\ db' = Aggregate(cur)
  /\ pc' = IF fresh # {} THEN "publish" ELSE "read"
  /\ UNCHANGED <<world, saved, told, memory, gone, faults>>

\* XADD of the labels that became free, and of those that are free: the only event.
Publish ==
  /\ pc = "publish"
  /\ pc' = "read"
  /\ told' = "AVAILABLE"
  /\ gone' = {c \in gone : LabelOf[c] \notin fresh \/ world[c] = "Charging"}
  /\ UNCHANGED <<world, saved, db, memory, faults>>

CutShort ==
  pc \notin {"down", "read"} /\ faults < MaxFaults /\ faults' = faults + 1

\* A call raises: the worker reconnects after its back-off, with what it has seen.
\* A connection that breaks between two frames changes nothing.
CallFails ==
  /\ CutShort
  /\ pc' = "read"
  /\ UNCHANGED <<world, saved, db, told, memory, gone>>

-----------------------------------------------------------------------------
(* The end of a worker *)

\* Faulty: the next worker believes the database in step.
StaysSynced ==
  /\ pc' = "down"
  /\ seen' = Blank /\ prev' = None /\ UNCHANGED synced
  /\ cur' = {} /\ fresh' = {} /\ flipped' = FALSE

\* What the worker had in memory is gone.
Forget ==
  /\ pc' = "down"
  /\ seen' = Blank /\ prev' = None /\ synced' = FALSE
  /\ cur' = {} /\ fresh' = {} /\ flipped' = FALSE

\* The process stops, between two frames or in one.
Stop ==
  /\ \/ pc = "read" /\ UNCHANGED faults
     \/ CutShort
  /\ Forget
  /\ UNCHANGED <<world, saved, db, told, gone>>

\* The manager cancels the worker of a device nobody follows, and deletes its entry.
Cancel ==
  /\ pc # "down"
  /\ Forget
  /\ saved' = None
  /\ UNCHANGED <<world, db, told, gone, faults>>

Work == Start \/ Sync \/ Seed \/ Save \/ Flip \/ Publish

Next ==
  \/ Work \/ CallFails \/ Stop \/ Cancel
  \/ \E c \in Conns : Frame(c) \/ Change(c)

Spec == Init /\ [][Next]_vars

\* A worker that can go on does; the manager starts another for one that ended; and
\* the provider repeats the status of every connector (client.py:102-107).
FairSpec ==
  /\ Spec
  /\ WF_vars(Work)
  /\ \A c \in Conns : SF_vars(Frame(c))

-----------------------------------------------------------------------------
(* Properties *)

\* Every variable keeps its type; a worker that is in a frame has compared it with a
\* baseline, or is about to; one that is down keeps nothing.
TypeOK ==
  /\ world \in [Conns -> {"Available", "Charging"}]
  /\ saved \in (SUBSET Labels) \cup {None}
  /\ {db, told} \subseteq {None, "AVAILABLE", "FULLY_USED"}
  /\ pc \in {"down", "read", "sync", "seed", "save", "flip", "publish"}
  /\ seen \in [Conns -> {None, "Available", "Charging"}]
  /\ prev \in (SUBSET Labels) \cup {None}
  /\ cur \subseteq Labels /\ fresh \subseteq Labels /\ flipped \in BOOLEAN
  /\ synced \in BOOLEAN /\ gone \subseteq Conns /\ faults \in 0..MaxFaults
  /\ pc \in {"seed", "save", "flip", "publish"} => prev = cur
  /\ pc = "down" => prev = None /\ ~synced

\* The news in hand is about a connector that was taken.
FreshIsTrue == fresh' \subseteq {LabelOf[c] : c \in gone}

\* A worker whose baseline covers every connector announces a label only if a connector
\* of it was taken since it was last announced or found free: no spurious alert for what
\* was free all along (main.py:427-429).  Before that it may: the first frame is compared,
\* or taken as the baseline, without the connectors of the others.
OnlyFreedIsAnnouncedOnceSeen ==
  [][(/\ pc' = "save" /\ pc # "save"
      /\ \A c \in Conns : seen[c] # None
      /\ prev = FreeLabels(seen)) => FreshIsTrue]_vars

\* Between two frames the database shows the aggregate of what the worker knows, until
\* a frame is cut short.
DbFollows == (pc = "read" /\ synced /\ faults = 0) => db = Aggregate(prev)

\* The readers of the stream take the status of its last event for the current one
\* (notifier.py:81-82): between two frames it is that of the database.
ToldIsCurrent ==
  (pc = "read" /\ synced /\ faults = 0 /\ told # None) => told = db

\* When a label is known to be taken, even by an earlier run of the worker, it is
\* announced as soon as a connector of it becomes and stays free, while the location
\* is followed and no frame is cut short (main.py:377-379).
FreedIsAnnounced ==
  \A c \in Conns :
    [](faults = 0) =>
      ((saved # None /\ LabelOf[c] \notin saved \cup {None}) ~>
         \/ pc = "publish" /\ LabelOf[c] \in fresh
         \/ world[c] = "Charging"
         \/ saved = None)
=============================================================================
