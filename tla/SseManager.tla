----------------------------- MODULE SseManager -----------------------------
(***************************************************************************)
(* SseManager of src/poller/main.py: on every tick it starts a worker for  *)
(* each device of the locations somebody subscribed to, and cancels those  *)
(* of the others.  A worker is SseWorker; here only whether its task runs, *)
(* and whether it left a baseline in Redis.                                *)
(***************************************************************************)
EXTENDS Naturals, FiniteSets

CONSTANTS
  Locs,       \* locations of the network that is streamed
  DevicesOf,  \* [Locs -> SUBSET Devices]: what the provider would answer
  Devices,    \* device numbers
  Unknown,    \* no entry in _loc_devices
  Keepers,    \* the locations whose subscribers stay
  Failures,   \* which calls may raise: a subset of {"detail", "hdel", "task"}
  MaxFaults,  \* bound of the calls that do
  MaxStops    \* bound of the restarts of the process

ASSUME ManagerConstants ==
  /\ DevicesOf \in [Locs -> SUBSET Devices] /\ Keepers \subseteq Locs
  /\ Failures \subseteq {"detail", "hdel", "task"} /\ MaxFaults \in Nat /\ MaxStops \in Nat

\* A device stands at one location.
ASSUME OneLocation ==
  \A l, m \in Locs : l # m => DevicesOf[l] \cap DevicesOf[m] = {}

ASSUME UnknownIsNoSet == \A devices \in SUBSET Devices : devices # Unknown

VARIABLES
  subscribed, \* the locations with a subscription, in Postgres
  saved,      \* the devices with an entry in SSE_PREV_FREE_HASH
  workers,    \* _workers: the devices with a task in the registry
  running,    \* those whose task has not ended
  known,      \* _loc_devices
  pc,         \* "down", "boot" before the first tick, "idle", "discover", "cancel"
  todo,       \* locations of the tick still to look at
  wanted,     \* the devices of the tick
  undeleted, \* history: the devices whose entry could not be deleted
  faults, stops

tickVars == <<todo, wanted>>
histVars == <<undeleted, faults, stops>>
vars == <<subscribed, saved, workers, running, known, pc, tickVars, histVars>>

Nothing == [l \in Locs |-> Unknown]

Init ==
  /\ subscribed \in {s \in SUBSET Locs : Keepers \subseteq s}
  /\ saved = {} /\ workers = {} /\ running = {}
  /\ known = Nothing /\ pc = "boot" /\ todo = {} /\ wanted = {}
  /\ undeleted = {} /\ faults = 0 /\ stops = 0

\* The first subscription of a location, or the end of its last one.
Subscribe(l) ==
  /\ l \notin subscribed
  /\ subscribed' = subscribed \cup {l}
  /\ UNCHANGED <<saved, workers, running, known, pc, tickVars, histVars>>

Unsubscribe(l) ==
  /\ l \in subscribed \ Keepers
  /\ subscribed' = subscribed \ {l}
  /\ UNCHANGED <<saved, workers, running, known, pc, tickVars, histVars>>

Fault(call) == call \in Failures /\ faults < MaxFaults /\ faults' = faults + 1

-----------------------------------------------------------------------------
(* tick *)

\* The SELECT of the subscribed locations.
StartTick ==
  /\ pc \in {"boot", "idle"}
  /\ todo' = subscribed /\ wanted' = {}
  /\ pc' = "discover"
  /\ UNCHANGED <<subscribed, saved, workers, running, known, histVars>>

\* The devices of a location whose answer is cached.
Recall(l) ==
  /\ pc = "discover" /\ l \in todo /\ known[l] # Unknown
  /\ todo' = todo \ {l}
  /\ wanted' = wanted \cup known[l]
  /\ UNCHANGED <<subscribed, saved, workers, running, known, pc, histVars>>

\* _get_central_device_info answers, or raises and counts as an empty answer;
\* either is cached.
Learn(l, devices) ==
  /\ pc = "discover" /\ l \in todo /\ known[l] = Unknown
  /\ todo' = todo \ {l}
  /\ known' = [known EXCEPT ![l] = devices]
  /\ wanted' = wanted \cup devices
  /\ UNCHANGED <<subscribed, saved, workers, running, pc, undeleted, stops>>

Discover(l) == Learn(l, DevicesOf[l]) /\ UNCHANGED faults

DiscoveryFails(l) == Learn(l, {}) /\ Fault("detail")

\* Faulty: a task that has ended counts as one that runs.
NotInRegistry == wanted \ workers
\* The wanted devices without a task that runs.
Missing == wanted \ (workers \cap running)

\* Faulty: the registry of this tick replaces that of the last one.
OnlyWanted == wanted
\* _workers once the tasks are created.
Registry == workers \cup wanted

\* The tasks are created in one go.
Spawn ==
  /\ pc = "discover" /\ todo = {}
  /\ workers' = Registry
  /\ running' = running \cup Missing
  /\ pc' = "cancel"
  /\ UNCHANGED <<subscribed, saved, known, tickVars, histVars>>

\* Faulty: only tasks that have ended are stale.
StaleEnded == workers \ (wanted \cup running)
\* The tasks of devices that are wanted no more.
Stale == workers \ wanted

\* Faulty: the baseline stays.
KeptBaseline(d) == saved
\* HDEL of the baseline of a device that is followed no more.
NoBaseline(d) == saved \ {d}

\* A stale worker is cancelled, its baseline deleted, its entry removed; an error of
\* Redis is suppressed.
CancelStale(d) ==
  /\ pc = "cancel" /\ d \in Stale
  /\ workers' = workers \ {d} /\ running' = running \ {d}
  /\ \/ saved' = NoBaseline(d) /\ UNCHANGED <<undeleted, faults>>
     \/ UNCHANGED saved /\ Fault("hdel") /\ undeleted' = undeleted \cup {d}
  /\ UNCHANGED <<subscribed, known, pc, tickVars, stops>>

EndTick ==
  /\ pc = "cancel" /\ Stale = {}
  /\ pc' = "idle" /\ todo' = {} /\ wanted' = {}
  /\ UNCHANGED <<subscribed, saved, workers, running, known, histVars>>

-----------------------------------------------------------------------------
(* The workers and the process *)

\* A worker saves its baseline.
Persist(d) ==
  /\ d \in running
  /\ saved' = saved \cup {d}
  /\ UNCHANGED <<subscribed, workers, running, known, pc, tickVars, histVars>>

\* A worker that cannot read its baseline ends, and nobody is told.
WorkerEnds(d) ==
  /\ d \in running /\ Fault("task")
  /\ running' = running \ {d}
  /\ UNCHANGED <<subscribed, saved, workers, known, pc, tickVars, undeleted, stops>>

\* The process stops, between two calls of a tick or of a worker.
Stop ==
  /\ pc # "down" /\ stops < MaxStops
  /\ stops' = stops + 1
  /\ pc' = "down" /\ workers' = {} /\ running' = {} /\ known' = Nothing
  /\ todo' = {} /\ wanted' = {}
  /\ UNCHANGED <<subscribed, saved, undeleted, faults>>

Start ==
  /\ pc = "down"
  /\ pc' = "boot"
  /\ UNCHANGED <<subscribed, saved, workers, running, known, tickVars, histVars>>

Tick ==
  \/ StartTick \/ Spawn \/ EndTick \/ Start
  \/ \E l \in Locs : Recall(l) \/ Discover(l)
  \/ \E d \in Devices : CancelStale(d)

Next ==
  \/ Tick \/ Stop
  \/ \E l \in Locs : Subscribe(l) \/ Unsubscribe(l) \/ DiscoveryFails(l)
  \/ \E d \in Devices : Persist(d) \/ WorkerEnds(d)

Spec == Init /\ [][Next]_vars

\* _periodic ticks as long as the process runs, and Docker restarts the process.
FairSpec == Spec /\ WF_vars(Tick)

-----------------------------------------------------------------------------
(* Properties *)

\* Every variable keeps its type; tasks are registered; a process that is down has no
\* task, and no tick is under way in one that is idle.
TypeOK ==
  /\ subscribed \subseteq Locs /\ Keepers \subseteq subscribed /\ saved \subseteq Devices
  /\ workers \subseteq Devices /\ running \subseteq workers
  /\ known \in [Locs -> (SUBSET Devices) \cup {Unknown}]
  /\ pc \in {"down", "boot", "idle", "discover", "cancel"}
  /\ todo \subseteq Locs /\ wanted \subseteq Devices
  /\ pc = "cancel" => wanted \subseteq workers
  /\ pc \in {"down", "boot", "idle"} => todo = {} /\ wanted = {}
  /\ pc \in {"down", "boot"} => workers = {}
  /\ undeleted \subseteq Devices /\ faults \in 0..MaxFaults /\ stops \in 0..MaxStops

\* In one life of the process, after a tick only devices that are followed have a
\* baseline, but for those whose deletion failed: whoever follows another device starts
\* from what it then sees (main.py:570-573).  Across restarts it is false: a location
\* unsubscribed while the process is down, or before its first tick, keeps its own.
NoStaleBaseline ==
  (stops = 0 /\ pc = "idle") => saved \subseteq workers \cup undeleted

\* The devices of a location that keeps its subscribers are followed, whatever
\* worker ends and whenever the process restarts (main.py:518), unless their discovery
\* fails.
KeepersFollowed ==
  \A l \in Keepers :
    [](known[l] # {}) => []<>(DevicesOf[l] \subseteq running)

\* The devices of a location without subscribers are followed no more in the end
\* (main.py:519).
OthersDropped ==
  \A l \in Locs :
    <>[](l \notin subscribed) => <>[](DevicesOf[l] \cap running = {})
=============================================================================
