-------------------------- MODULE SseManagerProofs --------------------------
(***************************************************************************)
(* Proofs about SseManager, for any locations, devices and calls that      *)
(* fail: every variable keeps its type, and in one life of the process a   *)
(* device that is followed no more leaves no baseline.                     *)
(***************************************************************************)
EXTENDS SseManager, TLAPS

\* Within a tick, too, what has a baseline is in the registry, unless its deletion failed.
BaselineHasWorker == stops = 0 => saved \subseteq workers \cup undeleted

\* The inductive invariant: a worker saves its baseline while its task runs, and a task
\* that runs is registered.
ManagerInv == TypeOK /\ BaselineHasWorker

\* No set of devices stands for an unknown answer, so an answer that is cached is one.
LEMMA CachedIsSet ==
  ASSUME TypeOK, NEW l \in Locs, known[l] # Unknown
  PROVE  known[l] \subseteq Devices
  BY DEF TypeOK

\* The steps of a tick keep the invariant: only a cancelled task leaves the registry, and
\* its baseline is deleted or counted.
LEMMA TickKeeps ==
  ASSUME ManagerInv, Tick \/ \E l \in Locs : DiscoveryFails(l)
  PROVE  ManagerInv'
<1> USE DEF ManagerInv, TypeOK, BaselineHasWorker, tickVars, histVars
<1>1. CASE StartTick
  BY <1>1 DEF StartTick
<1>2. CASE Spawn
  BY <1>2 DEF Spawn, Registry, Missing
<1>3. CASE EndTick
  BY <1>3 DEF EndTick
<1>4. CASE Start
  BY <1>4 DEF Start
<1>5. ASSUME NEW l \in Locs, Recall(l)
      PROVE  ManagerInv'
  BY <1>5, CachedIsSet DEF Recall
<1>6. ASSUME NEW l \in Locs, Discover(l)
      PROVE  ManagerInv'
  <2>1. DevicesOf[l] \in SUBSET Devices
    BY ManagerConstants
  <2> QED BY <1>6, <2>1 DEF Discover, Learn
<1>7. ASSUME NEW l \in Locs, DiscoveryFails(l)
      PROVE  ManagerInv'
  BY <1>7, ManagerConstants DEF DiscoveryFails, Learn, Fault
<1>8. ASSUME NEW d \in Devices, CancelStale(d)
      PROVE  ManagerInv'
  BY <1>8, ManagerConstants DEF CancelStale, Stale, NoBaseline, Fault
<1> QED
  BY <1>1, <1>2, <1>3, <1>4, <1>5, <1>6, <1>7, <1>8 DEF Tick

\* So do subscribers, workers and the process, whose second life it does not speak of.
LEMMA AroundKeeps ==
  ASSUME ManagerInv,
         \/ Stop \/ UNCHANGED vars
         \/ \E l \in Locs : Subscribe(l) \/ Unsubscribe(l)
         \/ \E d \in Devices : Persist(d) \/ WorkerEnds(d)
  PROVE  ManagerInv'
<1> USE DEF ManagerInv, TypeOK, BaselineHasWorker, tickVars, histVars
<1>1. CASE Stop
  BY <1>1, ManagerConstants DEF Stop, Nothing
<1>2. ASSUME NEW l \in Locs, Subscribe(l) \/ Unsubscribe(l)
      PROVE  ManagerInv'
  BY <1>2 DEF Subscribe, Unsubscribe
<1>3. ASSUME NEW d \in Devices, Persist(d)
      PROVE  ManagerInv'
  BY <1>3 DEF Persist
<1>4. ASSUME NEW d \in Devices, WorkerEnds(d)
      PROVE  ManagerInv'
  BY <1>4, ManagerConstants DEF WorkerEnds, Fault
<1>5. CASE UNCHANGED vars
  BY <1>5 DEF vars
<1> QED BY <1>1, <1>2, <1>3, <1>4, <1>5

\* Every behaviour keeps the invariant.
LEMMA ManagerKeeps == Spec => []ManagerInv
<1>1. Init => ManagerInv
  BY ManagerConstants DEF Init, Nothing, ManagerInv, TypeOK, BaselineHasWorker
<1>2. ManagerInv /\ [Next]_vars => ManagerInv'
  BY TickKeeps, AroundKeeps DEF Next
<1> QED BY <1>1, <1>2, PTL DEF Spec

\* Every variable of the manager keeps its type: in particular a task that runs is
\* registered, and the tasks of a tick are created before the stale ones are looked for.
THEOREM TypeCorrect == Spec => []TypeOK
  BY ManagerKeeps, PTL DEF ManagerInv

\* In one life of the process no device that is followed no more keeps a baseline, unless
\* its deletion failed, whoever subscribes and leaves during a tick.
THEOREM NoBaselineLeft == Spec => []NoStaleBaseline
<1>1. ManagerInv => NoStaleBaseline
  BY DEF ManagerInv, BaselineHasWorker, NoStaleBaseline
<1> QED BY <1>1, ManagerKeeps, PTL
=============================================================================
