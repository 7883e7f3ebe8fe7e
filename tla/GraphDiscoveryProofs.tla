------------------------- MODULE GraphDiscoveryProofs -------------------------
(***************************************************************************)
(* Machine-checked theorems about GraphDiscovery, for every set of topics, *)
(* number of sessions, grace period and choice of faults.                  *)
(***************************************************************************)
EXTENDS GraphDiscovery, TLAPS

(* A cached snapshot that is not the graph is about to be dropped.         *)
SnapshotInv ==
  cache \notin {NoSnapshot, Graph}
    => notice \/ event \/ wpc \in {"debounce", "invalidate"}

(* Components of a session that is over, or that RoomEos has reported, are *)
(* about to be taken down: the flag is set, or one of the two threads that *)
(* may have taken it has its cleanup still to do.                          *)
DoomedInv ==
  Started /\ (built # session \/ link \in {"flagged", "down"})
    => ended \/ wpc = "cleanup" \/ ppc = "cleanup"

(* shutdown() runs when the timer is over, and ends when the worker is.    *)
ShutdownInv ==
  /\ spc # "idle" => ppc = "idle"
  /\ spc = "done" => wpc = "stopped" /\ link = "stopped"
  /\ ShutdownIsFinal

(* A snapshot that is compared, applied or recorded is not null.           *)
HeldSnapshotInv ==
  wpc \in {"compare", "claim", "cleanup", "gate", "apply", "record"} => snap # NoSnapshot

IInv == TypeOK /\ HeldSnapshotInv /\ SnapshotInv /\ DoomedInv /\ ShutdownInv

-----------------------------------------------------------------------------
(* stopRoomComponents() leaves nothing subscribed and announces a change.  *)
LEMMA StoppedComponents ==
  ASSUME StopComponents
  PROVE  /\ forwarder' = FALSE /\ built' = 0 /\ subs' = {} /\ marked' = {} /\ notice' = TRUE
         /\ built' \in 0..MaxSessions /\ quiet' \in [Topics -> 0..Grace]
BY BoundsAssumption DEF StopComponents

(* Every step of the worker keeps the strengthened invariant.              *)
LEMMA WorkerKeepsIInv == ASSUME IInv, WorkerStep \/ WorkerExits PROVE IInv'
<1> USE DEF IInv
<1> USE BoundsAssumption DEF Snapshots, WorkerSteps, TimerSteps, Links, Started
<1>1. CASE WorkerQuery
  <2>1. Graph \in SUBSET Topics /\ NoSnapshot # Graph
    BY TopicsAssumption DEF TypeOK, Graph
  <2>2. /\ snap' \in Snapshots /\ snap' # NoSnapshot /\ cache' = snap'
        /\ cache' \in {cache, Graph} /\ (cache = NoSnapshot => cache' = Graph)
        /\ wpc' = "compare" /\ wpc = "query"
        /\ UNCHANGED <<graphVars, stop, roomVars, ppc, spc, event, last, ended,
                       componentVars>>
    BY <1>1, <2>1 DEF WorkerQuery, WorkerOnly, TypeOK
  <2>3. TypeOK'
    BY <2>2 DEF TypeOK, graphVars, roomVars, componentVars
  <2>4. (HeldSnapshotInv /\ SnapshotInv /\ DoomedInv /\ ShutdownInv)'
    BY <2>2 DEF HeldSnapshotInv, SnapshotInv, DoomedInv, ShutdownInv, ShutdownIsFinal,
                Graph, graphVars, roomVars, componentVars
  <2> QED  BY <2>3, <2>4
<1>2. CASE WorkerCompare \/ WorkerGate \/ WorkerLoop \/ WorkerWakes \/ WorkerExits
           \/ WorkerRecord
  <2>1. /\ wpc \notin {"cleanup", "debounce", "invalidate", "stopped"}
        /\ wpc' \in WorkerSteps \ {"debounce", "invalidate"}
        /\ wpc' \in {"compare", "claim", "cleanup", "gate", "apply", "record"}
             => snap # NoSnapshot
        /\ UNCHANGED <<graphVars, stop, roomVars, ppc, spc, event, cache, snap, ended,
                       componentVars>>
        /\ last' \in Snapshots
    BY <1>2 DEF WorkerCompare, WorkerGate, WorkerLoop, WorkerWakes, WorkerExits,
                WorkerRecord, WorkerOnly, TypeOK, HeldSnapshotInv
  <2>2. TypeOK'
    BY <2>1 DEF TypeOK, graphVars, roomVars, componentVars
  <2>3. (HeldSnapshotInv /\ SnapshotInv /\ DoomedInv /\ ShutdownInv)'
    BY <2>1 DEF HeldSnapshotInv, SnapshotInv, DoomedInv, ShutdownInv, ShutdownIsFinal,
                Graph, graphVars, roomVars, componentVars
  <2> QED  BY <2>2, <2>3
<1>3. CASE WorkerClaimEnded
  <2>1. TypeOK'
    <3>1. /\ ended' \in BOOLEAN /\ wpc' \in WorkerSteps
          /\ UNCHANGED <<graphVars, stop, roomVars, ppc, spc, event, cache, last, snap,
                         componentVars>>
      BY <1>3 DEF WorkerClaimEnded, WorkerOnly
    <3> QED  BY <3>1 DEF TypeOK, graphVars, roomVars, componentVars
  <2>2. (HeldSnapshotInv /\ SnapshotInv /\ DoomedInv /\ ShutdownInv)'
    BY <1>3 DEF WorkerClaimEnded, WorkerOnly, HeldSnapshotInv, SnapshotInv, DoomedInv,
                ShutdownInv, ShutdownIsFinal, Graph, graphVars, roomVars, componentVars
  <2> QED  BY <2>1, <2>2
<1>4. CASE WorkerCleanup
  <2>1. TypeOK'
    <3>1. /\ StopComponents /\ wpc' = "gate"
          /\ UNCHANGED <<pubs, event, cache, last, snap, stop, roomVars, ended, ppc, spc>>
      BY <1>4 DEF WorkerCleanup
    <3> QED  BY <3>1, StoppedComponents DEF TypeOK, roomVars
  <2>2. (HeldSnapshotInv /\ SnapshotInv /\ DoomedInv /\ ShutdownInv)'
    BY <1>4 DEF WorkerCleanup, StopComponents, HeldSnapshotInv, SnapshotInv, DoomedInv,
                ShutdownInv, ShutdownIsFinal
  <2> QED  BY <2>1, <2>2
<1>5. CASE WorkerApply
  <2>1. /\ wpc = "apply" /\ wpc' \in {"record", "reap"} /\ snap # NoSnapshot
        /\ UNCHANGED <<pubs, event, cache, last, snap, stop, roomVars, ended, ppc, spc,
                       forwarder, built>>
    BY <1>5 DEF WorkerApply, ReconcileTopics, componentVars, HeldSnapshotInv
  <2>2. /\ subs' \subseteq Topics /\ marked' \subseteq subs'
        /\ quiet' \in [Topics -> 0..Grace] /\ notice' \in BOOLEAN
        /\ notice => notice'
        /\ subs' # subs => notice' /\ Started
    <3>1. CASE Started /\ ReconcileTopics
      <4>1. PICK made \in SUBSET (snap \ subs) :
                   subs' = subs \cup made /\ notice' = (notice \/ made # {})
        BY <3>1 DEF ReconcileTopics
      <4>2. snap \ subs \subseteq Topics
        BY <2>1 DEF TypeOK
      <4>3. marked' \subseteq subs /\ quiet' \in [Topics -> 0..Grace]
        BY <3>1 DEF ReconcileTopics, TypeOK
      <4> QED  BY <3>1, <4>1, <4>2, <4>3 DEF TypeOK
    <3>2. CASE UNCHANGED <<componentVars, notice>>
      BY <3>2 DEF componentVars, TypeOK
    <3> QED  BY <1>5, <3>1, <3>2 DEF WorkerApply
  <2>3. TypeOK'
    BY <2>1, <2>2 DEF TypeOK, roomVars
  <2>4. (HeldSnapshotInv /\ SnapshotInv /\ DoomedInv /\ ShutdownInv)'
    BY <2>1, <2>2 DEF HeldSnapshotInv, SnapshotInv, DoomedInv, ShutdownInv,
                      ShutdownIsFinal, Graph, roomVars
  <2> QED  BY <2>3, <2>4
<1>6. CASE WorkerReap
  <2>1. /\ wpc = "reap" /\ wpc' = "loop"
        /\ UNCHANGED <<pubs, event, cache, last, snap, stop, roomVars, ended, ppc, spc,
                       forwarder, built, quiet>>
        /\ subs' \subseteq subs /\ marked' \subseteq subs'
        /\ notice' \in BOOLEAN /\ (notice => notice')
        /\ subs' # subs => notice'
    BY <1>6 DEF WorkerReap, TypeOK
  <2>2. TypeOK'
    BY <2>1 DEF TypeOK, roomVars
  <2>3. (HeldSnapshotInv /\ SnapshotInv /\ DoomedInv /\ ShutdownInv)'
    BY <2>1 DEF HeldSnapshotInv, SnapshotInv, DoomedInv, ShutdownInv, ShutdownIsFinal,
                Graph, roomVars
  <2> QED  BY <2>2, <2>3
<1>7. CASE WorkerChecksEvent \/ WorkerDebounced \/ WorkerInvalidates
  <2>1. /\ wpc \in {"woken", "debounce", "invalidate"}
        /\ wpc' \in {"stopped", "debounce", "reap", "invalidate", "query"}
        /\ UNCHANGED <<graphVars, stop, roomVars, ppc, spc, last, snap, ended,
                       componentVars>>
        /\ event' \in BOOLEAN /\ cache' \in {cache, NoSnapshot}
        /\ \/ cache' = NoSnapshot
           \/ event' = event /\ wpc \notin {"debounce", "invalidate"}
           \/ wpc' \in {"debounce", "invalidate"}
    BY <1>7 DEF WorkerChecksEvent, WorkerDebounced, WorkerInvalidates, WorkerOnly, TypeOK
  <2>2. TypeOK'
    BY <2>1 DEF TypeOK, graphVars, roomVars, componentVars
  <2>3. (HeldSnapshotInv /\ SnapshotInv /\ DoomedInv /\ ShutdownInv)'
    BY <2>1 DEF HeldSnapshotInv, SnapshotInv, DoomedInv, ShutdownInv, ShutdownIsFinal,
                Graph, graphVars, roomVars, componentVars
  <2> QED  BY <2>2, <2>3
<1> QED
  BY <1>1, <1>2, <1>3, <1>4, <1>5, <1>6, <1>7 DEF WorkerStep

(* ... and so does every other step: the graph, the timer, the room event  *)
(* thread, shutdown() and the clock.                                       *)
LEMMA OthersKeepIInv ==
  ASSUME IInv, [Next]_vars, ~(WorkerStep \/ WorkerExits) PROVE IInv'
<1> USE DEF IInv
<1> USE BoundsAssumption DEF Snapshots, WorkerSteps, TimerSteps, Links, Started
<1>1. ASSUME NEW t \in Topics, PublisherAppears(t) \/ PublisherVanishes(t) PROVE IInv'
  <2>1. /\ pubs' \subseteq Topics /\ notice' = TRUE
        /\ UNCHANGED <<workerVars, stop, roomVars, ended, ppc, componentVars, spc>>
    BY <1>1 DEF PublisherAppears, PublisherVanishes, TypeOK
  <2>2. TypeOK'
    BY <2>1 DEF TypeOK, workerVars, roomVars, componentVars
  <2>3. (HeldSnapshotInv /\ SnapshotInv /\ DoomedInv /\ ShutdownInv)'
    BY <2>1 DEF HeldSnapshotInv, SnapshotInv, DoomedInv, ShutdownInv, ShutdownIsFinal,
                workerVars, roomVars, componentVars
  <2> QED  BY <2>2, <2>3
<1>2. CASE GraphListener \/ ReadSnapshot
  <2>1. Graph \in SUBSET Topics
    BY TopicsAssumption DEF TypeOK, Graph
  <2>2. /\ UNCHANGED <<pubs, last, snap, wpc, stop, roomVars, ended, ppc, componentVars,
                       spc>>
        /\ cache' \in {cache, Graph} /\ event' \in BOOLEAN /\ notice' \in BOOLEAN
        /\ (notice \/ event) => (notice' \/ event')
    BY <1>2 DEF GraphListener, ReadSnapshot, graphVars, TypeOK
  <2>3. TypeOK'
    BY <2>1, <2>2 DEF TypeOK, roomVars, componentVars
  <2>4. (HeldSnapshotInv /\ SnapshotInv /\ DoomedInv /\ ShutdownInv)'
    BY <2>2 DEF HeldSnapshotInv, SnapshotInv, DoomedInv, ShutdownInv, ShutdownIsFinal,
                Graph, roomVars, componentVars
  <2> QED  BY <2>3, <2>4
<1>3. CASE TimerClaimEnded
  <2>1. TypeOK'
    <3>1. /\ ended' \in BOOLEAN /\ ppc' \in TimerSteps
          /\ UNCHANGED <<workerVars, stop, spc, pubs, notice, roomVars, componentVars>>
      BY <1>3 DEF TimerClaimEnded, TimerOnly
    <3> QED  BY <3>1 DEF TypeOK, workerVars, roomVars, componentVars
  <2>2. (HeldSnapshotInv /\ SnapshotInv /\ DoomedInv /\ ShutdownInv)'
    BY <1>3 DEF TimerClaimEnded, TimerOnly, HeldSnapshotInv, SnapshotInv, DoomedInv,
                ShutdownInv, ShutdownIsFinal, Graph, workerVars, roomVars, componentVars
  <2> QED  BY <2>1, <2>2
<1>4. CASE TimerCleanup
  <2>1. TypeOK'
    <3>1. /\ StopComponents /\ ppc' = "prepare"
          /\ UNCHANGED <<workerVars, stop, spc, pubs, roomVars, ended>>
      BY <1>4 DEF TimerCleanup, TimerOnly
    <3> QED  BY <3>1, StoppedComponents DEF TypeOK, workerVars, roomVars
  <2>2. (HeldSnapshotInv /\ SnapshotInv /\ DoomedInv /\ ShutdownInv)'
    BY <1>4 DEF TimerCleanup, TimerOnly, StopComponents, HeldSnapshotInv, SnapshotInv,
                DoomedInv, ShutdownInv, ShutdownIsFinal, workerVars
  <2> QED  BY <2>1, <2>2
<1>5. CASE TimerPrepare
  <2>1. TypeOK'
    <3>1. /\ forwarder' \in BOOLEAN /\ ppc' \in TimerSteps
          /\ UNCHANGED <<workerVars, stop, spc, pubs, notice, roomVars, ended, built, subs,
                         marked, quiet>>
      BY <1>5 DEF TypeOK, TimerPrepare, TimerOnly
    <3> QED  BY <3>1 DEF TypeOK, workerVars, roomVars
  <2>2. (HeldSnapshotInv /\ SnapshotInv /\ DoomedInv /\ ShutdownInv)'
    BY <1>5 DEF TimerPrepare, TimerOnly, HeldSnapshotInv, SnapshotInv, DoomedInv,
                ShutdownInv, ShutdownIsFinal, Graph, workerVars, roomVars
  <2> QED  BY <2>1, <2>2
<1>6. CASE TimerJoin
  <2>1. TypeOK'
    BY <1>6 DEF TypeOK, TimerJoin, TimerOnly, workerVars, roomVars, componentVars
  <2>2. (HeldSnapshotInv /\ SnapshotInv /\ DoomedInv /\ ShutdownInv)'
    BY <1>6 DEF TimerJoin, TimerOnly, HeldSnapshotInv, SnapshotInv, DoomedInv,
                ShutdownInv, ShutdownIsFinal, Graph, workerVars, roomVars, componentVars
  <2> QED  BY <2>1, <2>2
<1>7. CASE TimerStart
  <2>1. TypeOK'
    <3>1. /\ ppc' = "idle"
          /\ UNCHANGED <<workerVars, stop, spc, pubs, roomVars, ended>>
      BY <1>7 DEF TimerStart, TimerOnly
    <3>2. /\ forwarder' \in BOOLEAN /\ built' \in 0..MaxSessions /\ notice' \in BOOLEAN
          /\ subs' \subseteq Topics /\ marked' \subseteq subs'
          /\ quiet' \in [Topics -> 0..Grace]
      <4>1. CASE UNCHANGED <<notice, componentVars>>
        BY <4>1 DEF TypeOK, componentVars
      <4>2. CASE forwarder' = TRUE /\ built' = session /\ notice' = TRUE
                 /\ UNCHANGED <<subs, marked, quiet>>
        BY <4>2 DEF TypeOK
      <4>3. CASE StopComponents
        BY <4>3, StoppedComponents
      <4> QED  BY <1>7, <4>1, <4>2, <4>3 DEF TimerStart
    <3> QED  BY <3>1, <3>2 DEF TypeOK, workerVars, roomVars
  <2>2. (HeldSnapshotInv /\ SnapshotInv /\ DoomedInv /\ ShutdownInv)'
    BY <1>7 DEF TimerStart, TimerOnly, StopComponents, HeldSnapshotInv, SnapshotInv,
                DoomedInv, ShutdownInv, ShutdownIsFinal, Graph, workerVars, roomVars,
                componentVars
  <2> QED  BY <2>1, <2>2
<1>8. CASE RoomStep
  <2>1. /\ UNCHANGED <<graphVars, workerVars, stop, session, ppc, componentVars, spc>>
        /\ link' \in Links /\ link # "stopped" /\ ended' \in BOOLEAN /\ (ended => ended')
        /\ link' = "flagged" => ended'
        /\ link' = "down" => link = "flagged"
    BY <1>8 DEF RoomStep, SdkReconnecting, SdkReconnected, SdkDisconnected, EosSetsFlag,
                EosPermitsJoin, LinkOnly, TypeOK
  <2>2. TypeOK'
    BY <2>1 DEF TypeOK, graphVars, workerVars, componentVars
  <2>3. (HeldSnapshotInv /\ SnapshotInv /\ DoomedInv /\ ShutdownInv)'
    BY <2>1 DEF HeldSnapshotInv, SnapshotInv, DoomedInv, ShutdownInv, ShutdownIsFinal,
                Graph, graphVars, workerVars, componentVars
  <2> QED  BY <2>2, <2>3
<1>9. CASE ShutdownStopsGraph
  <2>1. TypeOK'
    BY <1>9 DEF TypeOK, ShutdownStopsGraph, graphVars, roomVars, componentVars
  <2>2. (HeldSnapshotInv /\ SnapshotInv /\ DoomedInv /\ ShutdownInv)'
    BY <1>9 DEF ShutdownStopsGraph, HeldSnapshotInv, SnapshotInv, DoomedInv, ShutdownInv,
                ShutdownIsFinal, graphVars, roomVars, componentVars
  <2> QED  BY <2>1, <2>2
<1>10. CASE ShutdownFinishes
  <2>1. TypeOK'
    <3>1. /\ StopComponents /\ link' = "stopped" /\ spc' = "done"
          /\ UNCHANGED <<pubs, workerVars, stop, session, ended, ppc>>
      BY <1>10 DEF ShutdownFinishes
    <3> QED  BY <3>1, StoppedComponents DEF TypeOK, workerVars
  <2>2. (HeldSnapshotInv /\ SnapshotInv /\ DoomedInv /\ ShutdownInv)'
    BY <1>10 DEF ShutdownFinishes, StopComponents, HeldSnapshotInv, SnapshotInv, DoomedInv,
                 ShutdownInv, ShutdownIsFinal, workerVars
  <2> QED  BY <2>1, <2>2
<1>11. CASE Tick
  <2>1. quiet' \in [Topics -> 0..Grace]
    BY <1>11 DEF Tick, TypeOK
  <2>2. TypeOK'
    BY <1>11, <2>1 DEF TypeOK, Tick, graphVars, workerVars, roomVars
  <2>3. (HeldSnapshotInv /\ SnapshotInv /\ DoomedInv /\ ShutdownInv)'
    BY <1>11 DEF Tick, HeldSnapshotInv, SnapshotInv, DoomedInv, ShutdownInv,
                 ShutdownIsFinal, Graph, graphVars, workerVars, roomVars
  <2> QED  BY <2>2, <2>3
<1>12. CASE UNCHANGED vars
  <2>1. TypeOK'
    BY <1>12 DEF TypeOK, vars, graphVars, workerVars, roomVars, componentVars
  <2>2. (HeldSnapshotInv /\ SnapshotInv /\ DoomedInv /\ ShutdownInv)'
    BY <1>12 DEF vars, HeldSnapshotInv, SnapshotInv, DoomedInv, ShutdownInv,
                 ShutdownIsFinal, Graph, graphVars, workerVars, roomVars, componentVars
  <2> QED  BY <2>1, <2>2
<1> QED
  BY <1>1, <1>2, <1>3, <1>4, <1>5, <1>6, <1>7, <1>8, <1>9, <1>10, <1>11, <1>12
     DEF Next, TimerStep, Terminated

(* The strengthened invariant holds in every reachable state.              *)
LEMMA Invariance == Spec => []IInv
<1>1. Init => IInv
  <2> SUFFICES ASSUME Init PROVE IInv
    OBVIOUS
  <2>1. TypeOK
    <3>1. quiet \in [Topics -> 0..Grace] /\ built \in 0..MaxSessions /\ session \in 0..MaxSessions
      BY BoundsAssumption DEF Init
    <3>2. pubs \subseteq Topics /\ subs \subseteq Topics /\ marked \subseteq subs
      BY DEF Init
    <3> QED
      BY <3>1, <3>2 DEF Init, TypeOK, Snapshots, WorkerSteps, TimerSteps, Links
  <2>2. HeldSnapshotInv /\ SnapshotInv /\ DoomedInv /\ ShutdownInv
    BY DEF Init, HeldSnapshotInv, SnapshotInv, DoomedInv, ShutdownInv, ShutdownIsFinal,
           Started
  <2> QED  BY <2>1, <2>2 DEF IInv
<1>2. IInv /\ [Next]_vars => IInv'
  BY WorkerKeepsIInv, OthersKeepIInv
<1> QED  BY <1>1, <1>2, PTL DEF Spec

-----------------------------------------------------------------------------
(* Every variable of GraphDiscovery keeps its type; in particular a mark   *)
(* of absence never outlives its subscription.                             *)
THEOREM TypeCorrect == Spec => []TypeOK
<1>1. IInv => TypeOK
  BY DEF IInv
<1> QED  BY <1>1, Invariance, PTL

(* The graph worker never sleeps while the snapshot that other threads     *)
(* read is out of date and nothing is on its way to wake it.               *)
THEOREM SleepsFresh == Spec => []SleepsOnFreshSnapshot
<1>1. IInv => SleepsOnFreshSnapshot
  BY DEF IInv, SnapshotInv, SleepsOnFreshSnapshot
<1> QED  BY <1>1, Invariance, PTL

(* shutdown() is final: no step of the worker, the timer or the SDK that   *)
(* was under way brings components back.                                   *)
THEOREM FinalShutdown == Spec => []ShutdownIsFinal
<1>1. IInv => ShutdownIsFinal
  BY DEF IInv, ShutdownInv
<1> QED  BY <1>1, Invariance, PTL

(* Components that outlive their session are always about to be taken      *)
(* down, although two threads race for room_session_ended_ and a third     *)
(* may join the next session in between.                                   *)
THEOREM OldComponentsGo == Spec => []OldComponentsAreDoomed
<1>1. IInv => OldComponentsAreDoomed
  BY DEF IInv, DoomedInv, OldComponentsAreDoomed
<1> QED  BY <1>1, Invariance, PTL
==============================================================================
