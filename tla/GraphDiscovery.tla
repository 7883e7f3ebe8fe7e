---------------------------- MODULE GraphDiscovery ----------------------------
(***************************************************************************)
(* Outbound topic discovery: how ROS graph changes become, and stop being, *)
(* the subscriptions ROS Portal forwards to the room.  It composes         *)
(*                                                                         *)
(*   worker   the GraphManager thread (graph_manager.cpp, discoveryLoop):  *)
(*            waits for graph events, takes a snapshot, reconciles when    *)
(*            the topic set differs from the last applied one, and reaps   *)
(*   timer    the executor thread in RosPortal::pollConnection()           *)
(*   SDK      the room event thread, as far as RosPortal::onRoomEos() and  *)
(*            the transitions that gate room operations                    *)
(*   stopper  the thread in RosPortal::shutdown()                          *)
(*                                                                         *)
(* with the outbound half of TopicForwarder.  The room session (link) is   *)
(* the coarse view of ConnectionManager: "up" is the only state in which   *)
(* isConnected() and isOperationsEnabled() are true.  Topic types, names   *)
(* and patterns are abstracted: Topics are the configured topics.          *)
(***************************************************************************)
EXTENDS Naturals

CONSTANTS Topics,       \* topics that match outgoing_topic_patterns
          Steady,       \* external: topics whose publishers stay
          Heard,        \* external: topics another local node subscribes to
          Grace,        \* inactive_subscription_grace, in clock ticks
          MaxSessions,  \* bound: room sessions joined in a behaviour
          Faults,       \* external: what may go wrong in a behaviour
          NoSnapshot    \* a null snapshot pointer

ASSUME TopicsAssumption ==
    Heard \subseteq Topics /\ Steady \subseteq Topics /\ \A S \in SUBSET Topics : NoSnapshot # S
ASSUME BoundsAssumption == Grace \in Nat \ {0} /\ MaxSessions \in Nat
ASSUME FaultsAssumption == Faults \subseteq {"recover", "end", "create", "start", "throw"}

VARIABLES
  pubs,       \* external: topics with a publisher in the ROS graph
  notice,     \* external: a graph change rclcpp has not signalled yet
  event,      \* event_
  cache,      \* topics_
  last,       \* last_reconciled_topics_
  snap,       \* the snapshot the worker holds
  wpc,        \* what the worker does next
  stop,       \* stop_requested_
  link,       \* the room session
  session,    \* sessions joined so far
  ended,      \* room_session_ended_
  ppc,        \* what the connection timer does next
  forwarder,  \* topic_forwarder_ exists
  built,      \* session whose components are started, 0: room_components_started_ is false
  subs,       \* subscriptions_
  marked,     \* subscriptions with a publishers_absent_since
  quiet,      \* ticks since publishers_absent_since
  spc         \* what shutdown() does next

graphVars == <<pubs, notice>>
workerVars == <<event, cache, last, snap, wpc>>
roomVars == <<link, session>>
componentVars == <<forwarder, built, subs, marked, quiet>>
vars == <<graphVars, workerVars, stop, roomVars, ended, ppc, componentVars, spc>>

Snapshots == {NoSnapshot} \cup SUBSET Topics
WorkerSteps == {"query", "compare", "claim", "cleanup", "gate", "apply", "record",
                "reap", "loop", "wait", "woken", "debounce", "invalidate", "stopped"}
TimerSteps == {"idle", "cleanup", "prepare", "join", "start"}
Links == {"down", "up", "recovering", "closing", "flagged", "stopped"}

TypeOK ==
  /\ pubs \subseteq Topics
  /\ notice \in BOOLEAN
  /\ event \in BOOLEAN
  /\ cache \in Snapshots
  /\ last \in Snapshots
  /\ snap \in Snapshots
  /\ wpc \in WorkerSteps
  /\ stop \in BOOLEAN
  /\ link \in Links
  /\ session \in 0..MaxSessions
  /\ ended \in BOOLEAN
  /\ ppc \in TimerSteps
  /\ forwarder \in BOOLEAN
  /\ built \in 0..MaxSessions
  /\ subs \subseteq Topics
  /\ marked \subseteq subs
  /\ quiet \in [Topics -> 0..Grace]
  /\ spc \in {"idle", "joining", "done"}

(* initialize(): the forwarder exists and graph_manager_->start() has run *)
Init ==
  /\ pubs \in SUBSET Topics
  /\ notice = FALSE
  /\ event = FALSE
  /\ cache = NoSnapshot
  /\ last = NoSnapshot
  /\ snap = NoSnapshot
  /\ wpc = "query"
  /\ stop = FALSE
  /\ link = "down"
  /\ session = 0
  /\ ended = FALSE
  /\ ppc = "idle"
  /\ forwarder = TRUE
  /\ built = 0
  /\ subs = {}
  /\ marked = {}
  /\ quiet = [t \in Topics |-> 0]
  /\ spc = "idle"

(* get_topic_names_and_types(): topics with any endpoint, and ROS Portal's *)
(* own subscription is one.                                                *)
Graph == pubs \cup Heard \cup subs

Started == built > 0

(* stopRoomComponents(): destroying the forwarder drops its subscriptions, *)
(* and destroying the CLI services changes the graph as well.              *)
StopComponents ==
  /\ forwarder' = FALSE
  /\ built' = 0
  /\ subs' = {}
  /\ marked' = {}
  /\ quiet' = [t \in Topics |-> 0]
  /\ notice' = TRUE

-----------------------------------------------------------------------------
(* The ROS graph *)

PublisherAppears(t) ==
  /\ t \notin pubs
  /\ pubs' = pubs \cup {t}
  /\ notice' = TRUE
  /\ UNCHANGED <<workerVars, stop, roomVars, ended, ppc, componentVars, spc>>

PublisherVanishes(t) ==
  /\ t \in pubs \ Steady
  /\ pubs' = pubs \ {t}
  /\ notice' = TRUE
  /\ UNCHANGED <<workerVars, stop, roomVars, ended, ppc, componentVars, spc>>

(* rclcpp's graph listener sets the event some time after the change *)
GraphListener ==
  /\ notice
  /\ notice' = FALSE
  /\ event' = TRUE
  /\ UNCHANGED <<pubs, cache, last, snap, wpc, stop, roomVars, ended, ppc,
                 componentVars, spc>>

(* topics(), called by the SDK thread to resolve an inbound topic's type *)
ReadSnapshot ==
  /\ forwarder /\ link = "up"
  /\ cache = NoSnapshot
  /\ cache' = Graph
  /\ UNCHANGED <<graphVars, event, last, snap, wpc, stop, roomVars, ended, ppc,
                 componentVars, spc>>

-----------------------------------------------------------------------------
(* The graph worker: discoveryLoop() *)

WorkerOnly(step) ==
  /\ wpc' = step
  /\ UNCHANGED <<graphVars, stop, roomVars, ppc, spc>>

(* mutant: the event is cleared after the query, not before it *)
WorkerQueryThenClear ==
  /\ wpc = "query"
  /\ snap' = IF cache = NoSnapshot THEN Graph ELSE cache
  /\ cache' = snap'
  /\ event' = FALSE
  /\ WorkerOnly("compare")
  /\ UNCHANGED <<last, ended, componentVars>>

(* topics() *)
WorkerQuery ==
  /\ wpc = "query"
  /\ snap' = IF cache = NoSnapshot THEN Graph ELSE cache
  /\ cache' = snap'
  /\ WorkerOnly("compare")
  /\ UNCHANGED <<event, last, ended, componentVars>>

(* reconcileIfChanged(): an unchanged topic set is not reconciled again.   *)
(* The first pass skips the reap, which has nothing to do then.            *)
WorkerCompare ==
  /\ wpc = "compare"
  /\ WorkerOnly(IF last = snap THEN "reap" ELSE "claim")
  /\ UNCHANGED <<event, cache, last, snap, ended, componentVars>>

(* mutant: the exchange without the cleanup *)
WorkerClaimEndedOnly ==
  /\ wpc = "claim"
  /\ ended' = FALSE
  /\ WorkerOnly("gate")
  /\ UNCHANGED <<event, cache, last, snap, componentVars>>

(* reconcileGraphTopics() -> processEndedRoomSession(): the exchange, ... *)
WorkerClaimEnded ==
  /\ wpc = "claim"
  /\ ended' = FALSE
  /\ WorkerOnly(IF ended THEN "cleanup" ELSE "gate")
  /\ UNCHANGED <<event, cache, last, snap, componentVars>>

(* ... then, under room_components_mutex_, the cleanup *)
WorkerCleanup ==
  /\ wpc = "cleanup"
  /\ StopComponents
  /\ wpc' = "gate"
  /\ UNCHANGED <<pubs, event, cache, last, snap, stop, roomVars, ended, ppc, spc>>

(* mutant: a snapshot that was not applied is recorded *)
WorkerGateRecords ==
  /\ wpc = "gate"
  /\ WorkerOnly(IF link = "up" THEN "apply" ELSE "record")
  /\ UNCHANGED <<event, cache, last, snap, ended, componentVars>>

(* roomOperationsEnabled() *)
WorkerGate ==
  /\ wpc = "gate"
  /\ WorkerOnly(IF link = "up" THEN "apply" ELSE "reap")
  /\ UNCHANGED <<event, cache, last, snap, ended, componentVars>>

(* reconcileTopics(), under room_components_mutex_: a publisher count of   *)
(* zero starts the grace period, and every topic of the snapshot that has  *)
(* no subscription gets one, unless its creation fails.                    *)
ReconcileTopics ==
  LET absent == {t \in subs : t \notin pubs}
      fresh  == absent \ marked
  IN  /\ marked' = absent
      /\ quiet' = [t \in Topics |-> IF t \in fresh THEN 0 ELSE quiet[t]]
      /\ \E made \in SUBSET (snap \ subs) :
           /\ "create" \notin Faults => made = snap \ subs
           /\ subs' = subs \cup made
           /\ notice' = (notice \/ made # {})
      /\ UNCHANGED <<forwarder, built>>

WorkerApply ==
  /\ wpc = "apply"
  /\ IF Started
     THEN ReconcileTopics /\ wpc' = "record"
     ELSE UNCHANGED <<componentVars, notice>> /\ wpc' = "reap"
  /\ UNCHANGED <<pubs, event, cache, last, snap, stop, roomVars, ended, ppc, spc>>

(* only an applied snapshot is recorded *)
WorkerRecord ==
  /\ wpc = "record"
  /\ last' = snap
  /\ WorkerOnly("reap")
  /\ UNCHANGED <<event, cache, snap, ended, componentVars>>

(* reapExpiredSubscriptions(): the count is read again before a removal *)
WorkerReap ==
  /\ wpc = "reap"
  /\ wpc' = "loop"
  /\ LET expired == {t \in marked \ pubs : quiet[t] = Grace}
     IN  IF Started
         THEN /\ subs' = subs \ expired
              /\ marked' = (marked \ pubs) \ expired
              /\ notice' = (notice \/ expired # {})
         ELSE UNCHANGED <<subs, marked, notice>>
  /\ UNCHANGED <<pubs, event, cache, last, snap, stop, roomVars, ended, ppc,
                 forwarder, built, quiet, spc>>

(* the loop condition *)
WorkerLoop ==
  /\ wpc = "loop"
  /\ WorkerOnly(IF stop THEN "stopped" ELSE "wait")
  /\ UNCHANGED <<event, cache, last, snap, ended, componentVars>>

(* wait_for_graph_change() returns: an event, or the timeout of nextWait() *)
WorkerWakes ==
  /\ wpc = "wait"
  /\ WorkerOnly("woken")
  /\ UNCHANGED <<event, cache, last, snap, ended, componentVars>>

(* mutant: only an event, never a timeout, leads to a reap *)
WorkerIgnoresTimeout ==
  /\ wpc = "woken"
  /\ event' = (stop /\ event)
  /\ WorkerOnly(CASE stop -> "stopped" [] ~stop /\ event -> "debounce" [] OTHER -> "loop")
  /\ UNCHANGED <<cache, last, snap, ended, componentVars>>

(* a stop request, the first check_and_clear(), or neither after a timeout *)
WorkerChecksEvent ==
  /\ wpc = "woken"
  /\ event' = (stop /\ event)
  /\ WorkerOnly(CASE stop -> "stopped" [] ~stop /\ event -> "debounce" [] OTHER -> "reap")
  /\ UNCHANGED <<cache, last, snap, ended, componentVars>>

(* the second check_and_clear(), after kDebounce *)
WorkerDebounced ==
  /\ wpc = "debounce"
  /\ event' = FALSE
  /\ WorkerOnly("invalidate")
  /\ UNCHANGED <<cache, last, snap, ended, componentVars>>

(* invalidate() *)
WorkerInvalidates ==
  /\ wpc = "invalidate"
  /\ cache' = NoSnapshot
  /\ WorkerOnly("query")
  /\ UNCHANGED <<event, last, snap, ended, componentVars>>

(* the ROS context is shut down, or a graph call throws: the worker exits *)
WorkerExits ==
  /\ "throw" \in Faults
  /\ wpc \in {"query", "apply", "loop", "wait"}
  /\ WorkerOnly("stopped")
  /\ UNCHANGED <<event, cache, last, snap, ended, componentVars>>

WorkerStep ==
  \/ WorkerQuery \/ WorkerCompare \/ WorkerClaimEnded \/ WorkerCleanup
  \/ WorkerGate \/ WorkerApply \/ WorkerRecord \/ WorkerReap \/ WorkerLoop
  \/ WorkerWakes \/ WorkerChecksEvent \/ WorkerDebounced \/ WorkerInvalidates

-----------------------------------------------------------------------------
(* The connection timer: pollConnection() *)

TimerOnly(step) ==
  /\ ppc' = step
  /\ UNCHANGED <<workerVars, stop, spc, pubs>>

(* mutant: shutdown() leaves the timer running *)
TimerNeverCancelled ==
  /\ ppc = "idle"
  /\ ended' = FALSE
  /\ TimerOnly(IF ended THEN "cleanup" ELSE "prepare")
  /\ UNCHANGED <<notice, roomVars, componentVars>>

(* processEndedRoomSession(): the exchange, ... *)
TimerClaimEnded ==
  /\ ppc = "idle"
  /\ spc = "idle"
  /\ ended' = FALSE
  /\ TimerOnly(IF ended THEN "cleanup" ELSE "prepare")
  /\ UNCHANGED <<notice, roomVars, componentVars>>

(* ... then the cleanup *)
TimerCleanup ==
  /\ ppc = "cleanup"
  /\ StopComponents
  /\ TimerOnly("prepare")
  /\ UNCHANGED <<roomVars, ended>>

(* while not connected, make sure that there is a topic forwarder *)
TimerPrepare ==
  /\ ppc = "prepare"
  /\ \/ forwarder' = (forwarder \/ link # "up") /\ TimerOnly("join")
     \/ /\ ~forwarder /\ link # "up" /\ "start" \in Faults
        /\ UNCHANGED forwarder /\ TimerOnly("idle")
  /\ UNCHANGED <<notice, roomVars, ended, built, subs, marked, quiet>>

(* ConnectionManager::poll(), then isConnected() *)
TimerJoin ==
  /\ ppc = "join"
  /\ \/ /\ link = "down" /\ session < MaxSessions
        /\ link' = "up"
        /\ session' = session + 1
     \/ UNCHANGED roomVars
  /\ TimerOnly(IF link' = "up" THEN "start" ELSE "idle")
  /\ UNCHANGED <<notice, ended, componentVars>>

(* startRoomComponents(): creating the CLI services changes the ROS graph; *)
(* any failure takes every component down, the topic forwarder included    *)
TimerStart ==
  /\ ppc = "start"
  /\ \/ Started /\ UNCHANGED <<notice, componentVars>>
     \/ /\ ~Started /\ link = "up"
        /\ forwarder' = TRUE
        /\ built' = session
        /\ notice' = TRUE
        /\ UNCHANGED <<subs, marked, quiet>>
     \/ ~Started /\ (link = "up" => "start" \in Faults) /\ StopComponents
  /\ TimerOnly("idle")
  /\ UNCHANGED <<roomVars, ended>>

TimerStep ==
  TimerClaimEnded \/ TimerCleanup \/ TimerPrepare \/ TimerJoin \/ TimerStart

-----------------------------------------------------------------------------
(* The room event thread *)

LinkOnly(from, to) ==
  /\ link \in from
  /\ link' = to
  /\ UNCHANGED <<graphVars, workerVars, stop, session, ppc, componentVars, spc>>

SdkReconnecting ==
  "recover" \in Faults /\ LinkOnly({"up"}, "recovering") /\ UNCHANGED ended
SdkReconnected == LinkOnly({"recovering"}, "up") /\ UNCHANGED ended
SdkDisconnected ==
  "end" \in Faults /\ LinkOnly({"up", "recovering"}, "closing") /\ UNCHANGED ended

(* mutant: the end of the stream does not ask for a cleanup *)
EosForgetsFlag == LinkOnly({"closing"}, "flagged") /\ UNCHANGED ended

(* onRoomEos(): the flag first, then ConnectionManager::onRoomEos() *)
EosSetsFlag == LinkOnly({"closing"}, "flagged") /\ ended' = TRUE
EosPermitsJoin == LinkOnly({"flagged"}, "down") /\ UNCHANGED ended

RoomStep ==
  SdkReconnecting \/ SdkReconnected \/ SdkDisconnected \/ EosSetsFlag \/ EosPermitsJoin

-----------------------------------------------------------------------------
(* mutant: the worker is woken but not told to stop *)
ShutdownOnlyWakes ==
  /\ spc = "idle" /\ ppc = "idle"
  /\ event' = TRUE
  /\ spc' = "joining"
  /\ UNCHANGED <<graphVars, cache, last, snap, wpc, stop, roomVars, ended, ppc,
                 componentVars>>

(* shutdown(), once the executor has returned from its last callback: stop *)
(* the worker and wait for it, stop the connection manager, take the       *)
(* components down.                                                        *)
ShutdownStopsGraph ==
  /\ spc = "idle" /\ ppc = "idle"
  /\ stop' = TRUE
  /\ event' = TRUE
  /\ spc' = "joining"
  /\ UNCHANGED <<graphVars, cache, last, snap, wpc, roomVars, ended, ppc, componentVars>>

ShutdownFinishes ==
  /\ spc = "joining" /\ wpc = "stopped"
  /\ link' = "stopped"
  /\ StopComponents
  /\ spc' = "done"
  /\ UNCHANGED <<pubs, workerVars, stop, session, ended, ppc>>

(* a grace period runs *)
Tick ==
  /\ \E t \in marked : quiet[t] < Grace
  /\ quiet' = [t \in Topics |-> IF t \in marked /\ quiet[t] < Grace
                                THEN quiet[t] + 1 ELSE quiet[t]]
  /\ UNCHANGED <<graphVars, workerVars, stop, roomVars, ended, ppc, forwarder,
                 built, subs, marked, spc>>

Terminated == spc = "done" /\ UNCHANGED vars

Next ==
  \/ \E t \in Topics : PublisherAppears(t) \/ PublisherVanishes(t)
  \/ GraphListener
  \/ ReadSnapshot
  \/ WorkerStep
  \/ WorkerExits
  \/ TimerStep
  \/ RoomStep
  \/ ShutdownStopsGraph
  \/ ShutdownFinishes
  \/ Tick
  \/ Terminated

Spec == Init /\ [][Next]_vars

(* The worker and the timer run on, a timeout ends every wait, rclcpp      *)
(* signals every change, grace periods run, a join and a start of the      *)
(* components that are tried again and again succeed, the SDK resolves a   *)
(* reconnect and finishes an ended stream.  Nothing obliges publishers to  *)
(* come or go, sessions to end, or anybody to shut down.                   *)
Fairness ==
  /\ WF_vars(WorkerStep)
  /\ WF_vars(TimerStep)
  /\ SF_vars(TimerJoin /\ link' = "up")
  /\ SF_vars(TimerStart /\ Started')
  /\ WF_vars(GraphListener)
  /\ WF_vars(SdkReconnected)
  /\ WF_vars(EosSetsFlag)
  /\ WF_vars(EosPermitsJoin)
  /\ WF_vars(ShutdownFinishes)
  /\ WF_vars(Tick)

FairSpec == Spec /\ Fairness

-----------------------------------------------------------------------------
(* The worker never sleeps on a stale snapshot: when it waits and neither  *)
(* an event nor a notification is due, the snapshot that other threads     *)
(* read through topics() is the current graph.                             *)
SleepsOnFreshSnapshot ==
  wpc = "wait" /\ ~event /\ ~notice => cache \in {NoSnapshot, Graph}

(* After shutdown() nothing holds a subscription or a forwarder: no worker *)
(* or event that was under way brings the components back.                 *)
ShutdownIsFinal ==
  spc = "done" => ~forwarder /\ ~Started /\ subs = {}

(* A session's components are not used in the next session for good: while *)
(* components outlive their session, somebody has still to take them down. *)
OldComponentsAreDoomed ==
  Started /\ built # session => ended \/ wpc = "cleanup" \/ ppc = "cleanup"

(* Cleanup of an ended session precedes the next join (ros_portal.hpp,     *)
(* line 344: "so ROS-thread cleanup precedes reconnect").                  *)
CleanupPrecedesJoin == [][session' # session => ~Started]_vars

(* A session that stays up ends with its own components started, whatever  *)
(* the cleanup of earlier sessions was doing when it was joined.           *)
ComponentsFollowSession ==
  <>[](link = "up" /\ spc = "idle") => <>[](built = session)

(* A configured topic whose publisher stays while the components of the    *)
(* first session are started is subscribed at some time.  In a later       *)
(* session it may not be (ForwardsPublishers).                             *)
DiscoversTopics ==
  \A t \in Topics : <>[](t \in pubs /\ Started /\ session = 1) => <>(t \in subs)

(* A grace period that has begun ends: the worker, which sleeps until the  *)
(* earliest deadline, removes the subscription or sees the publisher.      *)
GracePeriodsEnd ==
  \A t \in Topics : t \in marked ~> t \notin marked \/ spc # "idle"

(* shutdown() does not wait for the worker forever. *)
ShutdownEnds == spc = "joining" ~> spc = "done"

(* A publisher of a configured topic is forwarded while the session is up  *)
(* (architecture.md, lines 52-56).                                         *)
Forwardable(t) == t \in pubs /\ link = "up" /\ Started /\ spc = "idle"
ForwardsPublishers ==
  \A t \in Topics : Forwardable(t) ~> t \in subs \/ ~Forwardable(t)

(* A subscription whose publishers stay absent is removed                  *)
(* (architecture.md, lines 54-55).                                         *)
AbsentAreRemoved ==
  \A t \in Topics : t \in subs \ pubs ~> t \notin subs \/ t \in pubs \/ spc # "idle"
==============================================================================
