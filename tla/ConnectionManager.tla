-------------------------- MODULE ConnectionManager --------------------------
(***************************************************************************)
(* The room connection state machine and session-readiness barrier of      *)
(* connection_manager.cpp, as the threads that share it run it:            *)
(*                                                                         *)
(*   Pollers       executor threads inside the one-second connection timer *)
(*                 (the callback group is reentrant: several may overlap)  *)
(*   EventThread   the SDK thread that delivers room lifecycle events      *)
(*   TrackThreads  threads that deliver track events and block in          *)
(*                 waitForOperations(); { EventThread } when the SDK       *)
(*                 delivers all room events on one thread                  *)
(*   Shutdown      the thread that runs RosPortal::shutdown()              *)
(*                                                                         *)
(* Every access to the atomic state_ and every critical section of         *)
(* session_mutex_ is one action; a thread's pc says what it does next.     *)
(* The SDK's room (variable room) is external: it is modelled from the     *)
(* events the code handles and from the call it makes in try_connect.      *)
(***************************************************************************)
EXTENDS Naturals

CONSTANTS Pollers, EventThread, TrackThreads, Shutdown,
          RetryInterval,       \* kRetryInterval, in clock ticks
          EosAfterDisconnect   \* the SDK ends a stream only after Disconnected

ASSUME ThreadsAssumption ==
    /\ EventThread \notin Pollers
    /\ Shutdown \notin Pollers \cup TrackThreads \cup {EventThread}
    /\ Pollers \cap TrackThreads = {}

ASSUME TimingAssumption == RetryInterval \in Nat \ {0}

ASSUME SdkAssumption == EosAfterDisconnect \in BOOLEAN

Threads == Pollers \cup TrackThreads \cup {EventThread, Shutdown}

VARIABLES
  state,     \* state_
  ops,       \* operations_enabled_
  closed,    \* session_closed_
  cooldown,  \* ticks until next_attempt_at_
  age,       \* ticks since a poller read the clock it compared with next_attempt_at_
  health,    \* connection_diagnostics_' state kind
  room,      \* external: the SDK's room session
  pc,        \* what each thread does next
  stale      \* track threads whose session was closed while they waited

vars == <<state, ops, closed, cooldown, age, health, room, pc, stale>>

States == {"Disconnected", "Connecting", "Connected", "Reconnecting",
           "WaitingForRoomEos", "Stopped"}
Rooms == {"none", "joining", "up", "recovering", "ended"}
Healths == {"connected", "reconnecting", "disconnected"}

(* Where a thread goes after closeSession() has released session_mutex_,   *)
(* and after the notify_all() that follows it.                             *)
AfterClose == [failClose |-> "failNotify",  \* try_connect failed
               lateClose |-> "lateNotify",  \* joined, but the state moved on
               lossClose |-> "lossNotify",  \* Disconnected or RoomEos
               stopClose |-> "stopNotify"]  \* stop()

(* mutant: the health diagnostic is not told that operations are enabled *)
AfterNotifySilentHealth ==
  [failNotify |-> "failSettle", lateNotify |-> "idle",
   lossNotify |-> "markDisconnected", stopNotify |-> "stopped", openNotify |-> "idle"]

AfterNotify == [failNotify |-> "failSettle",
                lateNotify |-> "idle",
                lossNotify |-> "markDisconnected",
                stopNotify |-> "stopped",
                openNotify |-> "markConnected"]

Steps == {"idle", "checked", "claimed", "connecting", "joined", "failSettle",
          "enable", "disable", "markConnected", "markReconnecting",
          "markDisconnected", "wait", "asleep", "admitted", "dropped", "stopped"}
         \cup DOMAIN AfterClose \cup DOMAIN AfterNotify

TypeOK ==
  /\ state \in States
  /\ ops \in BOOLEAN
  /\ closed \in BOOLEAN
  /\ cooldown \in 0..RetryInterval
  /\ age \in [Pollers -> 0..RetryInterval]
  /\ health \in Healths
  /\ room \in Rooms
  /\ pc \in [Threads -> Steps]
  /\ stale \subseteq TrackThreads

Init ==
  /\ state = "Disconnected"
  /\ ops = FALSE
  /\ closed = TRUE
  /\ cooldown = 0
  /\ age = [p \in Pollers |-> 0]
  /\ health = "disconnected"
  /\ room = "none"
  /\ pc = [t \in Threads |-> "idle"]
  /\ stale = {}

Goto(t, step) == pc' = [pc EXCEPT ![t] = step]

barrier == <<ops, closed, stale>>
clock == <<cooldown, age>>

-----------------------------------------------------------------------------
(* The barrier: critical sections of session_mutex_ and the notifications. *)

(* mutant: enableOperations() without its notify_all() *)
EnableOperationsSilently(t) ==
  /\ pc[t] = "enable"
  /\ ops' = TRUE
  /\ closed' = FALSE
  /\ Goto(t, "markConnected")
  /\ UNCHANGED <<state, clock, health, room, stale>>

(* enableOperations(), up to the release of the lock *)
EnableOperations(t) ==
  /\ pc[t] = "enable"
  /\ ops' = TRUE
  /\ closed' = FALSE
  /\ Goto(t, "openNotify")
  /\ UNCHANGED <<state, clock, health, room, stale>>

(* disableOperations(): no notification, the session stays open *)
DisableOperations(t) ==
  /\ pc[t] = "disable"
  /\ ops' = FALSE
  /\ closed' = FALSE
  /\ Goto(t, "markReconnecting")
  /\ UNCHANGED <<state, clock, health, room, stale>>

Waiting == {w \in TrackThreads : pc[w] \in {"wait", "asleep"}}

(* mutant: closeSession() without its notify_all() *)
CloseSessionSilently(t) ==
  /\ pc[t] \in DOMAIN AfterClose
  /\ ops' = FALSE
  /\ closed' = TRUE
  /\ stale' = stale \cup Waiting
  /\ Goto(t, AfterNotify[AfterClose[pc[t]]])
  /\ UNCHANGED <<state, clock, health, room>>

(* closeSession(), up to the release of the lock *)
CloseSession(t) ==
  /\ pc[t] \in DOMAIN AfterClose
  /\ ops' = FALSE
  /\ closed' = TRUE
  /\ stale' = stale \cup Waiting
  /\ Goto(t, AfterClose[pc[t]])
  /\ UNCHANGED <<state, clock, health, room>>

(* session_cv_.notify_all(): every sleeper tests its predicate again *)
NotifyAll(t) ==
  /\ pc[t] \in DOMAIN AfterNotify
  /\ pc' = [u \in Threads |-> IF u = t THEN AfterNotify[pc[t]]
                              ELSE IF pc[u] = "asleep" THEN "wait" ELSE pc[u]]
  /\ UNCHANGED <<state, barrier, clock, health, room>>

(* waitForOperations(): test the predicate under the lock, return or sleep *)
WaitForOperations(w) ==
  /\ pc[w] = "wait"
  /\ \/ ops /\ Goto(w, "admitted")
     \/ ~ops /\ closed /\ Goto(w, "dropped")
     \/ ~ops /\ ~closed /\ Goto(w, "asleep")
  /\ UNCHANGED <<state, barrier, clock, health, room>>

(* a condition variable may wake a sleeper without a notification *)
SpuriousWakeup(w) ==
  /\ pc[w] = "asleep"
  /\ Goto(w, "wait")
  /\ UNCHANGED <<state, barrier, clock, health, room>>

-----------------------------------------------------------------------------
(* poll(), run by the connection timer                                     *)

(* the early returns: state_ is Disconnected and the retry time has come *)
PollCheck(p) ==
  /\ pc[p] = "idle"
  /\ state = "Disconnected"
  /\ cooldown = 0
  /\ age' = [age EXCEPT ![p] = 0]
  /\ Goto(p, "checked")
  /\ UNCHANGED <<state, barrier, cooldown, health, room>>

(* compare_exchange Disconnected -> Connecting, then next_attempt_at_ *)
PollClaim(p) ==
  /\ pc[p] = "checked"
  /\ IF state = "Disconnected"
     THEN /\ state' = "Connecting"
          /\ cooldown' = RetryInterval - age[p]
          /\ Goto(p, "claimed")
     ELSE /\ Goto(p, "idle")
          /\ UNCHANGED <<state, cooldown>>
  /\ age' = [age EXCEPT ![p] = 0]
  /\ UNCHANGED <<barrier, health, room>>

(* beginSessionAttempt(), then the call of try_connect() *)
BeginSessionAttempt(p) ==
  /\ pc[p] = "claimed"
  /\ ops' = FALSE
  /\ closed' = FALSE
  /\ room' = "joining"
  /\ Goto(p, "connecting")
  /\ UNCHANGED <<state, clock, health, stale>>

(* the SDK joins the room; try_connect() has not returned yet *)
SdkJoin(p) ==
  /\ pc[p] = "connecting"
  /\ room = "joining"
  /\ room' = "up"
  /\ Goto(p, "joined")
  /\ UNCHANGED <<state, barrier, clock, health>>

(* mutant: a failed attempt leaves the session open *)
TryConnectFailsOpen(p) ==
  /\ pc[p] = "connecting"
  /\ room' = IF room = "joining" THEN "none" ELSE room
  /\ Goto(p, "failSettle")
  /\ UNCHANGED <<state, barrier, clock, health>>

(* try_connect() returns false, or throws *)
TryConnectFails(p) ==
  /\ pc[p] = "connecting"
  /\ room' = IF room = "joining" THEN "none" ELSE room
  /\ Goto(p, "failClose")
  /\ UNCHANGED <<state, barrier, clock, health>>

(* after closeSession(): compare_exchange Connecting -> Disconnected *)
PollFailed(p) ==
  /\ pc[p] = "failSettle"
  /\ state' = IF state = "Connecting" THEN "Disconnected" ELSE state
  /\ Goto(p, "idle")
  /\ UNCHANGED <<barrier, clock, health, room>>

(* mutant: a store where the code compares *)
PollConnectedStore(p) ==
  /\ pc[p] = "joined"
  /\ state' = "Connected"
  /\ Goto(p, "enable")
  /\ UNCHANGED <<barrier, clock, health, room>>

(* try_connect() returned true: compare_exchange Connecting -> Connected *)
PollConnected(p) ==
  /\ pc[p] = "joined"
  /\ IF state = "Connecting"
     THEN state' = "Connected" /\ Goto(p, "enable")
     ELSE UNCHANGED state /\ Goto(p, "lateClose")
  /\ UNCHANGED <<barrier, clock, health, room>>

-----------------------------------------------------------------------------
(* Room lifecycle events.  The same transition runs for an event and for   *)
(* the ConnectionStateChanged notification that duplicates it.             *)

Idle == pc[EventThread] = "idle"

(* transitionToReconnecting() *)
OnReconnecting ==
  /\ Idle
  /\ room \in {"up", "recovering"}
  /\ room' = "recovering"
  /\ IF state = "Connected"
     THEN state' = "Reconnecting" /\ Goto(EventThread, "disable")
     ELSE UNCHANGED state /\ Goto(EventThread, "markReconnecting")
  /\ UNCHANGED <<barrier, clock, health>>

(* transitionToReconnected() *)
OnReconnected ==
  /\ Idle
  /\ room \in {"up", "recovering"}
  /\ room' = "up"
  /\ IF state = "Reconnecting"
     THEN state' = "Connected" /\ Goto(EventThread, "enable")
     ELSE UNCHANGED state /\ Goto(EventThread, "markConnected")
  /\ UNCHANGED <<barrier, clock, health>>

(* mutant: a terminal disconnect permits a fresh join at once *)
OnDisconnectedRetryAtOnce ==
  /\ Idle
  /\ room # "none"
  /\ room' = "ended"
  /\ IF state \in {"Connecting", "Connected", "Reconnecting"}
     THEN state' = "Disconnected" /\ Goto(EventThread, "lossClose")
     ELSE UNCHANGED state /\ Goto(EventThread, "markDisconnected")
  /\ UNCHANGED <<barrier, clock, health>>

(* transitionToDisconnected() *)
OnDisconnected ==
  /\ Idle
  /\ room # "none"
  /\ room' = "ended"
  /\ IF state \in {"Connecting", "Connected", "Reconnecting"}
     THEN state' = "WaitingForRoomEos" /\ Goto(EventThread, "lossClose")
     ELSE UNCHANGED state /\ Goto(EventThread, "markDisconnected")
  /\ UNCHANGED <<barrier, clock, health>>

(* mutant: the end of the stream ends only a session that is still up *)
OnRoomEosKeepsWaiting ==
  /\ Idle
  /\ room # "none"
  /\ EosAfterDisconnect => room = "ended"
  /\ room' = "none"
  /\ IF state \in {"Connecting", "Connected", "Reconnecting"}
     THEN state' = "Disconnected" /\ Goto(EventThread, "lossClose")
     ELSE UNCHANGED <<state, pc>>
  /\ UNCHANGED <<barrier, clock, health>>

(* onRoomEos() *)
OnRoomEos ==
  /\ Idle
  /\ room # "none"
  /\ EosAfterDisconnect => room = "ended"
  /\ room' = "none"
  /\ state' = IF state = "Stopped" THEN state ELSE "Disconnected"
  /\ IF state \in {"Connecting", "Connected", "Reconnecting"}
     THEN Goto(EventThread, "lossClose")
     ELSE UNCHANGED pc
  /\ UNCHANGED <<barrier, clock, health>>

(* connection_diagnostics_, under its own lock, at the end of a handler *)
MarkHealth(t, step, kind) ==
  /\ pc[t] = step
  /\ health' = kind
  /\ Goto(t, "idle")
  /\ UNCHANGED <<state, barrier, clock, room>>

MarkConnected(t) == MarkHealth(t, "markConnected", "connected")
MarkReconnecting(t) == MarkHealth(t, "markReconnecting", "reconnecting")
MarkDisconnected(t) == MarkHealth(t, "markDisconnected", "disconnected")

(* RosPortal::onDataTrackPublished() or onTrackSubscribed(): the handler   *)
(* calls waitForOperations() and then uses, or drops, the track.           *)
OnTrack(w) ==
  /\ pc[w] = "idle"
  /\ room \in {"up", "recovering"}
  /\ Goto(w, "wait")
  /\ UNCHANGED <<state, barrier, clock, health, room>>

TrackHandled(w) ==
  /\ pc[w] \in {"admitted", "dropped"}
  /\ stale' = stale \ {w}
  /\ Goto(w, "idle")
  /\ UNCHANGED <<state, ops, closed, clock, health, room>>

(* stop(): the store, closeSession() follows *)
Stop ==
  /\ pc[Shutdown] = "idle"
  /\ state' = "Stopped"
  /\ Goto(Shutdown, "stopClose")
  /\ UNCHANGED <<barrier, clock, health, room>>

Tick ==
  /\ \/ cooldown > 0
     \/ \E p \in Pollers : pc[p] = "checked" /\ age[p] < RetryInterval
  /\ cooldown' = IF cooldown > 0 THEN cooldown - 1 ELSE 0
  /\ age' = [p \in Pollers |-> IF pc[p] = "checked" /\ age[p] < RetryInterval
                               THEN age[p] + 1 ELSE age[p]]
  /\ UNCHANGED <<state, barrier, health, room, pc>>

(* Everything has returned after stop(): the program may end here. *)
Terminated ==
  /\ pc[Shutdown] = "stopped"
  /\ \A t \in Threads \ {Shutdown} : pc[t] = "idle"
  /\ UNCHANGED vars

-----------------------------------------------------------------------------
PollStep(p) ==
  \/ PollCheck(p) \/ PollClaim(p) \/ BeginSessionAttempt(p)
  \/ SdkJoin(p) \/ TryConnectFails(p) \/ PollFailed(p) \/ PollConnected(p)

(* what every thread does once it is inside a handler *)
HandlerStep(t) ==
  \/ EnableOperations(t) \/ DisableOperations(t) \/ CloseSession(t)
  \/ NotifyAll(t) \/ MarkConnected(t) \/ MarkReconnecting(t)
  \/ MarkDisconnected(t)

LifecycleEvent == OnReconnecting \/ OnReconnected \/ OnDisconnected \/ OnRoomEos

TrackStep(w) == WaitForOperations(w) \/ TrackHandled(w)

Next ==
  \/ \E p \in Pollers : PollStep(p)
  \/ \E t \in Threads : HandlerStep(t)
  \/ LifecycleEvent
  \/ \E w \in TrackThreads : OnTrack(w) \/ TrackStep(w) \/ SpuriousWakeup(w)
  \/ Stop
  \/ Tick
  \/ Terminated

Spec == Init /\ [][Next]_vars

(* Threads that are inside a handler run on, the timer keeps firing, time  *)
(* passes, a join is answered, and the SDK's event queue is first in first *)
(* out: a reconnect is resolved and an ended stream reports EOS although   *)
(* other events keep coming.  Nothing obliges anybody to call stop().      *)
Fairness ==
  /\ \A p \in Pollers : WF_vars(PollStep(p))
  /\ \A t \in Threads : WF_vars(HandlerStep(t))
  /\ \A w \in TrackThreads : WF_vars(TrackStep(w))
  /\ WF_vars(Tick)
  /\ SF_vars(room = "recovering" /\ (OnReconnected \/ OnDisconnected))
  /\ SF_vars(room = "ended" /\ OnRoomEos)

FairSpec == Spec /\ Fairness

-----------------------------------------------------------------------------
(* No poller, lifecycle handler or stop() is between two of its steps. *)
Settled ==
  /\ \A p \in Pollers : pc[p] \in {"idle", "checked"}
  /\ pc[EventThread] \in {"idle", "wait", "asleep", "admitted", "dropped"}
  /\ pc[Shutdown] \in {"idle", "stopped"}

(* The condition variable loses no wake-up: while a thread sleeps in       *)
(* waitForOperations() although its predicate is true, the thread that     *)
(* made it true has still to call notify_all().                            *)
NoLostWakeup ==
  (ops \/ closed) /\ (\E w \in TrackThreads : pc[w] = "asleep")
    => \E t \in Threads : pc[t] \in DOMAIN AfterNotify

(* Once the threads have finished, a Connected manager has its barrier     *)
(* open: no close or disable of an earlier session arrives late and leaves *)
(* the room connected but unusable.                                        *)
ConnectedIsUsable ==
  Settled /\ state = "Connected" => ops /\ ~closed

(* ... and reports a recovered room as connected.                          *)
HealthyWhenUsable ==
  Settled /\ state = "Connected" /\ room = "up" => health = "connected"

(* A fresh join starts only when the SDK has cleaned the previous room up  *)
(* (poll() and onRoomEos(): the WaitingForRoomEos state).                  *)
JoinsCleanRoom ==
  [][room' = "joining" /\ room # "joining" => room = "none"]_vars

(* disconnect, failure and stop() close the barrier: once the threads have *)
(* finished, a manager without a session refuses room operations and keeps *)
(* nobody waiting (connection_manager.hpp, lines 43-45).                   *)
DownIsClosed ==
  Settled /\ state \in {"Disconnected", "WaitingForRoomEos", "Stopped"}
    => ~ops /\ closed

(* poll() is ignored while a previous attempt is active                    *)
(* (connection_manager.hpp, lines 74-76).                                  *)
Attempting(p) == pc[p] \in {"claimed", "connecting", "joined"}
AttemptsExclusive ==
  \A p, q \in Pollers : Attempting(p) /\ Attempting(q) => p = q

(* kRetryInterval is the minimum interval between two attempts             *)
(* (connection_manager.hpp, line 50).                                      *)
AttemptsPaced ==
  [][state = "Disconnected" /\ state' = "Connecting" => cooldown = 0]_vars

(* waitForOperations() blocks until operations are enabled or the session  *)
(* is closed: a caller whose session was closed is not admitted to a later *)
(* one (connection_manager.hpp, lines 91-93).                              *)
NoStaleAdmission ==
  \A w \in TrackThreads : pc[w] = "admitted" => w \notin stale

(* The barrier does not stay pending: a join, or an SDK reconnect, ends in *)
(* operations enabled or in a closed session (connection_manager.hpp,      *)
(* lines 43-45: "so waiters never hang").                                  *)
BarrierSettles == []<>(ops \/ closed \/ state = "Stopped")

(* stop() closes the session for good, so a callback that waits for        *)
(* operations when stop() returns is released (connection_manager.hpp,     *)
(* lines 43-45 and 133-134).                                               *)
StopReleasesWaiters ==
  \A w \in TrackThreads :
    pc[Shutdown] = "stopped" /\ w \in Waiting ~> w \notin Waiting

(* After a terminal loss the manager always comes back to trying to join,  *)
(* unless it is stopped.                                                   *)
RetriesAfterLoss ==
  state \in {"WaitingForRoomEos", "Disconnected"} ~> state \in {"Connecting", "Stopped"}

-----------------------------------------------------------------------------
(* What the room callbacks see of all this: a gate, and themselves.        *)
SeenGate == IF ops THEN "open" ELSE IF closed THEN "closed" ELSE "pending"
SeenCaller ==
  [w \in TrackThreads |-> IF pc[w] \in {"wait", "asleep"} THEN "blocked"
                          ELSE IF pc[w] \in {"admitted", "dropped"} THEN pc[w] ELSE "away"]

Gate == INSTANCE SessionGate WITH
  Callers <- TrackThreads, gate <- SeenGate, caller <- SeenCaller

(* waitForOperations() lets a callback through exactly as a gate would     *)
(* that opens and closes with the session, and leaves none behind.         *)
ImplementsGate == Gate!Spec
==============================================================================
