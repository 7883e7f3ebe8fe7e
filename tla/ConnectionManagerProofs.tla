----------------------- MODULE ConnectionManagerProofs -----------------------
(***************************************************************************)
(* Machine-checked theorems about ConnectionManager, for every set of      *)
(* threads and every retry interval.                                       *)
(***************************************************************************)
EXTENDS ConnectionManager, TLAPS

(* No two runs of poll() overlap: one executor thread, or one timer at a   *)
(* time.  Without it the invariant below fails, and so do its consequences.*)
SinglePoller == \A p, q \in Pollers : p = q

(* The steps of a poller between its claim and the end of its attempt. *)
InAttempt == {"claimed", "connecting", "joined",
              "failClose", "failNotify", "failSettle"}

Online == {"Connected", "Reconnecting"}

(* A poller's position agrees with the state the attempt has reached, and  *)
(* only a poller that claimed the attempt can be the one to finish it.     *)
AttemptInv ==
  /\ state = "Connecting" => \E p \in Pollers : pc[p] \in InAttempt
  /\ \A p \in Pollers :
       /\ pc[p] \in InAttempt => state \notin Online
       /\ pc[p] \in {"lateClose", "lateNotify"}
            => state \in {"WaitingForRoomEos", "Disconnected", "Stopped"}
       /\ pc[p] \notin {"lossClose", "stopClose", "disable"}

(* The SDK's room agrees with state_ and with the attempt. *)
RoomInv ==
  /\ room = "none" => state \notin Online \cup {"WaitingForRoomEos"}
  /\ room = "joining" => /\ state \in {"Connecting", "Stopped"}
                         /\ \E p \in Pollers : pc[p] = "connecting"
  /\ room \in {"up", "recovering"} => state \in Online \cup {"Connecting", "Stopped"}
  /\ room \in {"up", "recovering"} /\ state = "Connecting"
       => \E p \in Pollers : pc[p] = "joined"
  /\ room = "ended" => state \in {"WaitingForRoomEos", "Stopped"}
  /\ \A p \in Pollers :
       /\ pc[p] = "claimed" => room = "none" /\ state \in {"Connecting", "Stopped"}
       /\ pc[p] = "joined" /\ state = "Connecting" => room \in {"up", "recovering"}

(* An event handler or stop() that has still to touch the barrier finds    *)
(* the state its own transition left, or Stopped.                          *)
HandlerInv ==
  /\ pc[EventThread] = "lossClose" => state \in {"WaitingForRoomEos", "Stopped"}
  /\ pc[EventThread] = "disable" => state \in {"Reconnecting", "Stopped"}
  /\ \A t \in TrackThreads \ {EventThread} :
       pc[t] \in {"idle", "wait", "asleep", "admitted", "dropped"}
  /\ pc[EventThread] \notin {"failClose", "lateClose", "stopClose"}
  /\ pc[Shutdown] # "idle" => state = "Stopped"
  /\ pc[Shutdown] \in {"idle", "stopClose", "stopNotify", "stopped"}

(* Connected is usable, or the thread that made it so is about to enable.  *)
OpenInv ==
  state = "Connected" =>
    \/ ops /\ ~closed
    \/ \E t \in Pollers \cup {EventThread} : pc[t] = "enable"

IInv == TypeOK /\ AttemptInv /\ RoomInv /\ HandlerInv /\ OpenInv

-----------------------------------------------------------------------------
(* The two tables send every barrier step to a step.                       *)
LEMMA TablesOK ==
  /\ DOMAIN AfterClose = {"failClose", "lateClose", "lossClose", "stopClose"}
  /\ DOMAIN AfterNotify = {"failNotify", "lateNotify", "lossNotify",
                           "stopNotify", "openNotify"}
  /\ AfterClose["failClose"] = "failNotify" /\ AfterClose["lateClose"] = "lateNotify"
  /\ AfterClose["lossClose"] = "lossNotify" /\ AfterClose["stopClose"] = "stopNotify"
  /\ AfterNotify["failNotify"] = "failSettle" /\ AfterNotify["lateNotify"] = "idle"
  /\ AfterNotify["lossNotify"] = "markDisconnected"
  /\ AfterNotify["stopNotify"] = "stopped" /\ AfterNotify["openNotify"] = "markConnected"
BY DEF AfterClose, AfterNotify

(* Every variable of ConnectionManager keeps its type.                     *)
THEOREM TypeCorrect == Spec => []TypeOK
<1>1. Init => TypeOK
  <2> SUFFICES ASSUME Init PROVE TypeOK
    OBVIOUS
  <2>1. 0 \in 0..RetryInterval
    BY TimingAssumption
  <2>2. age \in [Pollers -> 0..RetryInterval] /\ pc \in [Threads -> Steps]
    BY <2>1 DEF Init, Steps
  <2> QED
    BY <2>1, <2>2 DEF Init, TypeOK, States, Healths, Rooms
<1>2. TypeOK /\ [Next]_vars => TypeOK'
  <2> SUFFICES ASSUME TypeOK, [Next]_vars PROVE TypeOK'
    OBVIOUS
  <2> USE TablesOK, TimingAssumption, ThreadsAssumption
      DEF TypeOK, States, Healths, Rooms, Steps, Threads, Goto, barrier, clock
  <2>1. ASSUME NEW p \in Pollers, PollStep(p) PROVE TypeOK'
    <3>1. CASE PollCheck(p)               BY <3>1 DEF PollCheck
    <3>2. CASE PollClaim(p)               BY <3>2 DEF PollClaim
    <3>3. CASE BeginSessionAttempt(p)     BY <3>3 DEF BeginSessionAttempt
    <3>4. CASE SdkJoin(p)                 BY <3>4 DEF SdkJoin
    <3>5. CASE TryConnectFails(p)         BY <3>5 DEF TryConnectFails
    <3>6. CASE PollFailed(p)              BY <3>6 DEF PollFailed
    <3>7. CASE PollConnected(p)           BY <3>7 DEF PollConnected
    <3> QED  BY <2>1, <3>1, <3>2, <3>3, <3>4, <3>5, <3>6, <3>7 DEF PollStep
  <2>2. ASSUME NEW t \in Threads, HandlerStep(t) PROVE TypeOK'
    <3>1. CASE EnableOperations(t)        BY <3>1 DEF EnableOperations
    <3>2. CASE DisableOperations(t)       BY <3>2 DEF DisableOperations
    <3>3. CASE CloseSession(t)
      <4>1. AfterClose[pc[t]] \in Steps
        BY <3>3 DEF CloseSession, Steps
      <4>2. stale' \subseteq TrackThreads
        BY <3>3 DEF CloseSession, Waiting
      <4> QED  BY <3>3, <4>1, <4>2 DEF CloseSession
    <3>4. CASE NotifyAll(t)
      <4>1. pc[t] \in DOMAIN AfterNotify => AfterNotify[pc[t]] \in Steps
        BY DEF Steps
      <4>2. "wait" \in Steps
        BY DEF Steps
      <4> QED  BY <3>4, <4>1, <4>2 DEF NotifyAll
    <3>5. CASE MarkConnected(t)           BY <3>5 DEF MarkConnected, MarkHealth
    <3>6. CASE MarkReconnecting(t)        BY <3>6 DEF MarkReconnecting, MarkHealth
    <3>7. CASE MarkDisconnected(t)        BY <3>7 DEF MarkDisconnected, MarkHealth
    <3> QED  BY <2>2, <3>1, <3>2, <3>3, <3>4, <3>5, <3>6, <3>7 DEF HandlerStep
  <2>3. CASE OnReconnecting               BY <2>3 DEF OnReconnecting
  <2>4. CASE OnReconnected                BY <2>4 DEF OnReconnected
  <2>5. CASE OnDisconnected               BY <2>5 DEF OnDisconnected
  <2>6. CASE OnRoomEos                    BY <2>6 DEF OnRoomEos
  <2>7. ASSUME NEW w \in TrackThreads,
               OnTrack(w) \/ TrackStep(w) \/ SpuriousWakeup(w)
        PROVE  TypeOK'
    BY <2>7 DEF OnTrack, TrackStep, WaitForOperations, TrackHandled, SpuriousWakeup
  <2>8. CASE Stop                         BY <2>8 DEF Stop
  <2>9. CASE Tick                         BY <2>9 DEF Tick
  <2>10. CASE UNCHANGED vars              BY <2>10 DEF vars
  <2> QED
    BY <2>1, <2>2, <2>3, <2>4, <2>5, <2>6, <2>7, <2>8, <2>9, <2>10
    DEF Next, LifecycleEvent, Terminated
<1> QED  BY <1>1, <1>2, PTL DEF Spec

-----------------------------------------------------------------------------
(* A thread that sleeps in waitForOperations() although operations are     *)
(* enabled or the session is closed is about to be woken.                  *)
THEOREM WakeupsDelivered == Spec => []NoLostWakeup
<1>1. Init => NoLostWakeup
  BY DEF Init, NoLostWakeup, Threads
<1>2. TypeOK /\ NoLostWakeup /\ [Next]_vars => NoLostWakeup'
  <2> SUFFICES ASSUME TypeOK, NoLostWakeup, [Next]_vars PROVE NoLostWakeup'
    OBVIOUS
  <2> USE TablesOK, ThreadsAssumption
      DEF TypeOK, NoLostWakeup, Threads, Goto, barrier, clock
  <2>1. ASSUME NEW p \in Pollers, PollStep(p) PROVE NoLostWakeup'
    <3>1. CASE PollCheck(p)               BY <3>1 DEF PollCheck
    <3>2. CASE PollClaim(p)               BY <3>2 DEF PollClaim
    <3>3. CASE BeginSessionAttempt(p)     BY <3>3 DEF BeginSessionAttempt
    <3>4. CASE SdkJoin(p)                 BY <3>4 DEF SdkJoin
    <3>5. CASE TryConnectFails(p)         BY <3>5 DEF TryConnectFails
    <3>6. CASE PollFailed(p)              BY <3>6 DEF PollFailed
    <3>7. CASE PollConnected(p)           BY <3>7 DEF PollConnected
    <3> QED  BY <2>1, <3>1, <3>2, <3>3, <3>4, <3>5, <3>6, <3>7 DEF PollStep
  <2>2. ASSUME NEW t \in Threads, HandlerStep(t) PROVE NoLostWakeup'
    <3>1. CASE EnableOperations(t)        BY <3>1 DEF EnableOperations
    <3>2. CASE DisableOperations(t)       BY <3>2 DEF DisableOperations
    <3>3. CASE CloseSession(t)            BY <3>3 DEF CloseSession
    <3>4. CASE NotifyAll(t)               BY <3>4 DEF NotifyAll
    <3>5. CASE MarkConnected(t)           BY <3>5 DEF MarkConnected, MarkHealth
    <3>6. CASE MarkReconnecting(t)        BY <3>6 DEF MarkReconnecting, MarkHealth
    <3>7. CASE MarkDisconnected(t)        BY <3>7 DEF MarkDisconnected, MarkHealth
    <3> QED  BY <2>2, <3>1, <3>2, <3>3, <3>4, <3>5, <3>6, <3>7 DEF HandlerStep
  <2>3. CASE OnReconnecting               BY <2>3 DEF OnReconnecting, Idle
  <2>4. CASE OnReconnected                BY <2>4 DEF OnReconnected, Idle
  <2>5. CASE OnDisconnected               BY <2>5 DEF OnDisconnected, Idle
  <2>6. CASE OnRoomEos                    BY <2>6 DEF OnRoomEos, Idle
  <2>7. ASSUME NEW w \in TrackThreads,
               OnTrack(w) \/ TrackStep(w) \/ SpuriousWakeup(w)
        PROVE  NoLostWakeup'
    BY <2>7 DEF OnTrack, TrackStep, WaitForOperations, TrackHandled, SpuriousWakeup
  <2>8. CASE Stop                         BY <2>8 DEF Stop
  <2>9. CASE Tick                         BY <2>9 DEF Tick
  <2>10. CASE UNCHANGED vars              BY <2>10 DEF vars
  <2> QED
    BY <2>1, <2>2, <2>3, <2>4, <2>5, <2>6, <2>7, <2>8, <2>9, <2>10
    DEF Next, LifecycleEvent, Terminated
<1> QED  BY <1>1, <1>2, TypeCorrect, PTL DEF Spec

-----------------------------------------------------------------------------
(* The inductive invariant behind UsableWhenConnected and HealthyAgain.    *)
LEMMA InvariantHolds ==
  ASSUME SinglePoller, EosAfterDisconnect
  PROVE  Spec => []IInv
<1> USE DEF SinglePoller
<1> DEFINE Inv == AttemptInv /\ RoomInv /\ HandlerInv /\ OpenInv
<1>1. Init => Inv
  BY ThreadsAssumption
  DEF Init, AttemptInv, RoomInv, HandlerInv, OpenInv, Online, InAttempt, Threads
<1>2. TypeOK /\ Inv /\ [Next]_vars => Inv'
  <2> SUFFICES ASSUME TypeOK, Inv, [Next]_vars PROVE Inv'
    OBVIOUS
  <2> USE TablesOK, ThreadsAssumption
      DEF TypeOK, States, Rooms, Threads, Goto, barrier, clock, Online, InAttempt,
          AttemptInv, RoomInv, HandlerInv, OpenInv
  <2>1. ASSUME NEW p \in Pollers, PollStep(p) PROVE Inv'
    <3>1. CASE PollCheck(p)               BY <3>1 DEF PollCheck
    <3>2. CASE PollClaim(p)               BY <3>2 DEF PollClaim
    <3>3. CASE BeginSessionAttempt(p)     BY <3>3 DEF BeginSessionAttempt
    <3>4. CASE SdkJoin(p)                 BY <3>4 DEF SdkJoin
    <3>5. CASE TryConnectFails(p)         BY <3>5 DEF TryConnectFails
    <3>6. CASE PollFailed(p)              BY <3>6 DEF PollFailed
    <3>7. CASE PollConnected(p)           BY <3>7 DEF PollConnected
    <3> QED  BY <2>1, <3>1, <3>2, <3>3, <3>4, <3>5, <3>6, <3>7 DEF PollStep
  <2>2. ASSUME NEW t \in Threads, HandlerStep(t) PROVE Inv'
    <3>1. CASE EnableOperations(t)        BY <3>1 DEF EnableOperations
    <3>2. CASE DisableOperations(t)       BY <3>2 DEF DisableOperations
    <3>3. CASE CloseSession(t)            BY <3>3 DEF CloseSession
    <3>4. CASE NotifyAll(t)               BY <3>4 DEF NotifyAll
    <3>5. CASE MarkConnected(t)           BY <3>5 DEF MarkConnected, MarkHealth
    <3>6. CASE MarkReconnecting(t)        BY <3>6 DEF MarkReconnecting, MarkHealth
    <3>7. CASE MarkDisconnected(t)        BY <3>7 DEF MarkDisconnected, MarkHealth
    <3> QED  BY <2>2, <3>1, <3>2, <3>3, <3>4, <3>5, <3>6, <3>7 DEF HandlerStep
  <2>3. CASE OnReconnecting               BY <2>3 DEF OnReconnecting, Idle
  <2>4. CASE OnReconnected                BY <2>4 DEF OnReconnected, Idle
  <2>5. CASE OnDisconnected               BY <2>5 DEF OnDisconnected, Idle
  <2>6. CASE OnRoomEos                    BY <2>6 DEF OnRoomEos, Idle
  <2>7. ASSUME NEW w \in TrackThreads,
               OnTrack(w) \/ TrackStep(w) \/ SpuriousWakeup(w)
        PROVE  Inv'
    BY <2>7 DEF OnTrack, TrackStep, WaitForOperations, TrackHandled, SpuriousWakeup
  <2>8. CASE Stop                         BY <2>8 DEF Stop
  <2>9. CASE Tick                         BY <2>9 DEF Tick
  <2>10. CASE UNCHANGED vars              BY <2>10 DEF vars
  <2> QED
    BY <2>1, <2>2, <2>3, <2>4, <2>5, <2>6, <2>7, <2>8, <2>9, <2>10
    DEF Next, LifecycleEvent, Terminated
<1> QED  BY <1>1, <1>2, TypeCorrect, PTL DEF Spec, IInv

(* With one run of poll() at a time and an SDK that ends a stream only     *)
(* after Disconnected, a Connected manager whose threads have finished has *)
(* its barrier open: no late closeSession() or disableOperations() leaves  *)
(* a connected room unusable.                                              *)
THEOREM UsableWhenConnected ==
  ASSUME SinglePoller, EosAfterDisconnect
  PROVE  Spec => []ConnectedIsUsable
<1>1. IInv => ConnectedIsUsable
  BY DEF IInv, OpenInv, ConnectedIsUsable, Settled
<1> QED  BY <1>1, InvariantHolds, PTL

-----------------------------------------------------------------------------
(* Where a join can start from: Disconnected means that the SDK has let go *)
(* of the room, and so does an attempt that was claimed, or that failed    *)
(* before an event ended it.                                               *)
CleanInv ==
  /\ state = "Disconnected" => room = "none"
  /\ \A p \in Pollers :
       /\ pc[p] = "claimed" => room = "none" /\ state \in {"Connecting", "Stopped"}
       /\ pc[p] = "connecting" /\ state = "Connecting" => room = "joining"
       /\ pc[p] \in {"failClose", "failNotify", "failSettle"} /\ state = "Connecting"
            => room = "none"

LEMMA CleanHolds ==
  ASSUME SinglePoller
  PROVE  Spec => []CleanInv
<1> USE DEF SinglePoller
<1>1. Init => CleanInv
  BY ThreadsAssumption DEF Init, CleanInv, Threads
<1>2. TypeOK /\ CleanInv /\ [Next]_vars => CleanInv'
  <2> SUFFICES ASSUME TypeOK, CleanInv, [Next]_vars PROVE CleanInv'
    OBVIOUS
  <2> USE TablesOK, ThreadsAssumption
      DEF TypeOK, States, Rooms, Threads, Goto, barrier, clock, CleanInv
  <2>1. ASSUME NEW p \in Pollers, PollStep(p) PROVE CleanInv'
    <3>1. CASE PollCheck(p)               BY <3>1 DEF PollCheck
    <3>2. CASE PollClaim(p)               BY <3>2 DEF PollClaim
    <3>3. CASE BeginSessionAttempt(p)     BY <3>3 DEF BeginSessionAttempt
    <3>4. CASE SdkJoin(p)                 BY <3>4 DEF SdkJoin
    <3>5. CASE TryConnectFails(p)         BY <3>5 DEF TryConnectFails
    <3>6. CASE PollFailed(p)              BY <3>6 DEF PollFailed
    <3>7. CASE PollConnected(p)           BY <3>7 DEF PollConnected
    <3> QED  BY <2>1, <3>1, <3>2, <3>3, <3>4, <3>5, <3>6, <3>7 DEF PollStep
  <2>2. ASSUME NEW t \in Threads, HandlerStep(t) PROVE CleanInv'
    <3>1. CASE EnableOperations(t)        BY <3>1 DEF EnableOperations
    <3>2. CASE DisableOperations(t)       BY <3>2 DEF DisableOperations
    <3>3. CASE CloseSession(t)            BY <3>3 DEF CloseSession
    <3>4. CASE NotifyAll(t)               BY <3>4 DEF NotifyAll
    <3>5. CASE MarkConnected(t)           BY <3>5 DEF MarkConnected, MarkHealth
    <3>6. CASE MarkReconnecting(t)        BY <3>6 DEF MarkReconnecting, MarkHealth
    <3>7. CASE MarkDisconnected(t)        BY <3>7 DEF MarkDisconnected, MarkHealth
    <3> QED  BY <2>2, <3>1, <3>2, <3>3, <3>4, <3>5, <3>6, <3>7 DEF HandlerStep
  <2>3. CASE OnReconnecting               BY <2>3 DEF OnReconnecting, Idle
  <2>4. CASE OnReconnected                BY <2>4 DEF OnReconnected, Idle
  <2>5. CASE OnDisconnected               BY <2>5 DEF OnDisconnected, Idle
  <2>6. CASE OnRoomEos                    BY <2>6 DEF OnRoomEos, Idle
  <2>7. ASSUME NEW w \in TrackThreads,
               OnTrack(w) \/ TrackStep(w) \/ SpuriousWakeup(w)
        PROVE  CleanInv'
    BY <2>7 DEF OnTrack, TrackStep, WaitForOperations, TrackHandled, SpuriousWakeup
  <2>8. CASE Stop                         BY <2>8 DEF Stop
  <2>9. CASE Tick                         BY <2>9 DEF Tick
  <2>10. CASE UNCHANGED vars              BY <2>10 DEF vars
  <2> QED
    BY <2>1, <2>2, <2>3, <2>4, <2>5, <2>6, <2>7, <2>8, <2>9, <2>10
    DEF Next, LifecycleEvent, Terminated
<1> QED  BY <1>1, <1>2, TypeCorrect, PTL DEF Spec

(* With one run of poll() at a time a fresh join never starts while the    *)
(* SDK still holds the previous room, whatever order its events come in.   *)
THEOREM CleanJoins ==
  ASSUME SinglePoller
  PROVE  Spec => JoinsCleanRoom
<1>1. CleanInv /\ [Next]_vars => [room' = "joining" /\ room # "joining" => room = "none"]_vars
  <2> SUFFICES ASSUME CleanInv, Next, room' = "joining", room # "joining"
               PROVE  room = "none"
    BY DEF vars
  <2> USE DEF CleanInv, clock, barrier
  <2>1. ASSUME NEW p \in Pollers, PollStep(p) PROVE room = "none"
    BY <2>1 DEF PollStep, PollCheck, PollClaim, BeginSessionAttempt, SdkJoin,
                TryConnectFails, PollFailed, PollConnected
  <2>2. ASSUME NEW t \in Threads, HandlerStep(t) PROVE room = "none"
    BY <2>2 DEF HandlerStep, EnableOperations, DisableOperations, CloseSession,
                NotifyAll, MarkConnected, MarkReconnecting, MarkDisconnected, MarkHealth
  <2>3. CASE LifecycleEvent
    BY <2>3 DEF LifecycleEvent, OnReconnecting, OnReconnected, OnDisconnected, OnRoomEos
  <2>4. ASSUME NEW w \in TrackThreads,
               OnTrack(w) \/ TrackStep(w) \/ SpuriousWakeup(w)
        PROVE  room = "none"
    BY <2>4 DEF OnTrack, TrackStep, WaitForOperations, TrackHandled, SpuriousWakeup
  <2>5. CASE Stop \/ Tick \/ Terminated
    BY <2>5 DEF Stop, Tick, Terminated, vars
  <2> QED  BY <2>1, <2>2, <2>3, <2>4, <2>5 DEF Next
<1> QED  BY <1>1, CleanHolds, PTL DEF Spec, JoinsCleanRoom

-----------------------------------------------------------------------------
(* Who reports the health of the session: a thread that opened the barrier *)
(* will say so; one that is about to report a loss or a reconnect finds    *)
(* the state, or the room, that it reports.                                *)
HealthInv ==
  /\ state = "Connected" /\ room = "up" =>
       \/ health = "connected"
       \/ \E t \in Pollers \cup {EventThread} : pc[t] \in {"enable", "openNotify", "markConnected"}
  /\ pc[EventThread] \in {"lossClose", "lossNotify", "markDisconnected"} =>
       state \in {"WaitingForRoomEos", "Stopped"}
  /\ pc[EventThread] \in {"disable", "markReconnecting"} => room = "recovering"
  /\ \A p \in Pollers :
       pc[p] \notin {"disable", "lossClose", "lossNotify", "markReconnecting", "markDisconnected"}

LEMMA HealthHolds ==
  ASSUME SinglePoller, EosAfterDisconnect
  PROVE  Spec => []HealthInv
<1>1. Init => HealthInv
  BY ThreadsAssumption DEF Init, HealthInv, Threads
<1>2. IInv /\ HealthInv /\ [Next]_vars => HealthInv'
  <2> SUFFICES ASSUME IInv, HealthInv, [Next]_vars PROVE HealthInv'
    OBVIOUS
  <2> USE TablesOK, ThreadsAssumption
      DEF IInv, TypeOK, States, Rooms, Healths, Threads, Goto, barrier, clock, Online, InAttempt,
          RoomInv, HandlerInv, HealthInv
  <2>1. ASSUME NEW p \in Pollers, PollStep(p) PROVE HealthInv'
    <3>1. CASE PollCheck(p)               BY <3>1 DEF PollCheck
    <3>2. CASE PollClaim(p)               BY <3>2 DEF PollClaim
    <3>3. CASE BeginSessionAttempt(p)     BY <3>3 DEF BeginSessionAttempt
    <3>4. CASE SdkJoin(p)                 BY <3>4 DEF SdkJoin
    <3>5. CASE TryConnectFails(p)         BY <3>5 DEF TryConnectFails
    <3>6. CASE PollFailed(p)              BY <3>6 DEF PollFailed
    <3>7. CASE PollConnected(p)           BY <3>7 DEF PollConnected
    <3> QED  BY <2>1, <3>1, <3>2, <3>3, <3>4, <3>5, <3>6, <3>7 DEF PollStep
  <2>2. ASSUME NEW t \in Threads, HandlerStep(t) PROVE HealthInv'
    <3>1. CASE EnableOperations(t)        BY <3>1 DEF EnableOperations
    <3>2. CASE DisableOperations(t)       BY <3>2 DEF DisableOperations
    <3>3. CASE CloseSession(t)            BY <3>3 DEF CloseSession
    <3>4. CASE NotifyAll(t)               BY <3>4 DEF NotifyAll
    <3>5. CASE MarkConnected(t)           BY <3>5 DEF MarkConnected, MarkHealth
    <3>6. CASE MarkReconnecting(t)        BY <3>6 DEF MarkReconnecting, MarkHealth
    <3>7. CASE MarkDisconnected(t)        BY <3>7 DEF MarkDisconnected, MarkHealth
    <3> QED  BY <2>2, <3>1, <3>2, <3>3, <3>4, <3>5, <3>6, <3>7 DEF HandlerStep
  <2>3. CASE OnReconnecting               BY <2>3 DEF OnReconnecting, Idle
  <2>4. CASE OnReconnected                BY <2>4 DEF OnReconnected, Idle
  <2>5. CASE OnDisconnected               BY <2>5 DEF OnDisconnected, Idle
  <2>6. CASE OnRoomEos                    BY <2>6 DEF OnRoomEos, Idle
  <2>7. ASSUME NEW w \in TrackThreads,
               OnTrack(w) \/ TrackStep(w) \/ SpuriousWakeup(w)
        PROVE  HealthInv'
    BY <2>7 DEF OnTrack, TrackStep, WaitForOperations, TrackHandled, SpuriousWakeup
  <2>8. CASE Stop                         BY <2>8 DEF Stop
  <2>9. CASE Tick                         BY <2>9 DEF Tick
  <2>10. CASE UNCHANGED vars              BY <2>10 DEF vars
  <2> QED
    BY <2>1, <2>2, <2>3, <2>4, <2>5, <2>6, <2>7, <2>8, <2>9, <2>10
    DEF Next, LifecycleEvent, Terminated
<1> QED  BY <1>1, <1>2, InvariantHolds, PTL DEF Spec

(* With one poller, and an SDK that ends a stream only after Disconnected, *)
(* a recovered room is reported as connected once the threads have         *)
(* finished: a late report of an earlier loss or reconnect never has the   *)
(* last word.                                                              *)
THEOREM HealthyAgain ==
  ASSUME SinglePoller, EosAfterDisconnect
  PROVE  Spec => []HealthyWhenUsable
<1>1. HealthInv => HealthyWhenUsable
  BY DEF HealthInv, HealthyWhenUsable, Settled
<1> QED  BY <1>1, HealthHolds, PTL

-----------------------------------------------------------------------------
(* The threads of waitForOperations() see a SessionGate: each step moves   *)
(* the gate, or is a caller's, or is not seen.  No assumption is needed on *)
(* the pollers or on the SDK.                                              *)
THEOREM SeesGate == Spec => Gate!SafeSpec
<1>1. Init => Gate!Init
  BY DEF Init, Gate!Init, SeenGate, SeenCaller, Threads
<1>2. TypeOK /\ [Next]_vars => [Gate!Next]_(Gate!vars)
  <2> SUFFICES ASSUME TypeOK, [Next]_vars PROVE [Gate!Next]_(Gate!vars)
    OBVIOUS
  <2> USE TablesOK, ThreadsAssumption DEF Threads, Goto, barrier, clock
  <2>0. pc \in [Threads -> Steps]
    BY DEF TypeOK
  <2>1. UNCHANGED <<ops, closed>> => SeenGate' = SeenGate
    BY DEF SeenGate
  <2>2. SeenGate' \in {"closed", "pending", "open"}
    BY DEF SeenGate
  <2>3. (\A w \in TrackThreads : \/ pc'[w] = pc[w]
                                 \/ {pc[w], pc'[w]} \subseteq {"wait", "asleep"}
                                 \/ {pc[w], pc'[w]} \cap {"wait", "asleep", "admitted", "dropped"} = {})
          => SeenCaller' = SeenCaller
    BY DEF SeenCaller
  <2>4. SeenCaller' = SeenCaller => [Gate!Next]_(Gate!vars)
    BY <2>2 DEF Gate!Next, Gate!MoveGate, Gate!vars
  <2>5. ASSUME NEW p \in Pollers, PollStep(p) PROVE SeenCaller' = SeenCaller
    BY <2>0, <2>3, <2>5
       DEF PollStep, PollCheck, PollClaim, BeginSessionAttempt, SdkJoin, TryConnectFails,
           PollFailed, PollConnected
  <2>6. ASSUME NEW t \in Threads, HandlerStep(t) PROVE SeenCaller' = SeenCaller
    <3>1. CASE EnableOperations(t) \/ DisableOperations(t)
      BY <2>0, <2>3, <3>1 DEF EnableOperations, DisableOperations
    <3>2. CASE CloseSession(t)            BY <2>0, <2>3, <3>2 DEF CloseSession
    <3>3. CASE NotifyAll(t)               BY <2>0, <2>3, <3>3 DEF NotifyAll
    <3>4. CASE MarkConnected(t) \/ MarkReconnecting(t) \/ MarkDisconnected(t)
      BY <2>0, <2>3, <3>4 DEF MarkConnected, MarkReconnecting, MarkDisconnected, MarkHealth
    <3> QED  BY <2>6, <3>1, <3>2, <3>3, <3>4 DEF HandlerStep
  <2>7. CASE LifecycleEvent
    <3>1. SeenCaller' = SeenCaller
      BY <2>0, <2>3, <2>7 DEF LifecycleEvent, OnReconnecting, OnReconnected, OnDisconnected,
                              OnRoomEos, Idle
    <3> QED  BY <2>4, <3>1
  <2>8. ASSUME NEW w \in TrackThreads, OnTrack(w) PROVE Gate!Call(w)
    BY <2>0, <2>1, <2>8 DEF OnTrack, Gate!Call, SeenCaller
  <2>9. ASSUME NEW w \in TrackThreads, WaitForOperations(w)
        PROVE  Gate!Return(w) \/ SeenCaller' = SeenCaller
    <3>1. CASE ops /\ Goto(w, "admitted")
      BY <2>0, <2>1, <2>9, <3>1 DEF WaitForOperations, Gate!Return, SeenCaller, SeenGate
    <3>2. CASE ~ops /\ closed /\ Goto(w, "dropped")
      BY <2>0, <2>1, <2>9, <3>2 DEF WaitForOperations, Gate!Return, SeenCaller, SeenGate
    <3>3. CASE Goto(w, "asleep")
      BY <2>0, <2>3, <2>9, <3>3 DEF WaitForOperations
    <3> QED  BY <2>9, <3>1, <3>2, <3>3 DEF WaitForOperations
  <2>10. ASSUME NEW w \in TrackThreads, TrackHandled(w) PROVE Gate!Leave(w)
    BY <2>0, <2>1, <2>10 DEF TrackHandled, Gate!Leave, SeenCaller
  <2>11. ASSUME NEW w \in TrackThreads, SpuriousWakeup(w) PROVE SeenCaller' = SeenCaller
    BY <2>0, <2>3, <2>11 DEF SpuriousWakeup
  <2>12. CASE Stop \/ Tick \/ UNCHANGED vars
    <3>1. SeenCaller' = SeenCaller
      BY <2>0, <2>3, <2>12 DEF Stop, Tick, vars
    <3> QED  BY <2>4, <3>1
  <2> QED
    BY <2>4, <2>5, <2>6, <2>7, <2>8, <2>9, <2>10, <2>11, <2>12
    DEF Next, TrackStep, Terminated, Gate!Next
<1> QED  BY <1>1, <1>2, TypeCorrect, PTL DEF Spec, Gate!SafeSpec
==============================================================================
