------------------------- MODULE InboundTracksProofs -------------------------
(***************************************************************************)
(* Machine-checked theorems about InboundTracks, for every set of tracks,  *)
(* every number of publications, sessions and demand timers, and every     *)
(* combination of faults.                                                  *)
(***************************************************************************)
EXTENDS InboundTracks, SequenceTheorems, TLAPS

(* A publication that is queued, or that the event thread has in hand, is  *)
(* there once and has no reader yet.                                       *)
Waiting(n) == n <= sent /\ rpc[n] = "none"

QueueInv ==
  /\ \A i \in 1..Len(events) : events[i] \in Readers => Waiting(events[i])
  /\ \A i, j \in 1..Len(events) : events[i] \in Readers /\ events[i] = events[j] => i = j
  /\ epc = "handle" /\ event \in Readers
       => Waiting(event) /\ \A i \in 1..Len(events) : events[i] # event
  /\ \A n \in Readers : n > sent => rpc[n] = "none"

(* A reader that is joined has been asked to stop, and its track is free   *)
(* until the join is over, for the thread that joins it holds the lock.    *)
Joining(n) == (epc = "join" /\ n = ejoin) \/ (tpc = "join" /\ n = tjoin)

JoinInv ==
  /\ lock = "events" <=> epc \in {"handle", "join"}
  /\ lock = "timer" <=> tpc \in {"stop", "join"}
  /\ \A n \in Readers \cup {Nothing} : Joining(n) =>
       /\ n \in 1..sent /\ n \in stop
       /\ reader[track[n]] = Nothing
       /\ forwarder

(* A registered reader belongs to the track it is registered for and has   *)
(* not been asked to stop; a thread that runs is registered or joined.     *)
MapInv ==
  /\ \A t \in Tracks : reader[t] # Nothing =>
       /\ reader[t] <= sent /\ track[reader[t]] = t
       /\ reader[t] \notin stop /\ rpc[reader[t]] # "none"
       /\ forwarder
  /\ \A n \in stop : n <= sent /\ rpc[n] # "none"
  /\ \A n \in Readers : Running(n) => reader[track[n]] = n \/ Joining(n)

(* Only what a reader has published reaches the subscription, and what was *)
(* sent back came from a reader that will not be registered again.         *)
EchoInv ==
  /\ \A n \in samples \cup echoed \cup ({taken} \ {Nothing}) : rpc[n] # "none"
  /\ NoEchoWhileRegistered

IInv == TypeOK /\ QueueInv /\ JoinInv /\ MapInv /\ EchoInv

-----------------------------------------------------------------------------
(* What queueing an event, and taking one, does to the queue.              *)
LEMMA DeliverQueues ==
  ASSUME TypeOK, NEW e \in Events, Deliver(e)
  PROVE  /\ events' \in Seq(Events) /\ Len(events') = Len(events) + 1
         /\ Len(events) \in Nat /\ Len(events') <= MaxQueue
         /\ \A i \in 1..Len(events) : events'[i] = events[i]
         /\ events'[Len(events) + 1] = e
<1>1. events \in Seq(Events) /\ Len(events) \in Nat /\ MaxQueue \in Nat
  BY BoundsAssumption, LenProperties DEF TypeOK
<1>2. events' = Append(events, e) /\ Len(events) < MaxQueue
  BY DEF Deliver
<1> QED  BY <1>1, <1>2, AppendProperties

LEMMA HeadIsTaken ==
  ASSUME TypeOK, events # <<>>, events' = Tail(events)
  PROVE  /\ Head(events) = events[1] /\ Head(events) \in Events
         /\ events' \in Seq(Events)
         /\ Len(events) \in Nat \ {0} /\ Len(events') = Len(events) - 1
         /\ \A i \in 1..Len(events') : events'[i] = events[i + 1]
<1>1. events \in Seq(Events)
  BY DEF TypeOK
<1> QED  BY <1>1, HeadTailProperties, EmptySeq, LenProperties

(* An event is a publication, a track or EOS, and never two of them.       *)
LEMMA EventKinds ==
  /\ Readers \subseteq Nat \ {0}
  /\ \A n \in Readers : n \notin Tracks
  /\ Nothing \notin Tracks /\ Nothing \notin Readers
  /\ \A e \in Events : e \in Readers \/ e \in Tracks \/ e = Eos
BY BoundsAssumption, TracksAssumption DEF Readers, Nothing, Events, Eos

-----------------------------------------------------------------------------
(* Every variable keeps its type, whatever the threads interleave.         *)
THEOREM TypeCorrect == Spec => []TypeOK
<1>1. Init => TypeOK
  <2> SUFFICES ASSUME Init PROVE TypeOK
    OBVIOUS
  <2>1. events = <<>> /\ events \in Seq(Events) /\ Len(events) = 0
    BY EmptySeq DEF Init
  <2>2. track = <<>> /\ sent = 0 /\ track \in [1..sent -> Tracks]
    BY DEF Init
  <2>3. demand \in [DemandTimers -> [todo: SUBSET Readers, current: Readers \cup {Nothing},
                                     wanted: BOOLEAN]]
    BY DEF Init, Idle
  <2>4. /\ reader \in [Tracks -> Readers \cup {Nothing}]
        /\ rpc \in [Readers -> {"none", "start", "read", "frame", "publish", "ended"}]
    BY DEF Init
  <2>5. sent \in 0..Deliveries /\ session \in 0..MaxSessions /\ Len(events) <= MaxQueue
    BY <2>1, BoundsAssumption DEF Init
  <2> QED  BY <2>1, <2>2, <2>3, <2>4, <2>5 DEF Init, TypeOK, Events
<1>2. TypeOK /\ [Next]_vars => TypeOK'
  <2> SUFFICES ASSUME TypeOK, [Next]_vars PROVE TypeOK'
    OBVIOUS
  <2> USE EventKinds, BoundsAssumption
  <2>1. ASSUME NEW t \in Tracks, SdkPublishes(t) PROVE TypeOK'
    <3>1. sent + 1 \in Readers /\ sent + 1 \in Events /\ sent \in Nat
      BY <2>1 DEF SdkPublishes, TypeOK, Readers, Events
    <3>2. events' \in Seq(Events) /\ Len(events') <= MaxQueue
      BY <2>1, <3>1, DeliverQueues DEF SdkPublishes
    <3>3. track \in Seq(Tracks) /\ Len(track) = sent
      BY <3>1 DEF TypeOK
    <3>4. track' \in [1..sent' -> Tracks]
      BY <2>1, <3>3, AppendProperties, LenProperties DEF SdkPublishes
    <3>5. sent' \in 0..Deliveries /\ remote' \subseteq Tracks
      BY <2>1, <3>1 DEF SdkPublishes, TypeOK, Readers
    <3>6. UNCHANGED <<subscribers, sessionVars, lock, eventVars, timerVars, nodeVars, reader,
                      readerVars, outboundVars, demandVars>>
      BY <2>1 DEF SdkPublishes
    <3> QED  BY <3>2, <3>4, <3>5, <3>6
             DEF TypeOK, sessionVars, eventVars, timerVars, nodeVars, readerVars,
                 outboundVars, demandVars
  <2>2. ASSUME NEW t \in Tracks, SdkUnpublishes(t) PROVE TypeOK'
    <3>1. events' \in Seq(Events) /\ Len(events') <= MaxQueue
      BY <2>2, DeliverQueues DEF SdkUnpublishes, Events
    <3>2. open' \subseteq Readers /\ remote' \subseteq Tracks
      BY <2>2 DEF SdkUnpublishes, TypeOK
    <3> QED  BY <2>2, <3>1, <3>2
             DEF SdkUnpublishes, TypeOK, sessionVars, eventVars, timerVars, nodeVars,
                 outboundVars, demandVars
  <2>3. CASE SdkEndsSession
    <3>1. events' \in Seq(Events) /\ Len(events') <= MaxQueue
      BY <2>3, DeliverQueues DEF SdkEndsSession, Events
    <3> QED  BY <2>3, <3>1
             DEF SdkEndsSession, TypeOK, eventVars, timerVars, nodeVars, outboundVars, demandVars
  <2>4. ASSUME NEW v \in Video, SubscribersChange(v) PROVE TypeOK'
    BY <2>4 DEF SubscribersChange, TypeOK, sdkVars, sessionVars, eventVars, timerVars, nodeVars,
                readerVars, outboundVars, demandVars
  <2>5. CASE OnRoomEos
    <3>1. events' \in Seq(Events) /\ Len(events') <= MaxQueue
      BY <2>5, HeadIsTaken DEF OnRoomEos, TypeOK
    <3> QED  BY <2>5, <3>1
             DEF OnRoomEos, TypeOK, eventVars, timerVars, nodeVars, readerVars, outboundVars,
                 demandVars
  <2>6. CASE OnTrack
    <3>1. events' \in Seq(Events) /\ Len(events') <= MaxQueue /\ event' \in Events
      BY <2>6, HeadIsTaken DEF OnTrack, TypeOK
    <3> QED  BY <2>6, <3>1
             DEF OnTrack, TypeOK, sessionVars, timerVars, nodeVars, readerVars, outboundVars,
                 demandVars
  <2>7. CASE Register
    <3>1. event \in Readers
      BY <2>7 DEF Register, TypeOK
    <3>2. /\ reader' \in [Tracks -> Readers \cup {Nothing}]
          /\ open' \subseteq Readers
      <4>1. reader' = [reader EXCEPT ![track[event]] = event] /\ open' \subseteq open \cup {event}
        BY <2>7 DEF Register
      <4>2. reader \in [Tracks -> Readers \cup {Nothing}] /\ open \subseteq Readers
        BY DEF TypeOK
      <4> QED  BY <3>1, <4>1, <4>2
    <3>3. rpc' \in [Readers -> {"none", "start", "read", "frame", "publish", "ended"}]
      BY <2>7, <3>1 DEF Register, TypeOK
    <3>4. /\ epc' = "idle" /\ lock' = "free"
          /\ UNCHANGED <<sdkVars, subscribers, sessionVars, ejoin, event, timerVars, nodeVars,
                         stop, outboundVars, demandVars>>
      BY <2>7 DEF Register, HandlerReturns, sdkVars
    <3> QED  BY <3>2, <3>3, <3>4 DEF TypeOK, sdkVars, sessionVars, timerVars, nodeVars,
                                     outboundVars, demandVars
  <2>8. CASE AlreadyRegistered \/ NotRegistered \/ UnregisterJoins
    <3>1. /\ epc' = "idle" /\ lock' = "free"
          /\ UNCHANGED <<sdkVars, subscribers, sessionVars, ejoin, event, timerVars, nodeVars,
                         reader, readerVars, outboundVars, demandVars>>
      BY <2>8 DEF AlreadyRegistered, NotRegistered, UnregisterJoins, HandlerReturns, sdkVars
    <3> QED  BY <3>1 DEF TypeOK, sdkVars, sessionVars, timerVars, nodeVars, readerVars,
                         outboundVars, demandVars
  <2>16. CASE NotRepublished
    <3>1. remote' \subseteq Tracks
      BY <2>16 DEF NotRepublished, TypeOK
    <3> QED  BY <2>16, <3>1
             DEF NotRepublished, HandlerReturns, TypeOK, sessionVars, timerVars, nodeVars,
                 readerVars, outboundVars, demandVars
  <2>9. CASE Unregister
    <3>1. reader[event] \in Readers /\ event \in Tracks
      BY <2>9 DEF Unregister, TypeOK
    <3>2. /\ reader' \in [Tracks -> Readers \cup {Nothing}]
          /\ stop' \subseteq Readers /\ open' \subseteq Readers
      BY <2>9, <3>1 DEF Unregister, TakeDown, TypeOK
    <3>3. /\ ejoin' = reader[event] /\ epc' = "join"
          /\ UNCHANGED <<sdkVars, subscribers, sessionVars, lock, event, timerVars, nodeVars, rpc,
                         outboundVars, demandVars>>
      BY <2>9 DEF Unregister
    <3> QED  BY <3>1, <3>2, <3>3 DEF TypeOK, sdkVars, sessionVars, timerVars, nodeVars,
                                     outboundVars, demandVars
  <2>10. CASE TimerClaimsEnded \/ TimerCleanup \/ DestructorJoins
    <3>1. /\ tpc' \in {"cleanup", "prepare", "stop"} /\ resume' \in {"prepare", resume}
          /\ lock' \in {"timer", lock}
      BY <2>10 DEF TimerClaimsEnded, TimerCleanup, DestructorJoins
    <3>2. UNCHANGED ended \/ ended' = FALSE
      BY <2>10, Zenon DEF TimerClaimsEnded, TimerCleanup, DestructorJoins, sessionVars
    <3>3. UNCHANGED <<sdkVars, subscribers, room, session, eventVars, tjoin, nodeVars, reader,
                      readerVars, outboundVars, demandVars>>
      BY <2>10 DEF TimerClaimsEnded, TimerCleanup, DestructorJoins, sessionVars
    <3>4. ended' \in BOOLEAN
      BY <3>2 DEF TypeOK
    <3> QED  BY <3>1, <3>3, <3>4 DEF TypeOK, sdkVars, eventVars, nodeVars, readerVars,
                                     outboundVars, demandVars
  <2>19. CASE TimerPrepare
    BY <2>19 DEF TimerPrepare, TypeOK, sdkVars, sessionVars, eventVars, readerVars, outboundVars,
                 demandVars
  <2>17. CASE ComponentsStopped \/ TimerStarts
    <3>1. UNCHANGED <<sdkVars, subscribers, sessionVars, eventVars, tjoin, reader, readerVars,
                      taken, echoed, demandVars>>
      BY <2>17 DEF ComponentsStopped, TimerStarts, outboundVars
    <3>2. /\ tpc' \in {"idle", "stop", "prepare"} /\ resume' \in {"idle", "prepare"}
          /\ lock' \in {"free", "events", "timer"}
          /\ samples' \subseteq Readers
      BY <2>17 DEF ComponentsStopped, TimerStarts, outboundVars, TypeOK
    <3>3. forwarder' \in BOOLEAN /\ started' \in BOOLEAN
      BY <2>17 DEF ComponentsStopped, TimerStarts, TypeOK, nodeVars
    <3> QED  BY <3>1, <3>2, <3>3 DEF TypeOK, sdkVars, sessionVars, eventVars, readerVars,
                                     demandVars
  <2>18. CASE TimerPoll
    <3>1. session' \in 0..MaxSessions /\ room' \in {"up", "over", "down"}
      BY <2>18 DEF TimerPoll, TypeOK
    <3> QED  BY <2>18, <3>1
             DEF TimerPoll, TypeOK, sdkVars, eventVars, nodeVars, readerVars, outboundVars,
                 demandVars
  <2>11. CASE DestructorStops
    <3>1. PICK t \in Tracks : reader[t] # Nothing /\ TakeDown(t) /\ tjoin' = reader[t]
      BY <2>11 DEF DestructorStops
    <3>2. reader[t] \in Readers
      BY <3>1 DEF TypeOK
    <3>3. reader' \in [Tracks -> Readers \cup {Nothing}] /\ tjoin' \in Readers
      BY <3>1, <3>2 DEF TakeDown, TypeOK
    <3>4. stop' \subseteq Readers /\ open' \subseteq Readers
      BY <3>1, <3>2 DEF TakeDown, TypeOK
    <3> QED  BY <2>11, <3>3, <3>4
             DEF DestructorStops, TypeOK, sdkVars, sessionVars, eventVars, nodeVars,
                 outboundVars, demandVars
  <2>12. ASSUME NEW n \in Readers, ReaderReads(n) \/ ReaderStep(n) PROVE TypeOK'
    <3>1. rpc' \in [Readers -> {"none", "start", "read", "frame", "publish", "ended"}]
      BY <2>12 DEF ReaderReads, ReaderStep, ReaderStarts, ReaderEnds, ReaderGivesUp, ReaderChecks,
                   ReaderPublishes, ReaderOnly, TypeOK
    <3>2. samples' \subseteq Readers
      BY <2>12 DEF ReaderReads, ReaderStep, ReaderStarts, ReaderEnds, ReaderGivesUp, ReaderChecks,
                   ReaderPublishes, TypeOK
    <3>3. UNCHANGED <<sdkVars, subscribers, sessionVars, lock, eventVars, timerVars, nodeVars,
                      reader, stop, open, taken, echoed, demandVars>>
      BY <2>12 DEF ReaderReads, ReaderStep, ReaderStarts, ReaderEnds, ReaderGivesUp, ReaderChecks,
                   ReaderPublishes, ReaderOnly
    <3> QED  BY <3>1, <3>2, <3>3
             DEF TypeOK, sdkVars, sessionVars, eventVars, timerVars, nodeVars, demandVars
  <2>13. CASE OutboundTakes \/ OutboundChecks
    <3>1. /\ samples' \subseteq Readers /\ taken' \in Readers \cup {Nothing}
          /\ echoed' \subseteq Readers
      BY <2>13 DEF OutboundTakes, OutboundChecks, TypeOK
    <3>2. OutboundOnly
      BY <2>13 DEF OutboundTakes, OutboundChecks
    <3> QED  BY <3>1, <3>2
             DEF OutboundOnly, TypeOK, sdkVars, sessionVars, eventVars, timerVars, nodeVars,
                 readerVars, demandVars
  <2>14. ASSUME NEW d \in DemandTimers, DemandStep(d) PROVE TypeOK'
    <3>1. paused' \subseteq Readers
      BY <2>14 DEF DemandStep, DemandSnapshot, DemandReads, DemandApplies, DemandFails, TypeOK
    <3> DEFINE Call == [todo: SUBSET Readers, current: Readers \cup {Nothing}, wanted: BOOLEAN]
    <3>2. demand[d] \in Call
      BY DEF TypeOK
    <3>3. \E c \in Call : demand' = [demand EXCEPT ![d] = c]
      <4>1. CASE DemandSnapshot(d)
        <5> DEFINE tracks == {reader[v] : v \in Video} \ {Nothing}
        <5>1. tracks \subseteq Readers
          BY DEF TypeOK, Tracks
        <5>2. demand' = [demand EXCEPT ![d] = [demand[d] EXCEPT !.todo = tracks]]
          BY <4>1 DEF DemandSnapshot
        <5> QED  BY <5>1, <5>2, <3>2
      <4>2. CASE DemandReads(d)
        <5>1. PICK n \in demand[d].todo :
                demand' = [demand EXCEPT ![d] = [todo |-> demand[d].todo \ {n}, current |-> n,
                                                 wanted |-> track[n] \in subscribers]]
          BY <4>2 DEF DemandReads, TypeOK
        <5>2. [todo |-> demand[d].todo \ {n}, current |-> n,
               wanted |-> track[n] \in subscribers] \in Call
          BY <3>2
        <5> QED  BY <5>1, <5>2
      <4>3. CASE DemandApplies(d) \/ DemandFails(d)
        <5>1. demand' = [demand EXCEPT ![d] = [demand[d] EXCEPT !.current = Nothing,
                                                                !.wanted = FALSE]]
          BY <4>3 DEF DemandApplies, DemandFails, DemandDone, TypeOK
        <5> QED  BY <5>1, <3>2
      <4> QED  BY <2>14, <4>1, <4>2, <4>3 DEF DemandStep
    <3>4. demand' \in [DemandTimers -> Call]
      BY <3>3 DEF TypeOK
    <3> QED  BY <2>14, <3>1, <3>4
             DEF DemandStep, DemandSnapshot, DemandReads, DemandApplies, DemandFails, DemandOnly,
                 TypeOK, sdkVars, sessionVars, eventVars, timerVars, nodeVars, readerVars,
                 outboundVars
  <2>15. CASE UNCHANGED vars
    BY <2>15 DEF vars, TypeOK, sdkVars, sessionVars, eventVars, timerVars, nodeVars, readerVars,
                 outboundVars, demandVars
  <2> QED  BY <2>1, <2>2, <2>3, <2>4, <2>5, <2>6, <2>7, <2>8, <2>9, <2>10, <2>11, <2>12, <2>13,
              <2>14, <2>15, <2>16, <2>17, <2>18, <2>19 DEF Next, EventStep, TimerStep
<1> QED  BY <1>1, <1>2, PTL DEF Spec

-----------------------------------------------------------------------------
(* The variables that the parts of the invariant speak of.                 *)
queueVars == <<events, sent, rpc, epc, event>>
joinVars == <<lock, epc, ejoin, tpc, tjoin, stop, sent, track, reader, forwarder>>
mapVars == <<rpc, epc, ejoin, tpc, tjoin, stop, sent, track, reader, forwarder>>
echoVars == <<samples, echoed, taken, rpc, reader>>

LEMMA QueueFrame == QueueInv /\ UNCHANGED queueVars => QueueInv'
BY DEF QueueInv, queueVars, Waiting

LEMMA JoinFrame == JoinInv /\ UNCHANGED joinVars => JoinInv'
BY DEF JoinInv, joinVars, Joining

LEMMA MapFrame == MapInv /\ UNCHANGED mapVars => MapInv'
BY DEF MapInv, mapVars, Joining, Running

LEMMA EchoFrame == EchoInv /\ UNCHANGED echoVars => EchoInv'
BY DEF EchoInv, echoVars, NoEchoWhileRegistered, Registered

(* A reader that has been started, or runs, is one of a sent publication.  *)
LEMMA StartedIsSent ==
  ASSUME TypeOK, QueueInv, NEW n \in Readers, rpc[n] # "none"
  PROVE  n \in 1..sent /\ track[n] \in Tracks
BY BoundsAssumption DEF TypeOK, QueueInv, Readers

(* One step: what the room does.                                           *)
LEMMA RoomStep ==
  ASSUME IInv, TypeOK',
         \/ \E t \in Tracks : SdkPublishes(t) \/ SdkUnpublishes(t)
         \/ SdkEndsSession
         \/ \E v \in Video : SubscribersChange(v)
  PROVE  IInv'
<1> USE EventKinds, BoundsAssumption DEF IInv
<1>1. ASSUME NEW t \in Tracks, SdkPublishes(t) PROVE IInv'
  <2> DEFINE e == sent + 1
  <2>1. e \in Readers /\ e \in Events /\ sent \in Nat /\ Deliver(e) /\ sent' = e
    BY <1>1 DEF SdkPublishes, TypeOK, Readers, Events
  <2>2. /\ Len(events') = Len(events) + 1 /\ Len(events) \in Nat
        /\ \A i \in 1..Len(events) : events'[i] = events[i]
        /\ events'[Len(events) + 1] = e
    BY <2>1, DeliverQueues
  <2>3. \A n \in 1..sent : track'[n] = track[n]
    <3>1. track \in Seq(Tracks) /\ Len(track) = sent /\ track' = Append(track, t)
      BY <1>1, <2>1 DEF TypeOK, SdkPublishes
    <3> QED  BY <3>1, AppendProperties
  <2>4. UNCHANGED <<rpc, epc, event, lock, ejoin, tpc, tjoin, stop, reader, forwarder, samples,
                    echoed, taken>>
    BY <1>1 DEF SdkPublishes, eventVars, timerVars, nodeVars, readerVars, outboundVars
  <2>5. QueueInv'
    <3>1. rpc[e] = "none" /\ \A i \in 1..Len(events) : events[i] # e
      BY <2>1 DEF QueueInv, Waiting
    <3>2. \A i \in 1..Len(events') : i \in 1..Len(events) \/ i = Len(events) + 1
      BY <2>2
    <3>3. \A i \in 1..Len(events') : events'[i] \in Readers =>
                                    events'[i] <= sent' /\ rpc'[events'[i]] = "none"
      BY <2>1, <2>2, <2>4, <3>1, <3>2 DEF QueueInv, Waiting, Readers
    <3>4. \A i, j \in 1..Len(events') : events'[i] \in Readers /\ events'[i] = events'[j] => i = j
      BY <2>2, <3>1, <3>2 DEF QueueInv
    <3>5. ASSUME epc' = "handle", event' \in Readers
          PROVE  /\ event' <= sent' /\ rpc'[event'] = "none"
                 /\ \A i \in 1..Len(events') : events'[i] # event'
      <4>1. event <= sent /\ rpc[event] = "none" /\ \A i \in 1..Len(events) : events[i] # event
        BY <3>5, <2>4 DEF QueueInv, Waiting
      <4>2. event <= e /\ event # e
        BY <4>1, <3>5, <2>1, <2>4 DEF Readers
      <4> QED  BY <4>1, <4>2, <2>1, <2>2, <2>4, <3>2
    <3>6. \A n \in Readers : n > sent' => rpc'[n] = "none"
      BY <2>1, <2>4 DEF QueueInv, Readers
    <3> QED  BY <3>3, <3>4, <3>5, <3>6 DEF QueueInv, Waiting
  <2>6. JoinInv'
    BY <2>1, <2>3, <2>4 DEF JoinInv, Joining
  <2>7. MapInv'
    <3>1. \A n \in Readers : rpc[n] # "none" => track'[n] = track[n]
      BY <2>3, StartedIsSent
    <3>2. \A s \in Tracks : reader[s] # Nothing => reader[s] \in Readers
      BY DEF TypeOK
    <3>3. ASSUME NEW s \in Tracks, reader'[s] # Nothing
          PROVE  /\ reader'[s] <= sent' /\ track'[reader'[s]] = s
                 /\ reader'[s] \notin stop' /\ rpc'[reader'[s]] # "none"
                 /\ forwarder'
      <4>1. reader[s] \in Readers /\ reader[s] <= sent
        BY <3>2, <3>3, <2>4 DEF MapInv
      <4> QED  BY <4>1, <3>1, <3>3, <2>1, <2>4 DEF MapInv, Readers
    <3>4. \A n \in stop' : n <= sent' /\ rpc'[n] # "none"
      BY <2>1, <2>4 DEF MapInv, TypeOK, Readers
    <3>5. \A n \in Readers : Running(n)' => reader'[track'[n]] = n \/ Joining(n)'
      BY <2>4, <3>1 DEF MapInv, Running, Joining
    <3> QED  BY <3>3, <3>4, <3>5 DEF MapInv
  <2>8. EchoInv'
    BY <2>4, EchoFrame DEF echoVars
  <2> QED  BY <2>5, <2>6, <2>7, <2>8
<1>2. CASE SdkEndsSession \/ \E t \in Tracks : SdkUnpublishes(t)
  <2>1. PICK e \in Tracks \cup {Eos} : Deliver(e)
    BY <1>2 DEF SdkEndsSession, SdkUnpublishes
  <2>2. /\ Len(events') = Len(events) + 1 /\ Len(events) \in Nat
        /\ \A i \in 1..Len(events) : events'[i] = events[i]
        /\ events'[Len(events) + 1] = e /\ e \notin Readers
    BY <2>1, DeliverQueues DEF Events, Eos
  <2>3. UNCHANGED <<sent, track, rpc, epc, event, lock, ejoin, tpc, tjoin, stop, reader,
                    forwarder, samples, echoed, taken>>
    BY <1>2 DEF SdkEndsSession, SdkUnpublishes, eventVars, timerVars, nodeVars, outboundVars
  <2>4. QueueInv'
    <3>1. \A i \in 1..Len(events') : i \in 1..Len(events) \/ i = Len(events) + 1
      BY <2>2
    <3> QED  BY <2>2, <2>3, <3>1 DEF QueueInv, Waiting
  <2> QED  BY <2>3, <2>4, JoinFrame, MapFrame, EchoFrame DEF joinVars, mapVars, echoVars
<1>3. ASSUME NEW v \in Video, SubscribersChange(v) PROVE IInv'
  <2>1. UNCHANGED <<queueVars, joinVars, mapVars, echoVars>>
    BY <1>3 DEF SubscribersChange, sdkVars, eventVars, timerVars, nodeVars, readerVars,
                outboundVars, queueVars, joinVars, mapVars, echoVars
  <2> QED  BY <2>1, QueueFrame, JoinFrame, MapFrame, EchoFrame
<1> QED  BY <1>1, <1>2, <1>3

(* One step: what the event thread does.                                   *)
LEMMA EventThreadStep ==
  ASSUME IInv, TypeOK', EventStep
  PROVE  IInv'
<1> USE EventKinds, BoundsAssumption DEF IInv
<1>1. CASE OnRoomEos
  <2>1. /\ Len(events) \in Nat /\ Len(events') = Len(events) - 1
        /\ \A i \in 1..Len(events') : events'[i] = events[i + 1]
    BY <1>1, HeadIsTaken DEF OnRoomEos
  <2>2. UNCHANGED <<sent, track, rpc, epc, event, lock, ejoin, tpc, tjoin, stop, reader,
                    forwarder, samples, echoed, taken>>
    BY <1>1 DEF OnRoomEos, eventVars, timerVars, nodeVars, readerVars, outboundVars
  <2>3. QueueInv'
    <3>1. \A i \in 1..Len(events') : i + 1 \in 1..Len(events)
      BY <2>1
    <3> QED  BY <2>1, <2>2, <3>1 DEF QueueInv, Waiting
  <2> QED  BY <2>2, <2>3, JoinFrame, MapFrame, EchoFrame DEF joinVars, mapVars, echoVars
<1>2. CASE OnTrack
  <2>1. /\ event' = events[1] /\ Len(events) \in Nat \ {0} /\ Len(events') = Len(events) - 1
        /\ \A i \in 1..Len(events') : events'[i] = events[i + 1]
    BY <1>2, HeadIsTaken DEF OnTrack
  <2>2. /\ epc = "idle" /\ epc' = "handle" /\ lock = "free" /\ lock' = "events"
        /\ UNCHANGED <<sent, track, rpc, ejoin, tpc, tjoin, stop, reader, forwarder, samples,
                       echoed, taken>>
    BY <1>2 DEF OnTrack, timerVars, nodeVars, readerVars, outboundVars
  <2>3. QueueInv'
    <3>1. \A i \in 1..Len(events') : i + 1 \in 1..Len(events) /\ i + 1 # 1
      BY <2>1
    <3>2. 1 \in 1..Len(events)
      BY <2>1
    <3> QED  BY <2>1, <2>2, <3>1, <3>2 DEF QueueInv, Waiting
  <2>4. JoinInv'
    BY <2>2 DEF JoinInv, Joining
  <2>5. MapInv'
    BY <2>2 DEF MapInv, Running, Joining
  <2> QED  BY <2>2, <2>3, <2>4, <2>5, EchoFrame DEF echoVars
<1>3. CASE Register
  <2> DEFINE t == track[event]
  <2>1. /\ epc = "handle" /\ epc' = "idle" /\ lock' = "free" /\ event \in Readers
        /\ forwarder /\ reader[t] = Nothing
        /\ reader' = [reader EXCEPT ![t] = event]
        /\ rpc' = [rpc EXCEPT ![event] = "start"]
        /\ UNCHANGED <<sent, track, events, event, ejoin, tpc, tjoin, stop, forwarder, samples,
                       echoed, taken>>
    BY <1>3 DEF Register, HandlerReturns, timerVars, nodeVars, outboundVars
  <2>2. /\ event \in 1..sent /\ t \in Tracks /\ rpc[event] = "none"
        /\ event \notin stop /\ sent \in Nat
        /\ \A i \in 1..Len(events) : events[i] # event
    BY <2>1 DEF QueueInv, Waiting, MapInv, TypeOK, Readers
  <2>3. /\ \A n \in Readers : n # event => rpc'[n] = rpc[n]
        /\ rpc'[event] = "start"
        /\ \A s \in Tracks : s # t => reader'[s] = reader[s]
        /\ reader'[t] = event
    BY <2>1, <2>2 DEF TypeOK
  <2>4. lock = "events" /\ \A n : ~Joining(n) /\ ~Joining(n)'
    BY <2>1 DEF JoinInv, Joining
  <2>5. QueueInv'
    BY <2>1, <2>2, <2>3 DEF QueueInv, Waiting, Readers
  <2>6. JoinInv'
    BY <2>1, <2>4 DEF JoinInv
  <2>7. MapInv'
    <3>1. ASSUME NEW s \in Tracks, reader'[s] # Nothing
          PROVE  /\ reader'[s] <= sent' /\ track'[reader'[s]] = s
                 /\ reader'[s] \notin stop' /\ rpc'[reader'[s]] # "none"
                 /\ forwarder'
      <4>1. CASE s = t
        BY <4>1, <2>1, <2>2, <2>3
      <4>2. CASE s # t
        BY <4>2, <3>1, <2>1, <2>2, <2>3 DEF MapInv, TypeOK
      <4> QED  BY <4>1, <4>2
    <3>2. \A n \in stop' : n <= sent' /\ rpc'[n] # "none"
      BY <2>1, <2>2, <2>3 DEF MapInv, TypeOK
    <3>3. ASSUME NEW n \in Readers, Running(n)' PROVE reader'[track'[n]] = n
      <4>1. CASE n = event
        BY <4>1, <2>1, <2>2, <2>3
      <4>2. CASE n # event
        <5>1. Running(n) /\ reader[track[n]] = n
          BY <4>2, <3>3, <2>3, <2>4 DEF MapInv, Running
        <5>2. track[n] \in Tracks /\ track[n] # t
          BY <5>1, <2>1, StartedIsSent DEF Running
        <5> QED  BY <5>1, <5>2, <2>1, <2>3
      <4> QED  BY <4>1, <4>2
    <3> QED  BY <3>1, <3>2, <3>3 DEF MapInv
  <2>8. EchoInv'
    <3>1. event \notin echoed /\ event # Nothing
      BY <2>1, <2>2 DEF EchoInv
    <3>2. Registered' \subseteq Registered \cup {event}
      BY <2>3, <2>2 DEF Registered
    <3>3. echoed' \cap Registered' = {}
      BY <2>1, <3>1, <3>2 DEF EchoInv, NoEchoWhileRegistered
    <3>4. \A n \in samples \cup echoed \cup ({taken} \ {Nothing}) : n \in Readers
      BY DEF TypeOK
    <3>5. \A n \in samples' \cup echoed' \cup ({taken'} \ {Nothing}) : rpc'[n] # "none"
      BY <2>1, <2>3, <3>4 DEF EchoInv
    <3> QED  BY <3>3, <3>5 DEF EchoInv, NoEchoWhileRegistered
  <2> QED  BY <2>5, <2>6, <2>7, <2>8
<1>4. CASE AlreadyRegistered \/ NotRepublished \/ NotRegistered \/ UnregisterJoins
  <2>1. /\ epc \in {"handle", "join"} /\ epc' = "idle" /\ lock' = "free"
        /\ epc = "join" => ~Running(ejoin)
        /\ UNCHANGED <<sent, track, events, event, ejoin, tpc, tjoin, reader, rpc, stop,
                       forwarder, samples, echoed, taken>>
    BY <1>4 DEF AlreadyRegistered, NotRepublished, NotRegistered, UnregisterJoins, HandlerReturns,
                timerVars, nodeVars, readerVars, outboundVars
  <2>2. QueueInv'
    BY <2>1 DEF QueueInv, Waiting
  <2>3. JoinInv'
    BY <2>1 DEF JoinInv, Joining
  <2>4. MapInv'
    BY <2>1 DEF MapInv, Running, Joining
  <2> QED  BY <2>1, <2>2, <2>3, <2>4, EchoFrame DEF echoVars
<1>5. CASE Unregister
  <2>1. /\ epc = "handle" /\ epc' = "join" /\ forwarder
        /\ event \in Tracks /\ reader[event] # Nothing /\ ejoin' = reader[event]
        /\ TakeDown(event)
        /\ UNCHANGED <<sent, track, events, event, lock, tpc, tjoin, rpc, forwarder, samples,
                       echoed, taken>>
    BY <1>5 DEF Unregister, sdkVars, timerVars, nodeVars, outboundVars
  <2>2. QueueInv'
    BY <2>1 DEF QueueInv, Waiting
  <2>3. ejoin' \in Readers /\ ejoin' \in 1..sent /\ track[ejoin'] = event /\ rpc[ejoin'] # "none"
    BY <2>1 DEF MapInv, TypeOK, Readers
  <2>4. lock = "events" /\ tpc # "join" /\ \A n : ~Joining(n) /\ (Joining(n)' <=> n = ejoin')
    BY <2>1 DEF JoinInv, Joining
  <2>5. /\ reader'[event] = Nothing
        /\ \A s \in Tracks : s # event => reader'[s] = reader[s]
        /\ stop' = stop \cup {ejoin'}
    BY <2>1 DEF TakeDown, TypeOK
  <2>6. JoinInv'
    BY <2>1, <2>3, <2>4, <2>5 DEF JoinInv
  <2>7. MapInv'
    <3>1. ASSUME NEW s \in Tracks, reader'[s] # Nothing
          PROVE  /\ reader'[s] <= sent' /\ track'[reader'[s]] = s
                 /\ reader'[s] \notin stop' /\ rpc'[reader'[s]] # "none"
                 /\ forwarder'
      <4>1. s # event /\ reader'[s] = reader[s]
        BY <3>1, <2>5
      <4> QED  BY <4>1, <3>1, <2>1, <2>3, <2>5 DEF MapInv
    <3>2. \A n \in stop' : n <= sent' /\ rpc'[n] # "none"
      BY <2>1, <2>3, <2>5 DEF MapInv
    <3>3. ASSUME NEW n \in Readers, Running(n)' PROVE reader'[track'[n]] = n \/ Joining(n)'
      <4>1. Running(n) /\ reader[track[n]] = n /\ track[n] \in Tracks
        BY <3>3, <2>1, <2>4, StartedIsSent DEF MapInv, Running
      <4> QED  BY <4>1, <2>1, <2>4, <2>5
    <3> QED  BY <3>1, <3>2, <3>3 DEF MapInv
  <2>8. EchoInv'
    <3>1. Registered' \subseteq Registered
      BY <2>1, <2>5 DEF Registered
    <3> QED  BY <2>1, <3>1 DEF EchoInv, NoEchoWhileRegistered
  <2> QED  BY <2>2, <2>6, <2>7, <2>8
<1> QED  BY <1>1, <1>2, <1>3, <1>4, <1>5 DEF EventStep

(* One step: what the connection timer does.                               *)
LEMMA ConnectionTimerStep ==
  ASSUME IInv, TypeOK', TimerStep
  PROVE  IInv'
<1> USE EventKinds, BoundsAssumption DEF IInv
<1>1. CASE TimerClaimsEnded \/ TimerCleanup \/ DestructorJoins \/ TimerPrepare \/ TimerPoll
           \/ TimerStarts
  <2>1. /\ UNCHANGED <<sent, track, events, epc, event, ejoin, tjoin, reader, rpc, stop, samples,
                       echoed, taken>>
        /\ forwarder => forwarder'
        /\ \/ tpc' \notin {"stop", "join"} /\ tpc \notin {"stop", "join"} /\ lock' = lock
           \/ tpc' = "stop" /\ tpc # "join" /\ lock = "free" /\ lock' = "timer"
           \/ tpc' = "stop" /\ tpc = "join" /\ lock' = lock /\ ~Running(tjoin)
    <3>1. CASE TimerClaimsEnded \/ TimerCleanup \/ DestructorJoins
      BY <3>1 DEF TimerClaimsEnded, TimerCleanup, DestructorJoins, sdkVars, eventVars, nodeVars,
                  readerVars, outboundVars, TypeOK
    <3>2. CASE TimerPrepare \/ TimerPoll
      BY <3>2 DEF TimerPrepare, TimerPoll, sdkVars, eventVars, nodeVars, readerVars, outboundVars,
                  TypeOK
    <3>3. CASE TimerStarts
      BY <3>3 DEF TimerStarts, sdkVars, eventVars, nodeVars, readerVars, outboundVars, TypeOK
    <3> QED  BY <1>1, <3>1, <3>2, <3>3
  <2>2. JoinInv'
    BY <2>1 DEF JoinInv, Joining, TypeOK
  <2>3. MapInv'
    BY <2>1 DEF MapInv, Running, Joining, TypeOK
  <2> QED  BY <2>1, <2>2, <2>3, QueueFrame, EchoFrame DEF queueVars, echoVars
<1>2. CASE DestructorStops
  <2>1. PICK t \in Tracks : reader[t] # Nothing /\ TakeDown(t) /\ tjoin' = reader[t]
    BY <1>2 DEF DestructorStops
  <2>2. /\ tpc = "stop" /\ tpc' = "join" /\ forwarder
        /\ UNCHANGED <<sent, track, events, epc, event, ejoin, lock, rpc, forwarder, samples,
                       echoed, taken>>
    BY <1>2 DEF DestructorStops, sdkVars, eventVars, nodeVars, outboundVars
  <2>3. tjoin' \in Readers /\ tjoin' \in 1..sent /\ track[tjoin'] = t /\ rpc[tjoin'] # "none"
    BY <2>1, <2>2 DEF MapInv, TypeOK, Readers
  <2>4. lock = "timer" /\ epc # "join" /\ \A n : ~Joining(n) /\ (Joining(n)' <=> n = tjoin')
    BY <2>2 DEF JoinInv, Joining
  <2>5. /\ reader'[t] = Nothing
        /\ \A s \in Tracks : s # t => reader'[s] = reader[s]
        /\ stop' = stop \cup {tjoin'}
    BY <2>1 DEF TakeDown, TypeOK
  <2>6. JoinInv'
    BY <2>2, <2>3, <2>4, <2>5 DEF JoinInv
  <2>7. MapInv'
    <3>1. ASSUME NEW s \in Tracks, reader'[s] # Nothing
          PROVE  /\ reader'[s] <= sent' /\ track'[reader'[s]] = s
                 /\ reader'[s] \notin stop' /\ rpc'[reader'[s]] # "none"
                 /\ forwarder'
      <4>1. s # t /\ reader'[s] = reader[s]
        BY <3>1, <2>5
      <4> QED  BY <4>1, <3>1, <2>2, <2>3, <2>5 DEF MapInv
    <3>2. \A n \in stop' : n <= sent' /\ rpc'[n] # "none"
      BY <2>2, <2>3, <2>5 DEF MapInv
    <3>3. ASSUME NEW n \in Readers, Running(n)' PROVE reader'[track'[n]] = n \/ Joining(n)'
      <4>1. Running(n) /\ reader[track[n]] = n /\ track[n] \in Tracks
        BY <3>3, <2>2, <2>4, StartedIsSent DEF MapInv, Running
      <4> QED  BY <4>1, <2>1, <2>2, <2>4, <2>5
    <3> QED  BY <3>1, <3>2, <3>3 DEF MapInv
  <2>8. EchoInv'
    <3>1. Registered' \subseteq Registered
      BY <2>1, <2>5 DEF Registered
    <3> QED  BY <2>2, <3>1 DEF EchoInv, NoEchoWhileRegistered
  <2> QED  BY <2>2, <2>6, <2>7, <2>8, QueueFrame DEF queueVars
<1>3. CASE ComponentsStopped
  <2>1. /\ tpc = "stop" /\ tpc' \notin {"stop", "join"} /\ lock' = "free"
        /\ ~forwarder \/ Registered = {}
        /\ UNCHANGED <<sent, track, events, epc, event, ejoin, tjoin, reader, rpc, stop, taken,
                       echoed>>
        /\ samples' = {}
    BY <1>3 DEF ComponentsStopped, sdkVars, eventVars, readerVars, TypeOK
  <2>2. lock = "timer" /\ \A n : ~Joining(n) /\ ~Joining(n)'
    BY <2>1 DEF JoinInv, Joining
  <2>3. \A t \in Tracks : reader[t] = Nothing
    BY <2>1 DEF MapInv, Registered
  <2>4. JoinInv'
    BY <2>1, <2>2 DEF JoinInv
  <2>5. MapInv'
    BY <2>1, <2>2, <2>3 DEF MapInv, Running
  <2>6. EchoInv'
    BY <2>1 DEF EchoInv, NoEchoWhileRegistered, Registered
  <2> QED  BY <2>1, <2>4, <2>5, <2>6, QueueFrame DEF queueVars
<1> QED  BY <1>1, <1>2, <1>3 DEF TimerStep

(* One step: what the readers, the subscription and the demand timer do.   *)
LEMMA DataStep ==
  ASSUME IInv, TypeOK',
         \/ \E n \in Readers : ReaderReads(n) \/ ReaderStep(n)
         \/ OutboundTakes \/ OutboundChecks
         \/ \E d \in DemandTimers : DemandStep(d)
  PROVE  IInv'
<1> USE EventKinds, BoundsAssumption DEF IInv
<1>1. ASSUME NEW n \in Readers, ReaderReads(n) \/ ReaderStep(n) PROVE IInv'
  <2>1. /\ Running(n) /\ rpc' = [rpc EXCEPT ![n] = rpc'[n]] /\ rpc'[n] # "none"
        /\ samples' \subseteq samples \cup {n}
        /\ UNCHANGED <<sent, track, events, epc, event, ejoin, lock, tpc, tjoin, forwarder, reader,
                       stop, echoed, taken>>
    <3>1. PICK from, to : ReaderOnly(n, from, to) /\ from \notin {"none", "ended"} /\ to # "none"
      BY <1>1 DEF ReaderReads, ReaderStep, ReaderStarts, ReaderEnds, ReaderGivesUp, ReaderChecks,
                  ReaderPublishes
    <3>2. samples' \subseteq samples \cup {n}
      BY <1>1 DEF ReaderReads, ReaderStep, ReaderStarts, ReaderEnds, ReaderGivesUp, ReaderChecks,
                  ReaderPublishes
    <3> QED  BY <3>1, <3>2
             DEF ReaderOnly, Running, sdkVars, eventVars, timerVars, nodeVars, demandVars, TypeOK
  <2>2. /\ \A m \in Readers : rpc'[m] = "none" <=> rpc[m] = "none"
        /\ \A m \in Readers : Running(m)' => Running(m)
    BY <2>1 DEF Running, TypeOK
  <2>3. QueueInv'
    BY <2>1, <2>2 DEF QueueInv, Waiting, TypeOK
  <2>4. MapInv'
    BY <2>1, <2>2 DEF MapInv, Joining, TypeOK
  <2>5. EchoInv'
    <3>1. \A m \in samples' \cup echoed' \cup ({taken'} \ {Nothing}) :
            m \in Readers /\ (m = n \/ m \in samples \cup echoed \cup ({taken} \ {Nothing}))
      BY <2>1 DEF TypeOK
    <3>2. rpc[n] # "none" /\ Registered' = Registered /\ echoed' = echoed
      BY <2>1 DEF Running, Registered
    <3> QED  BY <2>2, <3>1, <3>2 DEF EchoInv, NoEchoWhileRegistered
  <2> QED  BY <2>1, <2>3, <2>4, <2>5, JoinFrame DEF joinVars
<1>2. CASE OutboundTakes \/ OutboundChecks
  <2>1. UNCHANGED <<queueVars, joinVars, mapVars>>
    BY <1>2 DEF OutboundTakes, OutboundChecks, OutboundOnly, sdkVars, eventVars, timerVars,
                nodeVars, readerVars, queueVars, joinVars, mapVars
  <2>2. EchoInv'
    <3>1. CASE OutboundTakes
      BY <3>1, <2>1 DEF OutboundTakes, EchoInv, NoEchoWhileRegistered, Registered, mapVars
    <3>2. CASE OutboundChecks
      <4>1. /\ taken # Nothing /\ taken' = Nothing /\ samples' = samples
            /\ echoed' \subseteq echoed \cup {taken}
            /\ taken \in echoed' => taken \in echoed \/ taken \notin Registered \/ ~forwarder
        BY <3>2 DEF OutboundChecks
      <4>2. ~forwarder => Registered = {}
        BY DEF MapInv, Registered
      <4>3. Registered' = Registered /\ rpc' = rpc
        BY <2>1 DEF Registered, mapVars
      <4> QED  BY <4>1, <4>2, <4>3 DEF EchoInv, NoEchoWhileRegistered
    <3> QED  BY <1>2, <3>1, <3>2
  <2> QED  BY <2>1, <2>2, QueueFrame, JoinFrame, MapFrame
<1>3. ASSUME NEW d \in DemandTimers, DemandStep(d) PROVE IInv'
  <2>1. DemandOnly
    BY <1>3 DEF DemandStep, DemandSnapshot, DemandReads, DemandApplies, DemandFails
  <2>2. UNCHANGED <<queueVars, joinVars, mapVars, echoVars>>
    BY <2>1 DEF DemandOnly, sdkVars, eventVars, timerVars, nodeVars, readerVars, outboundVars,
                queueVars, joinVars, mapVars, echoVars
  <2> QED  BY <2>2, QueueFrame, JoinFrame, MapFrame, EchoFrame
<1> QED  BY <1>1, <1>2, <1>3

-----------------------------------------------------------------------------
(* The invariant from which the theorems below follow: publications are    *)
(* queued once, a joined reader's track is free, and the map of readers    *)
(* knows every reader that is not being joined.                            *)
THEOREM Invariant == Spec => []IInv
<1>1. Init => QueueInv /\ JoinInv /\ MapInv /\ EchoInv
  <2> SUFFICES ASSUME Init PROVE QueueInv /\ JoinInv /\ MapInv /\ EchoInv
    OBVIOUS
  <2>1. Len(events) = 0 /\ \A i : i \notin 1..Len(events)
    BY EmptySeq DEF Init
  <2>2. QueueInv
    BY <2>1 DEF Init, QueueInv
  <2>3. JoinInv /\ MapInv
    BY DEF Init, JoinInv, MapInv, Joining, Running, Nothing
  <2>4. EchoInv
    BY DEF Init, EchoInv, NoEchoWhileRegistered
  <2> QED  BY <2>2, <2>3, <2>4
<1>2. IInv /\ TypeOK' /\ [Next]_vars => IInv'
  <2> SUFFICES ASSUME IInv, TypeOK', [Next]_vars PROVE IInv'
    OBVIOUS
  <2>1. CASE UNCHANGED vars
    <3>1. UNCHANGED <<queueVars, joinVars, mapVars, echoVars>>
      BY <2>1 DEF vars, sdkVars, eventVars, timerVars, nodeVars, readerVars, outboundVars,
                  queueVars, joinVars, mapVars, echoVars
    <3> QED  BY <3>1, QueueFrame, JoinFrame, MapFrame, EchoFrame DEF IInv
  <2> QED  BY <2>1, RoomStep, EventThreadStep, ConnectionTimerStep, DataStep DEF Next
<1> QED  BY <1>1, <1>2, TypeCorrect, PTL DEF Spec, IInv

(* A track is read by one reader, and the map knows that reader unless it  *)
(* has been asked to stop, however often the SDK announces the track and   *)
(* whichever thread takes it down.                                         *)
THEOREM OneReader == Spec => []OneReaderPerTrack
<1>1. IInv => OneReaderPerTrack
  <2> SUFFICES ASSUME IInv PROVE OneReaderPerTrack
    OBVIOUS
  <2>1. \A n \in 1..sent : n \in Readers /\ track[n] \in Tracks
    BY BoundsAssumption DEF IInv, TypeOK, Readers
  <2>2. ASSUME NEW m \in 1..sent, NEW n \in 1..sent, m # n, Running(m), Running(n)
        PROVE  track[m] # track[n]
    <3>1. ~(Joining(m) /\ Joining(n))
      BY <2>2 DEF IInv, JoinInv, Joining
    <3>2. \A k \in {m, n} : reader[track[k]] = k \/ (Joining(k) /\ reader[track[k]] = Nothing)
      BY <2>1, <2>2 DEF IInv, MapInv, JoinInv
    <3> QED  BY <2>1, <2>2, <3>1, <3>2, EventKinds
  <2>3. ASSUME NEW n \in 1..sent, Running(n), n \notin stop PROVE reader[track[n]] = n
    BY <2>1, <2>3 DEF IInv, MapInv, JoinInv
  <2> QED  BY <2>2, <2>3 DEF OneReaderPerTrack
<1> QED  BY <1>1, Invariant, PTL

(* No reader outlives the forwarder that started it, which it would go on  *)
(* using: ~TopicForwarder() joins every reader the map knows, and a reader *)
(* that the map has forgotten is being joined under the same lock.         *)
THEOREM WithinForwarder == Spec => []ReadersWithinForwarder
<1>1. IInv => ReadersWithinForwarder
  <2> SUFFICES ASSUME IInv, NEW n \in Readers, Running(n) PROVE forwarder
    BY DEF ReadersWithinForwarder
  <2>1. track[n] \in Tracks
    BY StartedIsSent DEF IInv, Running
  <2> QED  BY <2>1, EventKinds DEF IInv, MapInv, JoinInv
<1> QED  BY <1>1, Invariant, PTL

(* A sample of a registered reader is not sent back to the room: who is    *)
(* echoed is not registered then, and is never registered again.           *)
THEOREM NoEchoOfRegistered == Spec => []NoEchoWhileRegistered
<1>1. IInv => NoEchoWhileRegistered
  BY DEF IInv, EchoInv
<1> QED  BY <1>1, Invariant, PTL
==============================================================================
