----------------------------- MODULE InboundTracks -----------------------------
(***************************************************************************)
(* Remote tracks republished on ROS: the inbound half of TopicForwarder    *)
(* with InboundVideoTrack, between                                         *)
(*                                                                         *)
(*   events   the SDK's room event thread: tracks come and go, the session *)
(*            ends; it holds room_components_mutex_ in every track handler *)
(*   timer    RosPortal::pollConnection(): cleans up after a session, which *)
(*            destroys the forwarder, and joins the next                   *)
(*   readers  one thread per registered track                              *)
(*   callback the forwarder's own subscription, which must not send what a *)
(*            reader has published back to the room                        *)
(*   demand   the timer that pauses video nobody listens to                *)
(*                                                                         *)
(* The session is coarse: Disconnected and EOS are one event, and only the *)
(* timer cleans up (GraphDiscovery has the second thread).  Names, schemas *)
(* and payloads are left out: Data and Video match the configuration.      *)
(***************************************************************************)
EXTENDS Naturals, Sequences

CONSTANTS Data, Video,   \* track SIDs
          Deliveries,    \* bound: track-published events in a behaviour
          MaxQueue,      \* bound: events the SDK has queued
          MaxSessions,   \* bound: room sessions joined in a behaviour
          DemandTimers,  \* callbacks of the demand timer that may overlap
          Faults         \* external: what may go wrong

Tracks == Data \cup Video
Readers == 1..Deliveries
Nothing == 0             \* no reader

ASSUME BoundsAssumption ==
    Deliveries \in Nat /\ MaxQueue \in Nat \ {0} /\ MaxSessions \in Nat
ASSUME TracksAssumption == Data \cap Video = {} /\ Tracks \cap Nat = {}
ASSUME FaultsAssumption == Faults \subseteq {"redeliver", "subscribe", "reader", "start", "enable"}

VARIABLES
  remote,       \* external: tracks the room delivers
  events,       \* external: room events not handled yet
  sent,         \* external: track-published events so far
  track,        \* external: the track of each published event, and of its reader
  subscribers,  \* external: video topics with a ROS subscriber
  room,         \* "up", "over" (ended, not yet handled) or "down"
  session,      \* sessions joined so far
  ended,        \* room_session_ended_
  lock,         \* holder of room_components_mutex_
  epc, event, ejoin,   \* event thread: next step, event, reader it joins
  tpc, tjoin, resume,  \* timer: next step, reader it joins, step after a cleanup
  forwarder,    \* topic_forwarder_ exists
  started,      \* room_components_started_
  reader,       \* inbound_data_track_states_ and inbound_video_tracks_
  rpc,          \* what each reader does next
  stop,         \* readers asked to stop
  open,         \* readers whose stream is open
  samples,      \* external: published samples not taken by the subscription
  taken,        \* the sample the subscription's callback handles
  echoed,       \* history: readers with a sample that went back to the room
  paused,       \* paused_
  demand        \* per demand callback: tracks to do, the current one, demand read

sdkVars == <<remote, events, sent, track>>
sessionVars == <<room, session, ended>>
eventVars == <<epc, event, ejoin>>
timerVars == <<tpc, tjoin, resume>>
nodeVars == <<forwarder, started>>
readerVars == <<rpc, stop, open>>
outboundVars == <<samples, taken, echoed>>
demandVars == <<paused, demand>>
vars == <<sdkVars, subscribers, sessionVars, lock, eventVars, timerVars, nodeVars,
          reader, readerVars, outboundVars, demandVars>>

Eos == Nothing
Idle == [todo |-> {}, current |-> Nothing, wanted |-> FALSE]

(* An event is the number of a publication, a track that is gone, or EOS. *)
Events == Readers \cup Tracks \cup {Eos}

TypeOK ==
  /\ remote \subseteq Tracks
  /\ events \in Seq(Events) /\ Len(events) <= MaxQueue
  /\ sent \in 0..Deliveries
  /\ track \in [1..sent -> Tracks]
  /\ subscribers \subseteq Video
  /\ room \in {"up", "over", "down"}
  /\ session \in 0..MaxSessions
  /\ ended \in BOOLEAN
  /\ lock \in {"free", "events", "timer"}
  /\ epc \in {"idle", "handle", "join"}
  /\ event \in Events
  /\ ejoin \in Readers \cup {Nothing}
  /\ tpc \in {"idle", "cleanup", "stop", "join", "prepare", "poll", "start"}
  /\ tjoin \in Readers \cup {Nothing}
  /\ resume \in {"idle", "prepare"}
  /\ forwarder \in BOOLEAN /\ started \in BOOLEAN
  /\ reader \in [Tracks -> Readers \cup {Nothing}]
  /\ rpc \in [Readers -> {"none", "start", "read", "frame", "publish", "ended"}]
  /\ stop \subseteq Readers /\ open \subseteq Readers
  /\ samples \subseteq Readers
  /\ taken \in Readers \cup {Nothing}
  /\ echoed \subseteq Readers
  /\ paused \subseteq Readers
  /\ demand \in [DemandTimers -> [todo: SUBSET Readers, current: Readers \cup {Nothing},
                                  wanted: BOOLEAN]]

(* initialize() has created the forwarder and the connection timer *)
Init ==
  /\ remote = {} /\ events = <<>> /\ sent = 0 /\ track = <<>>
  /\ subscribers \in SUBSET Video
  /\ room = "down" /\ session = 0 /\ ended = FALSE
  /\ lock = "free"
  /\ epc = "idle" /\ event = Eos /\ ejoin = Nothing
  /\ tpc = "idle" /\ tjoin = Nothing /\ resume = "idle"
  /\ forwarder = TRUE /\ started = FALSE
  /\ reader = [t \in Tracks |-> Nothing]
  /\ rpc = [n \in Readers |-> "none"]
  /\ stop = {} /\ open = {}
  /\ samples = {} /\ taken = Nothing /\ echoed = {}
  /\ paused = {}
  /\ demand = [d \in DemandTimers |-> Idle]

Registered == {reader[t] : t \in Tracks} \ {Nothing}
Connected == room # "down"   \* isConnected() and roomOperationsEnabled()
Running(n) == rpc[n] \notin {"none", "ended"}

-----------------------------------------------------------------------------
(* The room and the ROS graph *)

Deliver(e) == Len(events) < MaxQueue /\ events' = Append(events, e)

SdkPublishes(t) ==
  /\ room = "up" /\ sent < Deliveries
  /\ t \in remote => "redeliver" \in Faults
  /\ Deliver(sent + 1)
  /\ sent' = sent + 1
  /\ track' = Append(track, t)
  /\ remote' = remote \cup {t}
  /\ UNCHANGED <<subscribers, sessionVars, lock, eventVars, timerVars, nodeVars, reader,
                 readerVars, outboundVars, demandVars>>

SdkUnpublishes(t) ==
  /\ room = "up" /\ t \in remote
  /\ Deliver(t)
  /\ remote' = remote \ {t}
  /\ open' = {n \in open : track[n] # t}
  /\ UNCHANGED <<sent, track, subscribers, sessionVars, lock, eventVars, timerVars, nodeVars,
                 reader, rpc, stop, outboundVars, demandVars>>

SdkEndsSession ==
  /\ room = "up"
  /\ Deliver(Eos)
  /\ room' = "over"
  /\ remote' = {}
  /\ open' = {}
  /\ UNCHANGED <<sent, track, subscribers, session, ended, lock, eventVars, timerVars, nodeVars,
                 reader, rpc, stop, outboundVars, demandVars>>

SubscribersChange(v) ==
  /\ subscribers' = IF v \in subscribers THEN subscribers \ {v} ELSE subscribers \cup {v}
  /\ UNCHANGED <<sdkVars, sessionVars, lock, eventVars, timerVars, nodeVars, reader, readerVars,
                 outboundVars, demandVars>>

-----------------------------------------------------------------------------
(* The event thread *)

(* mutant: the end of the session does not ask for a cleanup *)
EosForgetsFlag ==
  /\ epc = "idle" /\ events # <<>> /\ Head(events) = Eos
  /\ events' = Tail(events)
  /\ room' = "down"
  /\ UNCHANGED <<remote, sent, track, subscribers, session, ended, lock, eventVars, timerVars,
                 nodeVars, reader, readerVars, outboundVars, demandVars>>

(* onDisconnected() and onRoomEos() *)
OnRoomEos ==
  /\ epc = "idle" /\ events # <<>> /\ Head(events) = Eos
  /\ events' = Tail(events)
  /\ room' = "down"
  /\ ended' = TRUE
  /\ UNCHANGED <<remote, sent, track, subscribers, session, lock, eventVars, timerVars, nodeVars,
                 reader, readerVars, outboundVars, demandVars>>

(* onDataTrackPublished(), onDataTrackUnpublished(), onTrackSubscribed()   *)
(* and onTrackUnsubscribed(): the barrier is open for the events that      *)
(* precede Disconnected, then room_components_mutex_ is taken.             *)
OnTrack ==
  /\ epc = "idle" /\ events # <<>> /\ Head(events) # Eos
  /\ lock = "free"
  /\ lock' = "events"
  /\ event' = Head(events)
  /\ events' = Tail(events)
  /\ epc' = "handle"
  /\ UNCHANGED <<remote, sent, track, subscribers, sessionVars, ejoin, timerVars, nodeVars,
                 reader, readerVars, outboundVars, demandVars>>

HandlerReturns ==
  /\ epc' = "idle" /\ lock' = "free"
  /\ UNCHANGED <<ejoin, event, sent, track, events>>

(* onDataTrackPublished(), onVideoTrackSubscribed(): register, then start  *)
(* the reader.  A track that went away meanwhile has a closed stream.      *)
Register ==
  /\ epc = "handle" /\ event \in Readers
  /\ forwarder /\ reader[track[event]] = Nothing
  /\ reader' = [reader EXCEPT ![track[event]] = event]
  /\ rpc' = [rpc EXCEPT ![event] = "start"]
  /\ open' = IF track[event] \in remote THEN open \cup {event} ELSE open
  /\ HandlerReturns
  /\ UNCHANGED <<remote, subscribers, sessionVars, timerVars, nodeVars, stop, outboundVars,
                 demandVars>>

AlreadyRegistered ==
  /\ epc = "handle" /\ event \in Readers
  /\ forwarder /\ reader[track[event]] # Nothing
  /\ HandlerReturns
  /\ UNCHANGED <<remote, subscribers, sessionVars, timerVars, nodeVars, reader, readerVars,
                 outboundVars, demandVars>>

(* There is no forwarder, or the publisher, the stream or the thread cannot *)
(* be created: nothing stays registered, and unsubscribeUnusedTrack() gives *)
(* a video track back.                                                      *)
NotRepublished ==
  /\ epc = "handle" /\ event \in Readers
  /\ ~forwarder \/ ("subscribe" \in Faults /\ reader[track[event]] = Nothing)
  /\ remote' = remote \ ({track[event]} \cap Video)
  /\ HandlerReturns
  /\ UNCHANGED <<subscribers, sessionVars, timerVars, nodeVars, reader, readerVars,
                 outboundVars, demandVars>>

(* Erase the track, ask its reader to stop and close its stream.            *)
TakeDown(t) ==
  /\ reader' = [reader EXCEPT ![t] = Nothing]
  /\ stop' = stop \cup {reader[t]}
  /\ open' = open \ {reader[t]}

(* onDataTrackUnpublished(), onVideoTrackUnsubscribed() *)
Unregister ==
  /\ epc = "handle" /\ event \in Tracks
  /\ forwarder /\ reader[event] # Nothing
  /\ TakeDown(event)
  /\ ejoin' = reader[event]
  /\ epc' = "join"
  /\ UNCHANGED <<sdkVars, subscribers, sessionVars, lock, event, timerVars, nodeVars, rpc,
                 outboundVars, demandVars>>

NotRegistered ==
  /\ epc = "handle" /\ event \in Tracks
  /\ ~forwarder \/ reader[event] = Nothing
  /\ HandlerReturns
  /\ UNCHANGED <<remote, subscribers, sessionVars, timerVars, nodeVars, reader, readerVars,
                 outboundVars, demandVars>>

(* mutant: nobody waits for the reader *)
UnregisterWithoutJoin ==
  /\ epc = "join"
  /\ HandlerReturns
  /\ UNCHANGED <<remote, subscribers, sessionVars, timerVars, nodeVars, reader, readerVars,
                 outboundVars, demandVars>>

UnregisterJoins ==
  /\ epc = "join" /\ ~Running(ejoin)
  /\ HandlerReturns
  /\ UNCHANGED <<remote, subscribers, sessionVars, timerVars, nodeVars, reader, readerVars,
                 outboundVars, demandVars>>

EventStep ==
  \/ OnRoomEos \/ OnTrack \/ Register \/ AlreadyRegistered \/ NotRepublished
  \/ Unregister \/ NotRegistered \/ UnregisterJoins

-----------------------------------------------------------------------------
(* The connection timer: pollConnection() *)

(* processEndedRoomSession(): the exchange, ... *)
TimerClaimsEnded ==
  /\ tpc = "idle"
  /\ ended' = FALSE
  /\ tpc' = IF ended THEN "cleanup" ELSE "prepare"
  /\ resume' = "prepare"
  /\ UNCHANGED <<sdkVars, subscribers, room, session, lock, eventVars, tjoin, nodeVars, reader,
                 readerVars, outboundVars, demandVars>>

(* ... then stopRoomComponents() under the lock, as for a failed start *)
TimerCleanup ==
  /\ tpc = "cleanup" /\ lock = "free"
  /\ lock' = "timer"
  /\ tpc' = "stop"
  /\ UNCHANGED <<sdkVars, subscribers, sessionVars, eventVars, tjoin, resume, nodeVars, reader,
                 readerVars, outboundVars, demandVars>>

(* ~TopicForwarder(): stopAllInboundDataTracks(), then the video tracks; *)
DestructorStops ==
  /\ tpc = "stop" /\ forwarder
  /\ \E t \in Tracks :
       /\ reader[t] # Nothing
       /\ t \in Video => \A s \in Data : reader[s] = Nothing
       /\ TakeDown(t)
       /\ tjoin' = reader[t]
  /\ tpc' = "join"
  /\ UNCHANGED <<sdkVars, subscribers, sessionVars, lock, eventVars, resume, nodeVars, rpc,
                 outboundVars, demandVars>>

DestructorJoins ==
  /\ tpc = "join" /\ ~Running(tjoin)
  /\ tpc' = "stop"
  /\ UNCHANGED <<sdkVars, subscribers, sessionVars, lock, eventVars, tjoin, resume, nodeVars,
                 reader, readerVars, outboundVars, demandVars>>

(* mutant: the components are gone without the destructor's stops *)
StoppedTooEarly ==
  /\ tpc = "stop"
  /\ forwarder' = FALSE /\ started' = FALSE
  /\ reader' = [t \in Tracks |-> Nothing]
  /\ samples' = {}
  /\ lock' = "free"
  /\ tpc' = resume
  /\ UNCHANGED <<sdkVars, subscribers, sessionVars, eventVars, tjoin, resume, readerVars,
                 taken, echoed, demandVars>>

(* and the subscriptions, with the samples they have not taken *)
ComponentsStopped ==
  /\ tpc = "stop"
  /\ ~forwarder \/ Registered = {}
  /\ forwarder' = FALSE /\ started' = FALSE
  /\ samples' = {}
  /\ lock' = "free"
  /\ tpc' = resume
  /\ UNCHANGED <<sdkVars, subscribers, sessionVars, eventVars, tjoin, resume, reader, readerVars,
                 taken, echoed, demandVars>>

(* while not connected, make sure that there is a forwarder *)
TimerPrepare ==
  /\ tpc = "prepare"
  /\ ~Connected => lock = "free"
  /\ forwarder' = (forwarder \/ ~Connected)
  /\ tpc' = "poll"
  /\ UNCHANGED <<sdkVars, subscribers, sessionVars, lock, eventVars, tjoin, resume, started,
                 reader, readerVars, outboundVars, demandVars>>

(* ConnectionManager::poll(), then isConnected() *)
TimerPoll ==
  /\ tpc = "poll"
  /\ \/ /\ room = "down" /\ session < MaxSessions
        /\ room' = "up"
        /\ session' = session + 1
     \/ UNCHANGED <<room, session>>
  /\ tpc' = IF room' = "down" THEN "idle" ELSE "start"
  /\ UNCHANGED <<sdkVars, subscribers, ended, lock, eventVars, tjoin, resume, nodeVars, reader,
                 readerVars, outboundVars, demandVars>>

(* startRoomComponents(): any failure takes the forwarder down as well *)
TimerStarts ==
  /\ tpc = "start" /\ lock = "free"
  /\ \/ /\ started \/ Connected
        /\ forwarder' = TRUE /\ started' = TRUE
        /\ tpc' = "idle"
        /\ UNCHANGED <<lock, resume>>
     \/ /\ ~started /\ (Connected => "start" \in Faults)
        /\ lock' = "timer"
        /\ tpc' = "stop"
        /\ resume' = "idle"
        /\ UNCHANGED nodeVars
  /\ UNCHANGED <<sdkVars, subscribers, sessionVars, eventVars, tjoin, reader, readerVars,
                 outboundVars, demandVars>>

TimerStep ==
  \/ TimerClaimsEnded \/ TimerCleanup \/ DestructorStops \/ DestructorJoins
  \/ ComponentsStopped \/ TimerPrepare \/ TimerPoll \/ TimerStarts

-----------------------------------------------------------------------------
(* The readers: readInboundDataTrack(), InboundVideoTrack::readLoop() *)

ReaderOnly(n, from, to) ==
  /\ rpc[n] = from
  /\ rpc' = [rpc EXCEPT ![n] = to]
  /\ UNCHANGED <<sdkVars, subscribers, sessionVars, lock, eventVars, timerVars, nodeVars, reader,
                 stop, open, taken, echoed, demandVars>>

ReaderStarts(n) == ReaderOnly(n, "start", "read") /\ UNCHANGED samples

(* a frame arrives *)
ReaderReads(n) ==
  /\ n \in open /\ n \notin stop
  /\ ReaderOnly(n, "read", "frame")
  /\ UNCHANGED samples

(* stop or the end of the stream *)
ReaderEnds(n) ==
  /\ n \in stop \/ n \notin open
  /\ ReaderOnly(n, "read", "ended")
  /\ UNCHANGED samples

(* an empty CDR payload ends the reader of a data track, which stays registered *)
ReaderGivesUp(n) ==
  /\ "reader" \in Faults
  /\ n <= sent /\ track[n] \in Data
  /\ Connected
  /\ ReaderOnly(n, "frame", "ended")
  /\ UNCHANGED samples

(* a frame is dropped while the room is unavailable, and a video frame that *)
(* nobody would see is not encoded                                          *)
ReaderChecks(n) ==
  /\ n <= sent
  /\ ReaderOnly(n, "frame", IF Connected /\ track[n] \in Data \cup subscribers
                            THEN "publish" ELSE "read")
  /\ UNCHANGED samples

(* publish() may wait until the subscription has taken an earlier sample *)
ReaderPublishes(n) ==
  /\ n \notin samples
  /\ ReaderOnly(n, "publish", "read")
  /\ samples' = IF forwarder THEN samples \cup {n} ELSE samples

ReaderStep(n) ==
  ReaderStarts(n) \/ ReaderEnds(n) \/ ReaderGivesUp(n) \/ ReaderChecks(n) \/ ReaderPublishes(n)

-----------------------------------------------------------------------------
(* The subscription of the portal on the same topic *)

OutboundOnly ==
  UNCHANGED <<sdkVars, subscribers, sessionVars, lock, eventVars, timerVars, nodeVars, reader,
              readerVars, demandVars>>

OutboundTakes ==
  /\ taken = Nothing
  /\ \E n \in samples : taken' = n /\ samples' = samples \ {n}
  /\ UNCHANGED echoed
  /\ OutboundOnly

(* mutant: the handler that joins a reader keeps the lock on the map *)
OutboundWaitsForJoin ==
  /\ taken # Nothing
  /\ epc # "join" /\ tpc # "join"
  /\ echoed' = IF taken \notin Registered /\ Connected THEN echoed \cup {taken} ELSE echoed
  /\ taken' = Nothing
  /\ UNCHANGED samples
  /\ OutboundOnly

(* mutant: the session is tested, the publisher is not *)
OutboundForgetsEcho ==
  /\ taken # Nothing
  /\ echoed' = IF Connected THEN echoed \cup {taken} ELSE echoed
  /\ taken' = Nothing
  /\ UNCHANGED samples
  /\ OutboundOnly

(* isInboundPublication(), isRoomAvailable().  A callback that outlives the *)
(* forwarder reads a destroyed object: any outcome.                         *)
OutboundChecks ==
  /\ taken # Nothing
  /\ \/ echoed' = IF taken \notin Registered /\ Connected THEN echoed \cup {taken} ELSE echoed
     \/ ~forwarder /\ echoed' \in {echoed, echoed \cup {taken}}
  /\ taken' = Nothing
  /\ UNCHANGED samples
  /\ OutboundOnly

-----------------------------------------------------------------------------
(* The demand timer: updateInboundVideoDemand(), every 0.5 s *)

DemandOnly ==
  UNCHANGED <<sdkVars, subscribers, sessionVars, lock, eventVars, timerVars, nodeVars, reader,
              readerVars, outboundVars>>

DemandSnapshot(d) ==
  /\ demand[d] = Idle
  /\ forwarder
  /\ LET tracks == {reader[v] : v \in Video} \ {Nothing}
     IN  tracks # {} /\ demand' = [demand EXCEPT ![d].todo = tracks]
  /\ UNCHANGED paused
  /\ DemandOnly

(* updateDemand(): the subscribers are counted before demand_mutex_ is taken *)
DemandReads(d) ==
  /\ demand[d].current = Nothing
  /\ \E n \in demand[d].todo :
       demand' = [demand EXCEPT ![d] = [todo |-> @.todo \ {n}, current |-> n,
                                        wanted |-> track[n] \in subscribers]]
  /\ UNCHANGED paused
  /\ DemandOnly

DemandDone(d) == demand' = [demand EXCEPT ![d].current = Nothing, ![d].wanted = FALSE]

(* mutant: a video track is paused and never resumed *)
DemandOnlyPauses(d) ==
  LET n == demand[d].current
  IN  /\ n # Nothing
      /\ paused' = IF demand[d].wanted THEN paused ELSE paused \cup {n}
      /\ DemandDone(d)
      /\ DemandOnly

DemandApplies(d) ==
  LET n == demand[d].current
  IN  /\ n # Nothing
      /\ paused' = IF demand[d].wanted THEN paused \ {n} ELSE paused \cup {n}
      /\ DemandDone(d)
      /\ DemandOnly

(* set_enabled() fails *)
DemandFails(d) ==
  /\ "enable" \in Faults
  /\ demand[d].current # Nothing
  /\ DemandDone(d)
  /\ UNCHANGED paused
  /\ DemandOnly

DemandStep(d) == DemandSnapshot(d) \/ DemandReads(d) \/ DemandApplies(d) \/ DemandFails(d)

-----------------------------------------------------------------------------
Next ==
  \/ \E t \in Tracks : SdkPublishes(t) \/ SdkUnpublishes(t)
  \/ SdkEndsSession
  \/ \E v \in Video : SubscribersChange(v)
  \/ EventStep
  \/ TimerStep
  \/ \E n \in Readers : ReaderReads(n) \/ ReaderStep(n)
  \/ OutboundTakes \/ OutboundChecks
  \/ \E d \in DemandTimers : DemandStep(d)

Spec == Init /\ [][Next]_vars

(* The threads of the portal run on: no step of theirs waits for anything   *)
(* but the lock and each other.  Frames need not arrive, tracks, sessions   *)
(* and subscribers come and go as they like; a pause or a join that is tried *)
(* again and again succeeds.  The lock is not fair, the SDK's handlers are  *)
(* finitely many.                                                           *)
Fairness ==
  /\ SF_vars(OnTrack) /\ WF_vars(EventStep)
  /\ SF_vars(TimerCleanup) /\ SF_vars(TimerPrepare) /\ SF_vars(TimerStarts)
  /\ WF_vars(TimerStep)
  /\ SF_vars(TimerPoll /\ room' = "up")
  /\ \A n \in Readers : WF_vars(ReaderStep(n))
  /\ WF_vars(OutboundTakes) /\ WF_vars(OutboundChecks)
  /\ \A d \in DemandTimers : WF_vars(DemandStep(d)) /\ SF_vars(DemandApplies(d))

FairSpec == Spec /\ Fairness

-----------------------------------------------------------------------------
(* However often a track is announced, dropped and announced again, and     *)
(* whoever destroys the forwarder meanwhile, one track is read by one       *)
(* reader, and the map knows it unless it has been asked to stop.           *)
OneReaderPerTrack ==
  /\ \A m, n \in 1..sent : m # n /\ Running(m) /\ Running(n) => track[m] # track[n]
  /\ \A n \in 1..sent : Running(n) /\ n \notin stop => reader[track[n]] = n

(* Readers use the forwarder that started them until they end: none         *)
(* outlives it.                                                             *)
ReadersWithinForwarder == \A n \in Readers : Running(n) => forwarder

(* What a reader publishes while it is registered is not sent back to the   *)
(* room ("echo suppression covers the first published frame",               *)
(* topic_forwarder.cpp, line 940).                                          *)
NoEchoWhileRegistered == echoed \cap Registered = {}

(* ... nor after its track was taken down. *)
NoEcho == echoed = {}

(* Track handlers and cleanups return, although they join readers that may  *)
(* be inside publish() (topic_forwarder.cpp, lines 965-966).                *)
HandlersReturn ==
  /\ epc = "handle" ~> epc = "idle"
  /\ tpc = "cleanup" ~> tpc \in {"idle", "prepare"}

(* A video track is paused when its topic has lost its subscribers for good, *)
(* and resumed when it has gained one.                                       *)
DemandIsFollowed ==
  \A v \in Video : \A n \in Readers :
    /\ <>[](reader[v] = n /\ v \in subscribers) => <>[](n \notin paused)
    /\ <>[](reader[v] = n /\ v \notin subscribers) => <>[](n \in paused)

(* A reader does not outlive its track. *)
GoneAreNotRead ==
  \A t \in Tracks : <>[](t \notin remote) => <>[](reader[t] = Nothing)

(* A data track that the room keeps delivering is read (ros_portal.cpp,     *)
(* lines 226-230).                                                          *)
DeliveredAreRead ==
  \A t \in Data : <>[](t \in remote) => <>[](reader[t] # Nothing)
==============================================================================
