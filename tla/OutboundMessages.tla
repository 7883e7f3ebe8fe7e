---------------------------- MODULE OutboundMessages ----------------------------
(***************************************************************************)
(* The outbound path of TopicForwarder: from a sample of a subscribed ROS  *)
(* topic to a LiveKit track that it is pushed to.                          *)
(*                                                                         *)
(*   Callbacks  threads in callbacks of the reentrant group                *)
(*                                                                         *)
(* The discovery thread subscribes and reaps (GraphDiscovery has the rest  *)
(* of its loop).  A data topic has a rate window and a writer, made for    *)
(* its first sample; an image topic has a state with a sink, made for its  *)
(* first frame, which a callback keeps although the topic is reaped.       *)
(*                                                                         *)
(* External: the publishers of the ROS graph, the ROS clock, which may     *)
(* jump back, and the room, which may refuse a track or be unavailable.    *)
(***************************************************************************)
EXTENDS TopicRules

CONSTANTS Callbacks,
          ImageTopics,  \* topics of the raw and compressed image types
          JpegTopics,   \* those of the compressed type
          ImageStates,  \* objects of ImageTopicState; a new one is not in use
          Scenarios,    \* what is configured, and what the graph may do until when
          MaxSamples,   \* bound on the samples received
          MaxNow, MaxJumps,
          Faults

NoSub == [kind |-> "unsubscribed"]
Sizes == (0..2) \X (0..2)
Image == [size : Sizes, bpp : 0..4, step : 0..8, len : 0..16]
Message == [kind |-> "message"]  \* a sample of a data topic
Sample == {Message} \cup Image

ASSUME OutboundAssumption ==
  /\ JpegTopics \subseteq ImageTopics /\ ImageTopics \subseteq Topics
  /\ NoSub \notin ImageStates /\ MaxSamples \in Nat /\ MaxNow \in Nat /\ MaxJumps \in Nat
  /\ Faults \subseteq {"create", "publish", "unavailable"}
  /\ Scenarios \subseteq [config : Seq(Entry), bestEffort : SUBSET Patterns, heard : SUBSET Topics,
                          crowds : [Topics -> SUBSET Seq(Profile)], samples : SUBSET Sample,
                          until : 0..MaxNow]

VARIABLES
  setting,    \* external: the scenario
  pubs,       \* external: publishers per topic
  available,  \* external: room_operations_enabled_
  now,        \* external: the ROS clock
  jumps,      \* how often it jumped back
  seen,       \* publishers that determineQoS() was told of
  qos,        \* subscriptions_, with the profile of each
  data,       \* data_topic_states_
  image,      \* image_topic_states_
  sink,       \* ImageTopicState::sink
  cb,         \* what each callback is at
  received,   \* samples received
  passed,     \* samples of a subscription that passed the cap
  since,      \* ticks since one passed
  starved     \* ticks since the first of those dropped since one passed or
              \* the clock jumped, from 1; 0 if none was dropped

external == <<setting, pubs, available, now, jumps>>
subVars == <<seen, qos, data, image, sink>>
times == <<passed, since, starved>>
history == <<received, times>>
vars == <<external, subVars, cb, history>>

config == setting.config

Never == MaxNow + 1
NoTrack == [kind |-> "none", of |-> "none"]
NewData(t) == [period |-> RateLimits(config, t), last |-> Never, writer |-> NoTrack]

Idle == [at |-> "idle", topic |-> "none", sample |-> Message, state |-> NoSub]

-----------------------------------------------------------------------------
Track == [kind : {"data"}, of : Encodings] \cup [kind : {"video"}, of : Sizes] \cup {NoTrack}

Callback ==
  [at : {"idle", "data", "push", "find", "jpeg", "image"}, topic : Topics \cup {"none"},
   sample : Sample, state : ImageStates \cup {NoSub}]

TypeOK ==
  /\ setting \in Scenarios /\ pubs \in [Topics -> Seq(Profile)]
  /\ now \in 0..MaxNow /\ jumps \in 0..MaxJumps /\ available \in BOOLEAN
  /\ seen \in [Topics -> Seq(Profile)]
  /\ qos \in [Topics -> Profile \cup {NoSub}]
  /\ data \in [Topics -> [period : 0..MaxPeriod, last : 0..Never, writer : Track] \cup {NoSub}]
  /\ image \in [Topics -> ImageStates \cup {NoSub}] /\ sink \in [ImageStates -> Track]
  /\ cb \in [Callbacks -> Callback]
  /\ received \in 0..MaxSamples /\ passed \in [Topics -> Nat]
  /\ since \in [Topics -> 0..MaxPeriod] /\ starved \in [Topics -> 0..(MaxPeriod + 1)]

Init ==
  /\ setting \in Scenarios
  /\ pubs = [t \in Topics |-> <<>>]
  /\ available = TRUE
  /\ now = 0 /\ jumps = 0
  /\ seen = [t \in Topics |-> <<>>]
  /\ qos = [t \in Topics |-> NoSub]
  /\ data = [t \in Topics |-> NoSub]
  /\ image = [t \in Topics |-> NoSub]
  /\ sink = [s \in ImageStates |-> NoTrack]
  /\ cb = [c \in Callbacks |-> Idle]
  /\ received = 0
  /\ passed = [t \in Topics |-> 0]
  /\ since = [t \in Topics |-> MaxPeriod]
  /\ starved = [t \in Topics |-> 0]

(* external *)
PublishersChange(t) ==
  /\ pubs' \in {[pubs EXCEPT ![t] = crowd] : crowd \in setting.crowds[t]}
  /\ UNCHANGED <<setting, available, now, jumps, subVars, cb, history>>

Outage ==
  /\ "unavailable" \in Faults
  /\ available' = ~available
  /\ UNCHANGED <<setting, pubs, now, jumps, subVars, cb, history>>

Tick ==
  /\ now < setting.until
  /\ now' = now + 1
  /\ since' = [t \in Topics |-> Min({MaxPeriod, since[t] + 1})]
  /\ starved' = [t \in Topics |->
                   IF starved[t] = 0 THEN 0 ELSE Min({MaxPeriod + 1, starved[t] + 1})]
  /\ UNCHANGED <<setting, pubs, available, jumps, subVars, cb, received, passed>>

JumpBack ==
  /\ jumps < MaxJumps
  /\ \E back \in 0..MaxNow : back < now /\ now' = back
  /\ jumps' = jumps + 1
  /\ starved' = [t \in Topics |-> 0]
  /\ UNCHANGED <<setting, pubs, available, subVars, cb, received, passed, since>>

-----------------------------------------------------------------------------
(* Subscriptions *)

HasImages(t) == t \in ImageTopics

(* the profile is that of the publishers of the moment *)
Subscribed(t) ==
  /\ seen' = [seen EXCEPT ![t] = pubs[t]]
  /\ qos' = [qos EXCEPT ![t] = DetermineQoS(pubs[t], MatchesAny(t, setting.bestEffort))]
  /\ since' = [since EXCEPT ![t] = MaxPeriod]
  /\ starved' = [starved EXCEPT ![t] = 0]

SubscribeData(t) ==
  ~HasImages(t) /\ Subscribed(t)
  /\ data' = [data EXCEPT ![t] = NewData(t)] /\ UNCHANGED <<image, sink>>

InUse == {image[t] : t \in Topics} \cup {cb[c].state : c \in Callbacks}

SubscribeVideo(t) ==
  HasImages(t) /\ Subscribed(t)
  /\ \E state \in ImageStates \ InUse :
       /\ image' = [image EXCEPT ![t] = state]
       /\ sink' = [sink EXCEPT ![state] = NoTrack]
  /\ UNCHANGED data

(* the topics of the graph, which other subscribers keep there as well *)
Graph == setting.heard \cup {t \in Topics : pubs[t] # <<>>}

CreateSubscriber(t) ==
  /\ qos[t] = NoSub /\ IsForwarded(config, t) /\ t \in Graph
  /\ \/ SubscribeData(t) \/ SubscribeVideo(t)
     \/ "create" \in Faults /\ UNCHANGED <<subVars, since, starved>>
  /\ UNCHANGED <<external, cb, received, passed>>

(* reapExpiredSubscriptions(); a callback may be under way *)
Reap(t) ==
  /\ qos[t] # NoSub /\ pubs[t] = <<>>
  /\ qos' = [qos EXCEPT ![t] = NoSub]
  /\ data' = [data EXCEPT ![t] = NoSub]
  /\ image' = [image EXCEPT ![t] = NoSub]
  /\ UNCHANGED <<external, seen, sink, cb, history>>

-----------------------------------------------------------------------------
(* A data sample *)

Done(c) == cb' = [cb EXCEPT ![c] = Idle]
Suits(sample, t) == sample \in Image <=> HasImages(t)

(* the executor starts a callback, which drops what comes while the room   *)
(* is unavailable                                                          *)
Arrives(c, t, sample) ==
  /\ cb[c].at = "idle" /\ received < MaxSamples
  /\ qos[t] # NoSub /\ pubs[t] # <<>> /\ Suits(sample, t)
  /\ received' = received + 1
  /\ cb' = IF available
           THEN [cb EXCEPT ![c] = [at |-> IF HasImages(t) THEN "find" ELSE "data",
                                   topic |-> t, sample |-> sample, state |-> NoSub]]
           ELSE cb
  /\ UNCHANGED <<external, subVars, times>>

(* mutant: a jump of the clock goes unnoticed *)
JumpUnnoticed(state) == FALSE

Jumped(state) == state.last # Never /\ state.last > now

(* after a jump the window begins anew, with this sample in it *)
InWindow(state) ==
  /\ state.period > 0 /\ state.last # Never
  /\ now - state.last < state.period

(* mutant: the first sample, which makes the writer, opens no window *)
OpenLate(state) == [state EXCEPT !.last = IF state.writer = NoTrack THEN @ ELSE now]

Open(state) == [state EXCEPT !.last = IF state.period > 0 THEN now ELSE @]

(* the track of a topic, or none: the schema or the track is refused, or   *)
(* the room is gone                                                        *)
Published(track) ==
  (IF available THEN {track} ELSE {}) \cup
  (IF ~available \/ "publish" \in Faults THEN {NoTrack} ELSE {})

PublishDataTrack(t) == Published([kind |-> "data", of |-> OutboundEncoding(config, t)])
PublishVideoTrack(size) == Published([kind |-> "video", of |-> size])

EnsureWriter(state, t) ==
  IF state.writer # NoTrack THEN {state.writer} ELSE PublishDataTrack(t)

(* Under outbound_topics_mutex_, which is held while the schema is defined *)
(* and the track is published.  A window is opened before the writer is    *)
(* there.                                                                  *)
DataDropped(c, t) ==
  /\ InWindow(data[t])
  /\ data' = IF Jumped(data[t]) THEN [data EXCEPT ![t].last = now] ELSE data
  /\ starved' = [starved EXCEPT ![t] = Max({1, @})]
  /\ Done(c)
  /\ UNCHANGED <<passed, since>>

DataTaken(c, t) ==
  /\ ~InWindow(data[t])
  /\ \E writer \in EnsureWriter(data[t], t) :
       /\ data' = [data EXCEPT ![t] = [Open(data[t]) EXCEPT !.writer = writer]]
       /\ IF writer = NoTrack THEN Done(c) ELSE cb' = [cb EXCEPT ![c].at = "push"]
  /\ passed' = [passed EXCEPT ![t] = @ + 1]
  /\ since' = [since EXCEPT ![t] = 0]
  /\ starved' = [starved EXCEPT ![t] = 0]

DataSample(c) ==
  LET t == cb[c].topic
  IN /\ cb[c].at = "data"
     /\ \/ data[t] = NoSub /\ Done(c) /\ UNCHANGED <<data, times>>
        \/ data[t] # NoSub /\ (DataDropped(c, t) \/ DataTaken(c, t))
     /\ UNCHANGED <<external, seen, qos, image, sink, received>>

(* what does not convert, or comes while operations are disabled, is dropped *)
DataPush(c) == cb[c].at = "push" /\ Done(c) /\ UNCHANGED <<external, subVars, history>>

-----------------------------------------------------------------------------
(* A frame *)

(* ImageFrameBuilder::build(); a JPEG is a picture of one byte per pixel *)
Buildable(img) ==
  /\ img.bpp \in {1, 3, 4} /\ img.size[1] > 0 /\ img.size[2] > 0
  /\ img.step >= img.size[1] * img.bpp
  /\ img.len >= img.step * img.size[2]

ImageFind(c) ==
  /\ cb[c].at = "find"
  /\ IF image[cb[c].topic] = NoSub THEN Done(c)
     ELSE cb' = [cb EXCEPT ![c].at = IF cb[c].topic \in JpegTopics THEN "jpeg" ELSE "image",
                           ![c].state = image[cb[c].topic]]
  /\ UNCHANGED <<external, subVars, history>>

(* a sink for the size of the first frame *)
EnsureSink(state, size) ==
  IF sink[state] # NoTrack THEN {sink[state]} ELSE PublishVideoTrack(size)

(* Under the mutex of the state: the sink is published before the frame is *)
(* built, and a frame of another size, or that cannot be built, is dropped. *)
ImageCapture(c) ==
  LET state == cb[c].state
  IN /\ cb[c].at = "image"
     /\ \E track \in EnsureSink(state, cb[c].sample.size) :
          sink' = [sink EXCEPT ![state] = track]
     /\ Done(c)
     /\ UNCHANGED <<external, seen, qos, data, image, history>>

(* a compressed frame is decoded first, which its size is known by *)
CompressedCapture(c) ==
  /\ cb[c].at = "jpeg"
  /\ IF Buildable(cb[c].sample)
     THEN cb' = [cb EXCEPT ![c].at = "image"] ELSE Done(c)
  /\ UNCHANGED <<external, subVars, history>>

-----------------------------------------------------------------------------
CallbackStep(c) == DataSample(c) \/ DataPush(c) \/ ImageFind(c) \/ CompressedCapture(c) \/ ImageCapture(c)

Next ==
  \/ \E t \in Topics : CreateSubscriber(t) \/ Reap(t) \/ PublishersChange(t)
  \/ \E c \in Callbacks :
       \/ \E t \in Topics, sample \in setting.samples : Arrives(c, t, sample)
       \/ CallbackStep(c)
  \/ Outage \/ Tick \/ JumpBack

Spec == Init /\ [][Next]_vars

-----------------------------------------------------------------------------
(* Samples of one subscription pass the cap at least a period apart,       *)
(* although its callbacks run concurrently and the clock may jump back     *)
(* (configuration.md: "the achieved rate is at most max_rate_hz").         *)
RateIsCapped ==
  [][\A t \in Topics : passed'[t] # passed[t] => since[t] >= RateLimits(config, t)]_vars

(* The cap never stalls: samples of a topic are not dropped for as long as *)
(* a period unless the clock jumps again (topic_forwarder.cpp: "the cap    *)
(* does not stall until the old timestamp is reached again").              *)
CapNeverStalls ==
  [][\A c \in Callbacks :
       LET t == cb[c].topic
       IN DataSample(c) /\ data[t] # NoSub /\ passed'[t] = passed[t] =>
            starved[t] <= RateLimits(config, t)]_vars

(* determineQoS() asks for the most that connects to every publisher it    *)
(* knows, if any, and keeps as much history as they do, up to the bound.   *)
Connects(sub, pub) == (sub.reliable => pub.reliable) /\ (sub.transient => pub.transient)
ConnectsToAll ==
  \A t \in Topics : qos[t] # NoSub =>
    /\ \A i \in DOMAIN seen[t] : Connects(qos[t], seen[t][i])
    /\ \A other \in [reliable : {~MatchesAny(t, setting.bestEffort)}, transient : BOOLEAN] :
         seen[t] # <<>> /\ (\A i \in DOMAIN seen[t] : Connects(other, seen[t][i])) =>
           (other.reliable => qos[t].reliable) /\ (other.transient => qos[t].transient)
    /\ qos[t].depth <= MaxDepth
    /\ qos[t].depth < MaxDepth => \A i \in DOMAIN seen[t] : seen[t][i].depth <= qos[t].depth
==============================================================================
