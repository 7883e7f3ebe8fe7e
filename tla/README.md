# ROS Portal in TLA+

A verification project for `livekit/ros-portal`, the node that bridges a ROS 2
graph and a LiveKit room. Paths below are relative to `src/ros_portal/`.
`SessionGate`, `ConnectionManager`, `GraphDiscovery`, `LatchedDelivery`,
`InboundTracks`, `RemoteCalls`, `Schemas`, `TopicRules`, `OutboundMessages`,
`VideoSources` and `ConnectionHealth` are the specifications, `MC*` instantiate
them for TLC, `*Proofs` hold the theorems (`SessionGate` and `TopicRules` have no
proof module of their own; `OutboundMessagesProofs` also has those about
`VideoSources`), and `PROJECT.json` maps
every definition to the lines it models.

## 1. The system

One process, one ROS node, one LiveKit room. Four kinds of threads meet in it:

| thread | runs |
| --- | --- |
| executor threads | the one-second connection timer (`RosPortal::pollConnection`), subscription and service callbacks; the callback groups are reentrant and `main.cpp` uses a multi-threaded executor |
| the SDK's room event thread | lifecycle events, participants, tracks |
| the graph worker | `GraphManager::discoveryLoop` |
| helper threads | the latched push worker, one reader per inbound track, video capture, RPC handlers |

### Inventory

**Connection manager** (`connection/connection_manager.cpp`). *State:* an atomic
`state_`, the flags `operations_enabled_` and `session_closed_` under
`session_mutex_` with a condition variable, `next_attempt_at_`. *Operations:*
`poll`, `waitForOperations`, the lifecycle events (each also delivered as a
`ConnectionStateChanged`), `onRoomEos`, `stop`. *Interacts with* the timer, the
event thread and every callback that waits at the barrier. *Hard:* the state and
the flags are two separate pieces of state, changed one after the other by
threads that overtake each other. *Correct when* no wake-up is lost, a connected
room is usable, a lost one is left and joined again, a session that is down is
closed, waiters return.

**Node lifecycle** (`ros_portal.cpp`). *State:* `room_session_ended_`,
`room_components_started_`, `room_session_prepared_`, `shutting_down_`, the
components themselves under `room_components_mutex_`. *Operations:* initialize,
pollConnection, start/stopRoomComponents, processEndedRoomSession, onRoomEos,
reconcileGraphTopics, shutdown. *Hard:* two threads process the end of a session
(timer and worker), the third announces it. *Correct when* the components belong
to the current session and nothing comes back after shutdown.

**Graph manager** (`graph/graph_manager.cpp`). *State:* the graph event, cached
topic and service snapshots, the last reconciled snapshot, stop request.
*Operations:* start, stop, invalidate, topics, services, the discovery loop.
*Correct when* it does not sleep on a stale snapshot and each change is applied.

**Topic forwarder, outbound** (`topic_forwarder.cpp`). *State:* subscriptions
with the time since which publishers are absent, per-topic writer, rate window
and video sink. *Operations:* reconcileTopics, reapExpiredSubscriptions,
nextExpiryDeadline, determineQoS, the data and image callbacks. *Hard:* the
callbacks are concurrent with each other and with the removal of their own
subscription, and the clock they are rated by may jump. *Correct when* configured
topics with a publisher are forwarded and those without are removed after the
grace period; a subscription connects to its publishers; the rate cap neither
leaks nor stalls.

**Topic forwarder, inbound, and inbound video track**
(`topic_forwarder.cpp`, `inbound_video_track.cpp`). *State:* readers by track
sid, their threads, ROS publishers, video tracks with demand. *Operations:*
data track published / unpublished, video track subscribed, stop all.
*Correct when* each published track has one reader that ends with it, and video
is subscribed exactly while someone listens.

**Latched topic forwarder** (`latched_topic_forwarder.cpp`). *State:* distinct
messages with their hashes, a version, per-peer delivered version and failures.
*Operations:* storeOutboundMessage, pushToPeers, handleLatchedStateRpc, the
destructor. *Hard:* encoding and RPCs run outside the lock; peers come and go;
RPCs time out. *Correct when* a peer that counts as up to date holds the state.

**Service forwarder** (`service_forwarder.cpp`). *State:* the forwarded rcl
services. *Operations:* create a service per route, take a request, resolve the
participant, perform the RPC, answer. **CLI bridge** (`cli/*.cpp`). *State:* the
registered RPC methods, the client and publisher caches, per client a mutex and
the response queue. *Operations:* the three commands a portal offers to ROS, the
RPC handlers that serve them. *Interacts with* the room of both portals. *Hard:*
two portals, two deadlines, clients shared by handlers, answers that come after
their request was given up. *Correct when* each caller gets its own answer, or a
reason, and everybody returns.

**Schema manager and renderer** (`schema/manager.cpp`, `schema/renderer.cpp`).
*State:* the schemas defined in the room, each in progress or done. *Operations:*
ensureSchemaDefined (single flight), validateInboundSchema, rendering of a type
with its dependencies. *Hard:* a definition runs outside the lock and may fail;
files change while they are read; the portals may have different revisions.
*Correct when* an ID stands for the schema its owner rendered, a track is
accepted only if both portals mean the same type, and nobody waits forever.

**Video sources** (`video_source_manager.cpp`, `capture_source_factory.cpp`).
*State:* per source a session, its kind and the completion of its capture.
*Operations:* create, publish and start; poll from the diagnostics updater;
destroy. *Hard:* any step can fail half-way; captures end by themselves. *Correct
when* each published track is withdrawn once and each end is reported.

**Connection diagnostics** (`connection/connection_diagnostics.cpp`). *State:*
the kind, counters, the summary of the last statistics, a request under way.
*Operations:* the marks of events and timer, pollStats. *Hard:* events arrive
once or twice, and answers after the connection they are about. *Correct when* a
summary is of the connection it is shown with and every loss is counted once.

Pure conversions (most of `utils/`, `cli/json_converters.cpp`), wrappers of ROS type support (`introspection/`), token loading, generated
configuration code and the Python demo have no interacting state and are listed
in `PROJECT.json` as not modelled.

## 2. Plan

1. `ConnectionManager` with `SessionGate`, its abstract specification. **Done**, with proofs.
2. `GraphDiscovery`: graph worker x timer x room events x shutdown, composed with the outbound subscriptions. **Done**, with proofs.
3. `LatchedDelivery`: store, push worker, peers. **Done**, with proofs.
4. `InboundTracks`: readers and video demand, publish / unpublish / stop in every order, a late end-of-session. **Done**, with proofs.
5. `RemoteCalls` (service forwarder and CLI bridge of two portals) and `Schemas` (manager and renderer). **Done**, with proofs.
6. `TopicRules` with `OutboundMessages`, which extends it; `ConnectionHealth`. **Done**, with proofs. `VideoSources`. **Done**, with proofs.
7. Not done: an abstract room session as `GraphDiscovery` and `InboundTracks` see it, implemented by `ConnectionManager`; "a request has one answer", implemented by `RemoteCalls`.

Modules are parameterised by `CONSTANTS` with named assumptions, have one action
per operation or critical section, and use no RECURSIVE operator, so that any of
them can be proved about.

## 3. The modules

### ConnectionManager, SessionGate

One action per access to `state_` and per critical section of `session_mutex_`.
`pc[t]` says what thread `t` does next, so that every handler (`poll`, the
transitions, `stop`) is a sequence of actions in the order of the code;
`notify_all()` is an action of its own, after the lock is released. `ops` and
`closed` are the two flags. Time is abstract: `cooldown` counts down to
`next_attempt_at_`, and `age[p]` is how long ago poller `p` read the clock
(`poll()` reads it once, and may be overtaken before it claims the attempt).
`room` is external: what the SDK does. A room event is delivered only if the
session can produce it; `EosAfterDisconnect` says whether the SDK may end an
event stream without Disconnected. `stale` is a history variable.

`SessionGate` states what a caller of `waitForOperations()` is promised: a gate
(closed / pending / open) and callers that leave admitted only through an open
gate and dropped only through a closed one, and are not left behind.
`SeenGate` and `SeenCaller` map `ops`/`closed`/`pc` to it (`Gate` is the instance).
The run checks the whole of it, liveness included (`ImplementsGate`); the safety
part, `SafeSpec`, is proved.

### GraphDiscovery

`wpc` walks the worker through `discoveryLoop`, `ppc` the timer through
`pollConnection`, `spc` shutdown. `link` is the room session as seen from here;
its joins and losses are the coarse view of `ConnectionManager` (module 1 checks
that the coarse view is right once handlers have finished). The end of a session
is two steps, as in `RosPortal::onRoomEos`: the flag, then the connection
manager. `processEndedRoomSession` is two steps for each of its two callers: the
exchange, then the cleanup under the lock. The ROS graph holds a topic while it
has any endpoint, and the portal's own subscription is one; `Heard` are topics
that other nodes subscribe to. Topic types and patterns are abstracted.
`Faults` selects what can go wrong: the SDK reconnects, sessions end,
subscriptions or components fail to start, a graph call throws.

### LatchedDelivery

`Take`, `Encode` and `Store` are the three parts of the subscription callback
(before the lock, between its two critical sections, inside the second).
`Wake`, `List`, `Plan`, `Pick`, `RpcSucceeds`/`RpcFails`, `SettleAcked`/
`SettleFailed` are the push worker; each lock region is one action and each RPC
is one. A message stands for its content, topic and type included, so equal
hashes are equal elements (`std::hash` collisions are not modelled). `got` is
external: what each peer has received during its present stay. A failed RPC may
have been received. The duplicate test, the eviction, the re-arming of peers and
the version change are one critical section in the code and one action here.

### InboundTracks

`epc` walks the room event thread through a track handler, `tpc` the timer
through `pollConnection` and the forwarder's destructor; both hold
`room_components_mutex_` (`lock`) from the test of the forwarder to the last
join. An event is the number of a publication, which is also the number of the
reader that serves it, so that a second reader of one track can be told from the
first. `rpc` is the loop of a reader: wait for a frame, test the room and the
subscribers, publish. `open` are the streams that still deliver: the room closes
them with the track, a handler with its `close()`. `samples` are what the
portal's own subscription has yet to take, at most one per reader: `publish()`
waits for it, which is the reason the code gives for joining outside the lock.
Disconnected and EOS are one event here, and only the timer cleans up;
`GraphDiscovery` has the finer view of both. A stop request and the `close()`
after it are one step: in between a reader could only do what it may do anyway,
publish the frame it holds. A thread that cannot be created counts as a failed
subscription. A resubscribed video track starts with a publication that is
enabled, as a new SDK object does. A subscription callback that outlives the
forwarder (nothing waits for it) reads a destroyed object and may have any
outcome.

### RemoteCalls

A call is one request from one portal to another: a forwarded ROS request
(`ServiceForwarder`) or one of the commands (`cli/manager.cpp`). `pc[c]` walks its
caller, an executor thread, from the checks through `performRpc` to the answer;
`hpc[c]` walks its handler, a thread of the remote SDK, through decoding, the
client or publisher cache, and the call. `holder` is `call_mutex` of a client,
`responses` its DDS queue, which keeps the newest `Depth` answers: an answer that
comes after its request was given up stays there for the next caller, as in
`ServiceCall::call`. `offered` are the ROS services that could be created,
`registered` the methods the remote manager has registered (best effort each).
Time is counted in ticks, and a tick passes only when everything under way waits
for time: code and messages in transit are faster than a tick. External: the RPC
transport, which may lose a message silently or say so; the ROS services, which
may answer late, in any order or never; both rooms. Payloads are accepted or
refused (`"rejected"`), whatever is in them. `StopManager` assumes that the SDK
lets handlers of a method return before it is unregistered. An exception other
than `RpcError` ends a forwarded request with a response, since
`DynamicService::handle_request` catches all, and escapes from a command
(`"escaped"`).

### Schemas

`walk[c]` is the call stack of `appendDefinition()` as a sequence of names still
to be visited, so that rendering is one file per step and files may be replaced
in between; a failure in `.msg` files restarts with `.idl`, as
`renderRosMessageSchema` does. What has been seen are names, and a type has two:
the one in full that is asked for (`Root`), and what a field calls it (`Reference`),
in short in a `.msg` file. A definition is the set of types it depends on and
its revision; a hash stands for its text. `Enter`, `Define`, `Accepted` and
`Refused` are the critical sections of `ensureSchemaDefined()` and the request
between them; waiters look again when woken. An inbound track is `CheckTrack`,
`Fetch`, rendering, comparison; the type it is read as depends on the types its
topic carries locally (`graph` of a request). `TopicForwarder` calls
`ensureSchemaDefined()` under `outbound_topics_mutex_`, so that two of its
callbacks do not meet inside; the class is written, and modelled, for callers that
do. The rosbag2 backend of the renderer is an external library and left out.

### TopicRules, OutboundMessages

`TopicRules` is the configuration as operators: which topics are forwarded, their
rate and encoding (first literal entry that sets one), the QoS `determineQoS()`
makes of the publishers. A pattern is the set of topics it matches.
`OutboundMessages` extends it with the path of a sample: `DataSample` is the
critical section of the data callback (look-up, rate window, writer), `DataPush`
the push after it; `ImageFind`, `CompressedCapture` and `ImageCapture` are the
image callbacks. `CreateSubscriber` and `Reap` are the discovery thread, which may
take a subscription away while its callback is under way. `passed`, `since` and
`starved` measure the cap independently of the window the code keeps. External:
publishers, the clock (it may jump back), the room. An image subscription has a state
object (`ImageStates`), which a callback that has found it keeps after the
subscription is reaped, as `std::shared_ptr` does; `sink` is what each object has,
and an object in nobody's hands may serve a new subscription. Pixel conversion, JPEG
decoding and header time stamps only decide whether there is a frame; what a track
does with it is left out.

### VideoSources

`owner` walks the constructor and the destructor, `polling` the diagnostics
updater, whose lock serialises a task with adding and removing tasks (external:
`diagnostic_updater`). `completion` is `CaptureCompletion`, whose result can be
read once. Captures are external: they may refuse to start or stop, end at any
time, or take longer to stop than the five seconds that are waited. There is at
least one source; without any the code makes no manager. `SourcesInit`,
`SourcesNext` and `SourcesSpec` have prefixed names because the proof module
extends this module beside `OutboundMessages`.

### ConnectionHealth

Each critical section of `mutex_` is an action. `timer` is what the connection
timer is at in `pollStats()` and the attempt after it, with the answer it holds;
`events` what the SDK's event thread has still to mark, once or twice per change.
`SdkEos` is the end of a stream without Disconnected: its mark, `"ended"`, comes
after the state has permitted the next join, so that it may find a new connection
up (`LateEnd`).
Samples carry the number of the connection they were taken in, which the code
does not know: `StatsAreCurrent` compares it with the connection that is shown.
`lost`, `recoveries`, `overlapped` and `overtaken` are history variables.

## 4. What the runs check

Bounds are `CONSTANT`s of the `.cfg` files. There is no state constraint, and no
symmetry except in `outbound` and `latched`, which have only safety properties: image
states, callbacks, and the messages that are not too large, are interchangeable
there.

| run | question | bounds |
| --- | --- | --- |
| `connection` | no wake-up is lost (`NoLostWakeup`); once the handlers have finished a Connected manager has its barrier open (`ConnectedIsUsable`) and says so (`HealthyWhenUsable`); joins start from a clean room (`JoinsCleanRoom`); it implements `SessionGate`; the barrier does not stay pending (`BarrierSettles`); a lost room is joined again (`RetriesAfterLoss`) | one poller, the event thread, two track threads, stop(); any number of sessions |
| `discovery` | the worker does not sleep on a stale snapshot; nothing comes back after shutdown; components that outlive their session are about to be taken down | two topics, two sessions, every fault |
| `discovery_live` | a session that stays ends with its own components; shutdown ends; publishers of the first session are discovered; grace periods end | two topics, one of which keeps its publishers once it has them; two sessions, ends and failed starts |
| `latched` | the store is a bounded set that agrees with its index; a peer called up to date holds all of it (`DeliveredIsHeld`) and received what was stored last after the rest (`NewestIsLast`); a peer is given up on only after the newest state was tried | two callbacks, one peer, four messages (one oversize), store of two, four deliveries, outages, repeats |
| `latched_live` | the newest message is the last each up-to-date peer got; peers settle; the destructor returns | one callback, one peer, three messages, store of two (so one is evicted) |
| `inbound` | one reader per track, known to the map unless asked to stop; no reader outlives the forwarder; what a registered reader publishes is not sent back | a data and a video track, two announcements, two sessions, every fault |
| `inbound_live` | handlers and cleanups that join readers return; the pause follows the subscribers; a track that is gone loses its reader | one video track, one announcement, two sessions, failing starts and `set_enabled` |
| `remote_calls` | each caller gets the answer to its own request (`OwnAnswers`); the RPC outlives the service call it waits for (`MarginSuffices`); callers and handlers return (`EveryoneReturns`) | two calls: same client with equal or different timeouts, two clients, same topic, two topics, a listing; caches of one, a queue of one; every fault |
| `schemas` | what is rendered is the closure of the type, once by each name (`RenderIsClosure`); an ID stands for the schema its owner rendered (`IdsAreDefined`); an accepted track is understood alike by both portals (`AcceptedIsShared`); nobody waits forever (`CallersReturn`) | every dependency graph of three types, complete or not, as `.msg` or as `.idl` files, depth 3; three callers that define, wait and compare; definitions refused, replaced, missing |
| `outbound` | a subscription asks for the most that connects to all its publishers (`ConnectsToAll`); the rate cap neither leaks (`RateIsCapped`) nor stalls (`CapNeverStalls`) | every pair of publishers; a capped topic with two callbacks, four samples, a period of two ticks, six instants and one jump back; a raw and a JPEG topic with frames of three sizes and an empty one, three image states; the clock runs in the scenarios about the cap (`until`) |
| `video_sources` | every published track is withdrawn once (`TracksWithdrawn`); the end of a capture is reported (`EndIsReported`) | two sources, each of six configurations; every fault |
| `connection_health` | statistics and rates are of the connection that is shown, losses and reconnections are counted once (`ReportsTheRoom`) | three connections, lost with Disconnected or without, three requests, two candidate pairs, three answers, one other member |

Why these are enough: the properties relate at most two pollers, waiters,
sessions, topics, callers or messages with each other (an old and a new one); a
third adds no new relation. Two track threads are there because one notification
must reach both; two topics because a change of one is what makes the worker look
at the other; three messages because the store must be full when one is evicted;
two announcements because a second reader of the same track needs one; three
callers because a waiter must be woken by one that fails and find another one
defining; three types because a cycle needs two and its entry one more; three
connections because an answer may be two connections late. A period of two ticks
has an instant inside it. In `discovery_live` the second topic is steady: once
it has publishers it keeps them. So the topic set is never again one that was
applied in an earlier session, which is where the divergence `ForwardsPublishers`
below begins; for the same
reason `DiscoversTopics` speaks of the first session.

Each property is paired with a mutant of the code (an operator whose
comment begins with `mutant:`, near the definition it changes) under which the run fails.

### Where the code and its documentation disagree

Statements of the documentation that the code does not keep. Each is defined in
its module; TLC refutes it, under `FairSpec` where it is temporal, when it is put
in the place of the properties of the run's `.cfg` and the constants are changed as named.

| statement | constants | cause |
| --- | --- | --- |
| `DownIsClosed` (connection_manager.hpp:43-45) | as `connection` | `poll()` wins its compare-exchange, a disconnect or `stop()` closes the session, `poll()` then enables operations: they stay enabled without a session |
| `BarrierSettles` (ros_portal.cpp:632-633) | `TrackThreads <- SharedThread` | a track callback waits in `waitForOperations()` during an SDK reconnect on the thread that would deliver Reconnected: nobody is released |
| `ForwardsPublishers` (architecture.md:52-56) | `Steady <- Nobody` and: one topic, two sessions, `Faults <- SessionEnds`; or one topic, `Faults <- SdkRecovers`; or two topics, `Heard <- FirstHeard`, `Faults <- NoFaults`; or two topics, `Steady <- Nobody`, one session, `Faults <- NoFaults` | the last reconciled topic set survives the session, so subscriptions destroyed with it are not created in the next one when the set is the same; a topic that appears during an SDK reconnect is not reconciled when operations return; a publisher that returns to a topic kept in the graph by another subscriber, or just after its subscription was removed, is not noticed |
| `DeliveredAreRead` (ros_portal.cpp:226-230) | as `inbound_live`, `Data <- OneData`, `Video <- NoTracks`, `Faults <- NoFaults` | EOS between the cleanup check and the poll of one timer callback: the next session's tracks are registered with the old forwarder, which the late cleanup destroys; nobody announces them again |
| `CleanupPrecedesJoin` (ros_portal.hpp:344) | `Faults <- SessionEnds` | the same window: the components of the old session survive the join and are then taken down, `ComponentsFollowSession` |
| `AbsentAreRemoved` (architecture.md:53-54) | one topic, `Steady <- Nobody`, `Faults <- NoFaults` | the portal's own subscription keeps a topic in the graph, so the departure of its last publisher does not cause a reconcile |
| `DeliveredIsHeld` (latched_topic_forwarder.hpp:78) | `QuickRejoin = TRUE` | a peer leaves and rejoins between two roster snapshots and stays "delivered" |
| `LatestReachesPeers` (configuration.md:334-335, 350) | `Repeats = TRUE`, or `Callbacks <- TwoCallbacks` | state A, B, A: the second A is a duplicate of a retained message; peers stay at B. With two callbacks, encoding outside the lock reorders messages |
| `NoEcho` (topic_forwarder.hpp:318) | as `inbound` | a sample still queued when its track is taken down is no longer recognised and goes back to the room |
| `AttemptsExclusive` (connection_manager.hpp:74-76) | `Pollers <- TwoPollers` | Disconnected and EOS during a join let an overlapping timer callback begin a second one |
| `AttemptsPaced` (connection_manager.hpp:50) | `Pollers <- TwoPollers` | the retry time is tested before the claim; `next_attempt_at_` is unsynchronised then |
| `NoStaleAdmission` (connection_manager.hpp:91-93) | as `connection` | a waiter that wakes late is admitted to the next session |
| `StopReleasesWaiters` (connection_manager.hpp:43-45) | as `connection` | `disableOperations()` after `stop()` reopens the session |

With two pollers `ConnectedIsUsable`, `HealthyWhenUsable` and `JoinsCleanRoom` fail
too: the result of an abandoned join completes the attempt of another poller. The
supported layout (architecture.md:37-38) is a single-threaded container, hence one
poller in the passing runs. `EosAfterDisconnect = FALSE` breaks the first two as well:
an EOS without Disconnected permits the next join while its own close is still to come.

Others are written into the models as the code has them:

- The deadline of a remote service call starts after `call_mutex` is taken
  (`service_call.cpp:180`), so that a handler that queued for a client outlives
  its RPC; at the end of the range, 255 s, there is no margin at all
  (constants.hpp:53-54). `MarginSuffices` names both exceptions.
- Two RPCs that publish on a new topic at once may each create a publisher; one is
  dropped after its message.
- The rate window opens before the writer exists, so a sample that is not
  forwarded can keep later ones out (configuration.md:294-295). `max_rate_hz` does
  not apply to image topics. A new subscription has a new window. A clock that jumps
  back to just after the last sample goes unnoticed, which delays samples by less
  than a period.
- A latched topic that another, unlatched pattern matches is forwarded as a data
  track all the same (configuration.md:341-342).
- QoS is decided when the subscription is created; publishers that come later may
  not connect. An invalid first raw frame fixes the size of the sink all the same.
- A callback of an old subscription may, after the topic has come back with another
  type, make the writer with the old one; a topic has one type in the model.
- A capture that refuses to stop, or takes over five seconds, goes on after its
  track is unpublished; an unpublish that fails is not repeated; a source is shown
  as Running before its start has returned.
- A request for statistics that is in hand while the connection is lost and
  restored is stored as one of the new connection (`overlapped`); a loss that
  overtakes the timer's own `markConnected` is not counted and leaves Connected
  behind (`overtaken`). The number of peers may be stale: it is counted before the
  lock.
- After an EOS without Disconnected the next join may begin before the end is marked
  (`connection_manager.cpp:214-223`): the late mark leaves Disconnected behind although
  the room is up (`LateEnd`).
- The root of a circle of `.msg` files is rendered twice: it is remembered as
  `pkg/msg/T` (`renderer.cpp:138`), and a field refers to it as `pkg/T` (112-114). Such a
  circle is also one level deeper than its types are many.
- `docs/limitations.md:58` says a subscription is never removed;
  `architecture.md:54` and the code say that it is.

### Fairness

`ConnectionManager`: weak fairness of every thread inside a handler, of the
timer and of the clock, since nothing in those handlers blocks; strong fairness
of the SDK resolving a reconnect and of EOS after a disconnect, since its event
queue is first in first out. Events themselves, `stop()` and tracks are not
fair. `GraphDiscovery`: weak fairness of the worker and the timer (their waits
have timeouts), of rclcpp's listener and of the clock; strong fairness of a join
and of a component start, that is, an attempt repeated for ever succeeds at some
time. `LatchedDelivery`: weak fairness of the worker (its wait and each RPC have
a timeout) and of callbacks under way; no RPC is assumed ever to succeed.
`InboundTracks`: weak fairness of every thread of the portal, strong fairness of
taking the mutex (it is released again and again, by finitely many handlers) and
of a pause or join that is retried; frames, tracks, sessions and subscribers come
and go unfairly, so a reader that is joined ends because it is told to, not
because a frame happens to arrive. `RemoteCalls`: weak fairness of the clock, of
callers and handlers under way and of the delivery of a request that is in
transit and not lost; no service, peer or transport is assumed ever to answer.
`Schemas`: weak fairness of every caller; the room answers a definition with
success or failure. `VideoSources`: weak fairness of the owner (its one wait has a
timeout) and of a poll under way, strong fairness of the updater running each task
(they share a lock), and a capture that is told to stop ends. `OutboundMessages`
and `ConnectionHealth` are checked for safety only.

## 5. What is proved

`ConnectionManagerProofs`, for every set of pollers and track threads and every
retry interval:

- `TypeCorrect`: `Spec => []TypeOK`.
- `WakeupsDelivered`: `Spec => []NoLostWakeup`, whatever the SDK does. The
  invariant is inductive with `TypeOK`: only the steps before a `notify_all` make
  the predicate true, and the notification moves every sleeper.
- `UsableWhenConnected`: `Spec => []ConnectedIsUsable`, and `HealthyAgain`:
  `Spec => []HealthyWhenUsable`, under two assumptions named in the theorems: a single
  poller (the supported layout) and Disconnected before EOS.
- `CleanJoins`: `Spec => JoinsCleanRoom`, with a single poller, whatever order the
  events come in. `CleanInv` says that a claimed attempt, and one that failed before
  an event ended it, finds no room.
- `SeesGate`: `Spec => Gate!SafeSpec`, without assumptions. Every step of the manager
  is one of `SessionGate` or leaves gate and callers as they are.

`UsableWhenConnected` needs the strengthening `IInv`. `ConnectedIsUsable` alone is not
inductive: it says nothing about the handlers under way that will open or close
the barrier later. `AttemptInv` ties a poller's `pc` to `state`, `RoomInv` ties
`state` to what the SDK's room can be, `HandlerInv` says which state a pending
enable, disable or close of the event thread belongs to, and `OpenInv` says that
in `Connected` the barrier is open or the step that opens it is still to come,
with no close outstanding. The proof has one step per action and one per conjunct
an action can disturb. `HealthyAgain` adds `HealthInv`: a thread
that has opened the barrier still reports it, and a report of a loss or a reconnect
that is still to come finds the state, or the room, that it reports.

`GraphDiscoveryProofs`, for every set of topics, number of sessions, grace period
and choice of faults: `TypeCorrect`, `SleepsFresh` (`SleepsOnFreshSnapshot`),
`FinalShutdown` (`ShutdownIsFinal`) and `OldComponentsGo`
(`OldComponentsAreDoomed`). No property is inductive alone. `SnapshotInv` says at
every step of the worker, not only while it sleeps, that an out-of-date cache is
about to be invalidated; it survives `ReadSnapshot` only because a reader fills an
empty cache and never replaces a full one. `DoomedInv` extends
`OldComponentsAreDoomed` to a session that RoomEos has flagged but not yet
permitted to be joined again: without that window the next join would turn
components of the current session into leftovers. `ShutdownInv` adds who has
stopped by then (the timer from the start of shutdown(), the worker and the
session at its end). `HeldSnapshotInv` keeps null snapshots out of a reconcile.
There is one lemma for the worker and one for everybody else.

`LatchedDeliveryProofs`, for every number of callbacks, peers and messages:

- `TypeCorrect` and `StoreConsistent` (`StoreIsASet`), from `StoreInv` and
  `RoundInv`. `CallbackInv` says what a callback carries from one critical section
  to the next. `RoundInv` says that the worker's copy is the store unless the
  version has moved on, and that then every peer still to be pushed to has been
  re-armed since, so that settling a round never counts past the cap.
  `AppendRange`, `TailRange` and `StoreStep` are the lemmas about the bounded store.
- `CreditedIsHeld` (`DeliveredIsHeld`), assuming `~QuickRejoin`: it fails
  when a peer may leave and rejoin between two looks at the roster (section 4). `HeldInv` adds what the push under way has delivered so far.
- `GivenUpAfterTry` (`GivenUpWasTried`), assuming `~QuickRejoin` and
  `MaxFailures > 1`. `TriedInv`: since a round may end after newer state was
  stored, the first failure can concern an older copy; every later one cannot.

- `NewestArrives` (`NewestIsLast`), assuming `~QuickRejoin`: with callbacks in any
  number, messages repeated or too large, outages and failing RPCs. `LastInv` says that
  a peer is pushed to only while it is behind, and to the end of the copy, so that
  the last thing it gets is what was stored last. That this is also what was
  published last (`LatestReachesPeers`) holds under the restrictions of its run only.

`InboundTracksProofs`, for every set of tracks, number of announcements and
sessions, and choice of faults: `TypeCorrect`, `OneReader` (`OneReaderPerTrack`),
`WithinForwarder` (`ReadersWithinForwarder`) and `NoEchoOfRegistered`
(`NoEchoWhileRegistered`). None is inductive: a queued announcement may start a
second reader, and a reader that is joined is in no map. `QueueInv` says that an
announcement that waits is there once and has no reader; `JoinInv` that the thread
that joins a reader holds the lock, and that the track is free until it is done;
`MapInv` that a thread that runs is registered or is being joined; `EchoInv` that
what is queued at the portal's own subscription came from a reader that exists.

`RemoteCallsProofs`, for every set of calls, load, depth of a response queue and
all timeouts: `TypeCorrect`, `AnswersAreOwn` (`OwnAnswers`) and `MarginIsEnough`
(`MarginSuffices`). `PathInv` keeps a handler on the path of its method,
`AnswerInv` carries a response from the handler that took it to the caller.
`TimeInv` relates the two clocks of a call: until its handler polls, no time has
passed unless the handler queued for the client, and while it polls the RPC has
the margin left over.

`SchemasProofs`, for every set of callers and types, all files and every limit of
the depth: `TypeCorrect`, `RenderIsComplete` (`RenderIsClosure`),
`IdsMeanWhatTheySay` (`IdsAreDefined`), `AcceptedTracksAreShared`
(`AcceptedIsShared`). `WalkInv` is the loop invariant of the depth-first walk: what
was seen depends only on what was seen or is still to do, all of it belongs to the
type, and a call's depth is bounded by the number of names seen. `LocalInv` keeps
a definition complete while files are replaced, `DefinedInv` is the single flight
(one caller defines a schema, and an entry that is done is in the room), `RoomInv`
says who rendered what the room holds. That the dependencies of a file can be put in
order (`OrderExists`) and that the least closed set exists (`ReachableIsLeast`) are
proved as lemmas.

`OutboundMessagesProofs`, for every configuration, crowd of publishers, number of
callbacks and image states, and any clock:

- `TypeCorrect`, with `CallInv`, which says what a callback under way carries.
- `SubscriptionsConnect` (`ConnectsToAll`). `QosInv`: a subscription has the profile
  `determineQoS()` makes of the publishers it was told of. The rest is about that
  operator; the depth is a sum over the publishers, and `SumExists` and
  `SumIsLarge` say that the fold is that sum and at least each of its terms.
- `CapHolds` (`RateIsCapped`) and `CapLetsThrough` (`CapNeverStalls`), action
  properties. `CapInv`: the window opened no longer ago than the last sample
  passed, measured by a clock that may since have gone back. `StallInv`: a topic
  that drops samples has a window that is not of the future and opened before the
  first of them was dropped.
- `SourcesTypeCorrect` and `SourcesAreWithdrawn` (`TracksWithdrawn`), of `VideoSources`,
  for any number of sources, any configurations and any choice of faults. The
  property says something only of the end. `HandInv` and `OthersInv` follow the
  owner there: a source is fresh until its turn comes, then live or cleaned up
  (`Settled`), on the way back asked to stop while still published (`Asked`), and
  gone. A source whose start failed is gone before the destructor runs, which
  passes it over because its session was given up.

`ConnectionHealthProofs`, for any number of connections, requests and members, any
answers and pairs: `TypeCorrect` and `DiagnosticIsTrue` (`ReportsTheRoom`). `EventInv`
says which marks a connection may be owed. `MarkInv` says that a lost connection
is called connected only until its first mark is taken, which is where the loss
is counted (`CountInv`); a mark of an end may be owed to the connection before.
`CurrentInv` extends the property to what is not shown yet:
the earlier sample, the request that is kept and the one the timer holds.

Two forms of induction over data come up, and neither needs the theorems the
installed provers cannot use: sorting a set and the fold of a sum are proved from
a least counterexample (`NatLessThanWellFounded`, `WFMin`), by its size.

TLC was run on every invariant before it was proved. The theorems that assume
something (`UsableWhenConnected`, `CleanJoins`, `HealthyAgain`, `CreditedIsHeld`,
`GivenUpAfterTry`, `NewestArrives`) assume no more than the constants of the run that
checks the property say, and without any one of the assumptions TLC finds a
counterexample. All else they rest on is what the modules assume of their constants.

Only model-checked:

- liveness and fairness: the liveness part of `ImplementsGate`, `BarrierSettles`,
  `RetriesAfterLoss`, the runs `discovery_live` and `inbound_live`, `PushesSettle`,
  `DestroyReturns`, `EveryoneReturns`, `CallersReturn`, `EndIsReported`, and anything
  with ENABLED, which the prover does not reach;
- `LatestReachesPeers`, which is narrower than `NewestIsLast` and left to its run;
- that the disagreements of section 4 are real: counterexamples are TLC's.

## 6. Not modelled

- *Node lifecycle*: configuration, tokens and SDK start-up in `initialize()`, the
  portal's own status task. Sessions, components, events and shutdown are modelled.
- *Pure conversions*: pixel formats, JPEG, base64, CDR and JSON, message wording,
  topic name mangling, the time stamps and frame ids of inbound video
  (`utils/`, `cli/json_converters.cpp`, `inbound_video_track.cpp`). They have no
  state; what the modules need of them is whether they succeed.
- *Listing and interface RPCs* answer from the graph as it is; what they print is
  left out. *Counters* of the forwarders, log output and diagnostic texts too, except
  the losses, reconnections and statistics of `ConnectionHealth`; of the latter,
  the room name and sums over single RTC counters are left out.
- *Build info, introspection, token loader, configuration package, SCARF demo*:
  constant text, wrappers of ROS type support, file access, generated code, and a
  Python example beside the program.
- `GraphDiscovery` leaves out the service snapshot, which is a second cache with
  the same code, and treats a reconcile under `room_components_mutex_` as one step
  (the SDK thread takes the same mutex before it uses the forwarder).
  `LatchedDelivery`, `VideoSources` and a `Manager` of `RemoteCalls` live in one
  room session: they are destroyed and created with it. `ConnectionHealth` has one
  timer thread, as the supported layout.
- *Several portals* beyond the two of `RemoteCalls` and `Schemas`, and restarts of the process: the
  program keeps nothing on disk.
