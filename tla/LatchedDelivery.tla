---------------------------- MODULE LatchedDelivery ----------------------------
(***************************************************************************)
(* Outbound latched topics: latched_topic_forwarder.cpp stores the distinct*)
(* messages of a latched topic, and a worker pushes them over RPC to every *)
(* peer in the room until each has acknowledged them.                      *)
(*                                                                         *)
(*   Callbacks  executor threads in the topic's subscription callback      *)
(*              (storeOutboundMessage); the callback group is reentrant    *)
(*   worker     the push worker (runWorker, pushToPeers)                   *)
(*                                                                         *)
(* External: the publisher, the peers that join and leave the room, the    *)
(* room's availability and the outcome of an RPC.  A message is its        *)
(* content (topic, type and bytes), which is also what its hash stands     *)
(* for: contents with equal hashes are the same element of Messages.       *)
(***************************************************************************)
EXTENDS Naturals, Sequences, Functions

CONSTANTS Callbacks, Peers, Messages,
          NoMessage,    \* what a peer that has received nothing holds
          Oversize,     \* messages whose payload exceeds kMaxRpcPayloadBytes
          MaxStored,    \* max_stored_messages
          MaxFailures,  \* max_participant_failures
          MaxTaken,     \* bound: messages the subscription delivers
          Repeats,      \* external: the publisher may publish a content again
          QuickRejoin,  \* external: a peer may rejoin before a push noticed it left
          Outages       \* external: the room may become unavailable

ASSUME MessagesAssumption == Oversize \subseteq Messages /\ NoMessage \notin Messages
ASSUME LimitsAssumption ==
    MaxStored \in Nat \ {0} /\ MaxFailures \in Nat \ {0} /\ MaxTaken \in Nat
ASSUME EnvironmentAssumption ==
    Repeats \in BOOLEAN /\ QuickRejoin \in BOOLEAN /\ Outages \in BOOLEAN

VARIABLES
  available,     \* is_room_available()
  present,       \* external: peers in the room
  got,           \* external: what each peer has received since it joined
  taken,         \* external: messages the subscription has delivered, in order
  cbpc,          \* what each subscription callback does next
  holding,       \* the message of each callback
  messages,      \* messages_
  hashes,        \* message_hashes_
  version,       \* version_
  peers,         \* participant_states_
  wpc,           \* what the worker does next
  roster,        \* the worker's copy of list_remote_identities()
  batch,         \* the worker's copy of messages_
  batchVersion,  \* the worker's copy of version_
  targets,       \* peers the worker has still to push to
  target,        \* the peer the worker pushes to
  nextIndex,     \* index in batch of the message it pushes next
  stop,          \* stop_
  tried          \* history: newest version whose push to a peer has ended

roomVars == <<available, present, got>>
callbackVars == <<taken, cbpc, holding>>
storeVars == <<messages, hashes, version>>
pushVars == <<roster, batch, batchVersion, targets, target, nextIndex>>
vars == <<roomVars, callbackVars, storeVars, peers, wpc, pushVars, stop, tried>>

NewPeer == [delivered |-> 0, failures |-> 0]
NewStay == [all |-> {}, last |-> NoMessage]

TypeOK ==
  /\ available \in BOOLEAN
  /\ present \subseteq Peers
  /\ got \in [Peers -> [all : SUBSET Messages, last : Messages \cup {NoMessage}]]
  /\ taken \in Seq(Messages)
  /\ cbpc \in [Callbacks -> {"idle", "arrived", "encoded"}]
  /\ holding \in [Callbacks -> Messages \cup {NoMessage}]
  /\ messages \in Seq(Messages \ Oversize)
  /\ hashes \subseteq Messages \ Oversize
  /\ version \in Nat
  /\ DOMAIN peers \subseteq Peers
  /\ peers \in [DOMAIN peers -> [delivered : 0..version, failures : 0..MaxFailures]]
  /\ wpc \in {"sleep", "list", "plan", "pick", "push", "acked", "failed", "stopped"}
  /\ roster \subseteq Peers
  /\ batch \in Seq(Messages \ Oversize)
  /\ batchVersion \in 0..version
  /\ targets \subseteq DOMAIN peers
  /\ target \in Peers
  /\ wpc \in {"push", "acked", "failed"} => target \in targets
  /\ nextIndex \in Nat
  /\ wpc = "push" => nextIndex \in DOMAIN batch
  /\ stop \in BOOLEAN
  /\ tried \in [Peers -> 0..version]

Init ==
  /\ available = TRUE
  /\ present = {}
  /\ got = [p \in Peers |-> NewStay]
  /\ taken = <<>>
  /\ cbpc = [c \in Callbacks |-> "idle"]
  /\ holding = [c \in Callbacks |-> NoMessage]
  /\ messages = <<>>
  /\ hashes = {}
  /\ version = 0
  /\ peers = <<>>
  /\ wpc = "sleep"
  /\ roster = {}
  /\ batch = <<>>
  /\ batchVersion = 0
  /\ targets = {}
  /\ target \in Peers
  /\ nextIndex = 1
  /\ stop = FALSE
  /\ tried = [p \in Peers |-> 0]

-----------------------------------------------------------------------------
(* The room *)

RoomOnly == UNCHANGED <<callbackVars, storeVars, peers, wpc, pushVars, stop>>

(* without QuickRejoin a peer stays away until a push has forgotten it *)
Join(p) ==
  /\ p \notin present
  /\ QuickRejoin \/ (p \notin DOMAIN peers /\ ~(wpc = "plan" /\ p \in roster))
  /\ present' = present \cup {p}
  /\ got' = [got EXCEPT ![p] = NewStay]
  /\ tried' = [tried EXCEPT ![p] = 0]
  /\ RoomOnly /\ UNCHANGED available

Leave(p) ==
  /\ p \in present
  /\ present' = present \ {p}
  /\ RoomOnly /\ UNCHANGED <<available, got, tried>>

Outage ==
  /\ Outages /\ available
  /\ available' = FALSE
  /\ RoomOnly /\ UNCHANGED <<present, got, tried>>

Recovery ==
  /\ ~available
  /\ available' = TRUE
  /\ RoomOnly /\ UNCHANGED <<present, got, tried>>

-----------------------------------------------------------------------------
(* The subscription callback: storeOutboundMessage() *)

CallbackOnly == UNCHANGED <<roomVars, wpc, pushVars, stop, tried>>

Goto(c, step) == cbpc' = [cbpc EXCEPT ![c] = step]

(* the middleware delivers a message to the callback, once *)
Take(c, m) ==
  /\ cbpc[c] = "idle"
  /\ Len(taken) < MaxTaken
  /\ Repeats \/ m \notin Range(taken)
  /\ taken' = Append(taken, m)
  /\ holding' = [holding EXCEPT ![c] = m]
  /\ Goto(c, "arrived")
  /\ CallbackOnly /\ UNCHANGED <<storeVars, peers>>

(* the early returns: no room, content already stored, payload too large *)
Encode(c) ==
  /\ cbpc[c] = "arrived"
  /\ Goto(c, IF available /\ holding[c] \notin hashes \cup Oversize
             THEN "encoded" ELSE "idle")
  /\ CallbackOnly /\ UNCHANGED <<taken, holding, storeVars, peers>>

Rearmed == [p \in DOMAIN peers |-> [peers[p] EXCEPT !.failures = 0]]

(* mutant: identical content is not looked for again after the encoding *)
StoreUnchecked(c) ==
  /\ cbpc[c] = "encoded"
  /\ messages' = IF Len(messages) < MaxStored THEN Append(messages, holding[c])
                 ELSE Append(Tail(messages), holding[c])
  /\ hashes' = (hashes \cup {holding[c]})
               \ (IF Len(messages) < MaxStored THEN {} ELSE {Head(messages)})
  /\ version' = version + 1
  /\ peers' = Rearmed
  /\ Goto(c, "idle")
  /\ CallbackOnly /\ UNCHANGED <<taken, holding>>

(* mutant: new state does not re-arm the peers that were given up on *)
StoreKeepsFailures(c) ==
  /\ cbpc[c] = "encoded"
  /\ IF holding[c] \in hashes
     THEN UNCHANGED storeVars
     ELSE /\ messages' = IF Len(messages) < MaxStored THEN Append(messages, holding[c])
                         ELSE Append(Tail(messages), holding[c])
          /\ hashes' = Range(messages')
          /\ version' = version + 1
  /\ Goto(c, "idle")
  /\ CallbackOnly /\ UNCHANGED <<taken, holding, peers>>

(* mutant: a full store evicts the newest message instead of the oldest *)
StoreEvictsNewest(c) ==
  /\ cbpc[c] = "encoded"
  /\ IF holding[c] \in hashes
     THEN UNCHANGED <<storeVars, peers>>
     ELSE /\ messages' = IF Len(messages) < MaxStored THEN Append(messages, holding[c])
                         ELSE messages
          /\ hashes' = Range(messages')
          /\ version' = version + 1
          /\ peers' = Rearmed
  /\ Goto(c, "idle")
  /\ CallbackOnly /\ UNCHANGED <<taken, holding>>

(* under state_mutex_: store unless another callback stored the content    *)
(* meanwhile, evict the oldest beyond the limit, re-arm every peer         *)
Store(c) ==
  /\ cbpc[c] = "encoded"
  /\ IF holding[c] \in hashes
     THEN UNCHANGED <<storeVars, peers>>
     ELSE LET evicted == IF Len(messages) < MaxStored THEN {} ELSE {Head(messages)}
          IN  /\ messages' = IF evicted = {} THEN Append(messages, holding[c])
                             ELSE Append(Tail(messages), holding[c])
              /\ hashes' = (hashes \cup {holding[c]}) \ evicted
              /\ version' = version + 1
              /\ peers' = Rearmed
  /\ Goto(c, "idle")
  /\ CallbackOnly /\ UNCHANGED <<taken, holding>>

-----------------------------------------------------------------------------
(* The push worker *)

WorkerOnly == UNCHANGED <<available, present, callbackVars, storeVars, stop>>

(* mutant: the worker looks at stop_ only before it first sleeps *)
WakeUnstoppable ==
  /\ wpc = "sleep"
  /\ available
  /\ wpc' = "list"
  /\ WorkerOnly /\ UNCHANGED <<got, peers, pushVars, tried>>

(* wait_for(push_interval) ends: stop, or push when the room is available *)
Wake ==
  /\ wpc = "sleep"
  /\ stop \/ available
  /\ wpc' = IF stop THEN "stopped" ELSE "list"
  /\ WorkerOnly /\ UNCHANGED <<got, peers, pushVars, tried>>

(* list_remote_identities(): nobody while operations are disabled *)
List ==
  /\ wpc = "list"
  /\ roster' = IF available THEN present ELSE {}
  /\ wpc' = "plan"
  /\ WorkerOnly
  /\ UNCHANGED <<got, peers, batch, batchVersion, targets, target, nextIndex, tried>>

(* reconcileRosterLocked() *)
ReconciledRoster == [p \in roster |-> IF p \in DOMAIN peers THEN peers[p] ELSE NewPeer]

(* a peer that is behind and not given up on *)
Due(peer) == peer.delivered < version /\ peer.failures < MaxFailures

(* under state_mutex_: the roster, a copy of the store, and who is due *)
Plan ==
  /\ wpc = "plan"
  /\ peers' = ReconciledRoster
  /\ IF messages = <<>>
     THEN /\ wpc' = "sleep"
          /\ UNCHANGED pushVars
     ELSE /\ batch' = messages
          /\ batchVersion' = version
          /\ targets' = {p \in DOMAIN peers' : Due(peers'[p])}
          /\ wpc' = "pick"
          /\ UNCHANGED <<roster, target, nextIndex>>
  /\ WorkerOnly /\ UNCHANGED <<got, tried>>

(* the next peer, in the order of an unordered map *)
Pick ==
  /\ wpc = "pick"
  /\ IF targets = {}
     THEN wpc' = "sleep" /\ UNCHANGED <<target, nextIndex>>
     ELSE wpc' = "push" /\ target' \in targets /\ nextIndex' = 1
  /\ WorkerOnly
  /\ UNCHANGED <<got, peers, roster, batch, batchVersion, targets, tried>>

(* mutant: the copy is sent from its end *)
PayloadFromEnd == batch[Len(batch) + 1 - nextIndex]

(* messages are sent in the order they were stored in *)
Payload == batch[nextIndex]

Receives(p, m) ==
  got' = [got EXCEPT ![p] = [all |-> @.all \cup {m}, last |-> m]]

(* perform_rpc() returns the peer's success *)
RpcSucceeds ==
  /\ wpc = "push"
  /\ available /\ target \in present
  /\ Receives(target, Payload)
  /\ IF nextIndex = Len(batch)
     THEN wpc' = "acked" /\ UNCHANGED nextIndex
     ELSE nextIndex' = nextIndex + 1 /\ UNCHANGED wpc
  /\ WorkerOnly /\ UNCHANGED <<peers, roster, batch, batchVersion, targets, target, tried>>

(* no answer, or a rejection; the peer may have received the message *)
RpcFails ==
  /\ wpc = "push"
  /\ UNCHANGED got \/ (target \in present /\ Receives(target, Payload))
  /\ wpc' = "failed"
  /\ WorkerOnly /\ UNCHANGED <<peers, pushVars, tried>>

(* the bookkeeping of one peer, under state_mutex_ *)
Settled(p, record) ==
  /\ peers' = [peers EXCEPT ![p] = record]
  /\ targets' = targets \ {p}
  /\ tried' = [tried EXCEPT ![p] = batchVersion]
  /\ wpc' = "pick"
  /\ WorkerOnly
  /\ UNCHANGED <<got, roster, batch, batchVersion, target, nextIndex>>

(* mutant: the peer is credited with state stored during the push *)
SettleAckedCurrent ==
  /\ wpc = "acked"
  /\ Settled(target, [delivered |-> version, failures |-> 0])

SettleAcked ==
  /\ wpc = "acked"
  /\ Settled(target, [delivered |-> batchVersion, failures |-> 0])

(* mutant: failures are not counted *)
SettleFailedUncounted ==
  /\ wpc = "failed"
  /\ Settled(target, peers[target])

SettleFailed ==
  /\ wpc = "failed"
  /\ Settled(target, [peers[target] EXCEPT !.failures = @ + 1])

(* the destructor asks the worker to stop, then joins it *)
Destroy ==
  /\ ~stop
  /\ stop' = TRUE
  /\ UNCHANGED <<roomVars, callbackVars, storeVars, peers, wpc, pushVars, tried>>

Terminated == wpc = "stopped" /\ UNCHANGED vars

-----------------------------------------------------------------------------
CallbackStep(c) == Encode(c) \/ Store(c)

WorkerStep ==
  \/ Wake \/ List \/ Plan \/ Pick \/ RpcSucceeds \/ RpcFails
  \/ SettleAcked \/ SettleFailed

Next ==
  \/ \E p \in Peers : Join(p) \/ Leave(p)
  \/ Outage
  \/ Recovery
  \/ \E c \in Callbacks : CallbackStep(c) \/ \E m \in Messages : Take(c, m)
  \/ WorkerStep
  \/ Destroy
  \/ Terminated

Spec == Init /\ [][Next]_vars

(* The worker's wait and every RPC time out, and callbacks run on.  That   *)
(* an RPC ever succeeds is not assumed.                                    *)
FairSpec == Spec /\ WF_vars(WorkerStep) /\ \A c \in Callbacks : WF_vars(CallbackStep(c))

-----------------------------------------------------------------------------
Quiet == \A c \in Callbacks : cbpc[c] = "idle"

UpToDate(p) == p \in DOMAIN peers /\ peers[p].delivered = version

(* Callbacks that race with equal contents, and evictions, leave the hash  *)
(* index and the queue in agreement, without duplicates and bounded.       *)
StoreIsASet ==
  /\ hashes = Range(messages)
  /\ Len(messages) <= MaxStored
  /\ IsInjective(messages)

(* A peer that the bookkeeping calls up to date has received, since it     *)
(* joined, every message that is retained: state stored during a push is   *)
(* not credited to it, and a peer that rejoined starts from scratch.       *)
DeliveredIsHeld ==
  \A p \in present : version > 0 /\ UpToDate(p) => Range(messages) \subseteq got[p].all

(* ... and what was stored last is what such a peer received last, however *)
(* callbacks, evictions and outages fall between the messages of a push:   *)
(* its late subscribers see that state (configuration.md, lines 333-336).  *)
NewestIsLast ==
  \A p \in present :
    messages # <<>> /\ UpToDate(p) => got[p].last = messages[Len(messages)]

(* A peer is given up on only after a push of the newest state to it.      *)
GivenUpWasTried ==
  \A p \in present \cap DOMAIN peers :
    peers[p].failures = MaxFailures => tried[p] = version

(* The last message a peer received, when it is up to date, is the last    *)
(* one published, for one callback, distinct messages and no outage.       *)
LatestReachesPeers ==
  \A p \in present :
    Quiet /\ taken # <<>> /\ UpToDate(p) => got[p].last = taken[Len(taken)]

(* A peer that stays in an available room ends up to date or given up on:  *)
(* the worker does not push to it forever and does not forget it.          *)
PushesSettle ==
  \A p \in Peers :
    <>[](p \in present /\ available /\ ~stop) =>
      <>[](p \in DOMAIN peers /\ (UpToDate(p) \/ peers[p].failures >= MaxFailures))

(* The destructor's join returns. *)
DestroyReturns == stop ~> wpc = "stopped"
==============================================================================
