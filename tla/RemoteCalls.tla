------------------------------ MODULE RemoteCalls ------------------------------
(***************************************************************************)
(* Calls from one portal to another: a ROS request taken by                *)
(* service_forwarder.cpp or cli/manager.cpp becomes a LiveKit RPC, which   *)
(* the remote cli/manager.cpp serves with cli/service_call.cpp and         *)
(* cli/topic_pub.cpp.                                                      *)
(*                                                                         *)
(*   Calls  the requests; every call has a caller (an executor thread of   *)
(*          the reentrant group) and, once its RPC is delivered, a handler *)
(*          (a thread of the remote SDK)                                   *)
(*                                                                         *)
(* External: the RPC transport, the ROS services the remote portal calls,  *)
(* the ROS graph, and the room.  Time advances in ticks, and only when     *)
(* everything that is under way waits for time: a step of the code and a   *)
(* message in transit take less than a tick.                               *)
(***************************************************************************)
EXTENDS Naturals, Sequences, FiniteSets

CONSTANTS Calls,
          Loads,         \* what the calls may ask for, functions to RequestType
          Services, Topics,
          NoCall,        \* nobody holds the lock of a client
          Default,       \* kDefaultTimeoutSec
          Margin,        \* kServiceCallRpcTimeoutMarginSec
          MaxTimeout,    \* the largest value of timeout_sec, 255
          MaxClients,    \* kMaxCachedServiceClients
          MaxPublishers, \* kMaxCachedTopicPublishers
          Depth,         \* depth of a client's response queue (KEEP_LAST)
          Faults         \* external: what may go wrong in a behaviour

RequestType ==
  [kind : {"forward", "service_call"}, on : Services, asked : 0..MaxTimeout] \cup
  [kind : {"topic_pub"}, on : Topics, asked : 0..MaxTimeout] \cup
  [kind : {"list"}, on : {"graph"}, asked : 0..MaxTimeout]

Kinds == {"forward", "service_call", "topic_pub", "list"}

ASSUME NamesAssumption == NoCall \notin Calls /\ Loads \subseteq [Calls -> RequestType]
ASSUME TimesAssumption ==
  /\ Default \in Nat \ {0} /\ Margin \in Nat \ {0} /\ MaxTimeout \in Nat
  /\ Default + Margin <= MaxTimeout
ASSUME LimitsAssumption ==
  MaxClients \in Nat /\ MaxPublishers \in Nat /\ Depth \in Nat \ {0}
ASSUME FaultsAssumption == Faults \subseteq {"room", "lost", "rejected", "throw"}

VARIABLES
  req,         \* what each call asks for
  pc,          \* what each caller does next
  left,        \* ticks until the RPC of a caller times out
  outcome,     \* what the ROS client is told, or the reason that is recorded
  net,         \* external: where the RPC of a call is
  reply,       \* what the handler answered
  callerOpen,  \* is_room_available() of the calling portal
  serverOpen,  \* operations_enabled of the serving portal
  offered,     \* the ROS services the calling portal has created
  registered,  \* registered_rpc_methods_ of the serving portal's Manager
  hpc,         \* what each handler does next
  wait,        \* ticks until the deadline of a handler's poll
  queued,      \* history: a tick passed while the handler waited for the lock
  answer,      \* the call whose response a handler took
  clients,     \* keys of ServiceCall::clients_
  holder,      \* who holds call_mutex of a client
  unanswered,  \* external: requests a ROS service has still to answer
  responses,   \* external: the response queue of a client
  publishers   \* keys of TopicPub::publishers_

callerVars == <<pc, left, outcome>>
sessionVars == <<callerOpen, serverOpen, offered, registered>>
clientVars == <<clients, holder, unanswered, responses>>
handlerVars == <<hpc, wait, queued, answer, clientVars, publishers>>
vars == <<req, callerVars, net, reply, sessionVars, handlerVars>>

HandlerSteps ==
  {"idle", "decode", "client", "lock", "poll", "publisher", "create", "publish", "cache"}

Outcomes ==
  {"none", "ok", "invalid", "room_not_connected", "participant_not_found",
   "rpc_transport", "malformed_response", "remote_error", "handler_exception", "escaped"}

(* the ROS service a caller calls: one for each route, one for each command *)
Endpoint(c) == <<req[c].kind, IF req[c].kind = "forward" THEN req[c].on ELSE "cli">>
Routes == {Endpoint(c) : c \in {d \in Calls : req[d].kind = "forward"}}
Commands == {Endpoint(c) : c \in Calls} \ Routes

TypeOK ==
  /\ req \in [Calls -> RequestType]
  /\ pc \in [Calls -> {"idle", "participant", "send", "waiting", "done"}]
  /\ left \in [Calls -> 0..MaxTimeout]
  /\ outcome \in [Calls -> Outcomes]
  /\ answer \in [Calls -> Calls \cup {NoCall}]
  /\ net \in [Calls -> {"none", "request", "serving", "reply"}]
  /\ reply \in [Calls -> {"none", "ok", "error", "nothing"}]
  /\ callerOpen \in BOOLEAN /\ serverOpen \in BOOLEAN
  /\ offered \subseteq {Endpoint(c) : c \in Calls} /\ registered \subseteq Kinds
  /\ hpc \in [Calls -> HandlerSteps]
  /\ wait \in [Calls -> 0..MaxTimeout]
  /\ queued \subseteq Calls
  /\ clients \subseteq Services
  /\ holder \in [Services -> Calls \cup {NoCall}]
  /\ unanswered \in [Services -> SUBSET Calls]
  /\ responses \in [Services -> Seq(Calls)]
  /\ publishers \subseteq Topics

(* An endpoint whose fields, type or rcl service are refused is skipped,   *)
(* and the others are served.                                              *)
Created(endpoints) == IF "rejected" \in Faults THEN SUBSET endpoints ELSE {endpoints}
RouteServices == Created(Routes)
CommandServices == Created(Commands)

Init ==
  /\ req \in Loads
  /\ offered \in {r \cup k : r \in RouteServices, k \in CommandServices}
  /\ pc = [c \in Calls |-> "idle"]
  /\ left = [c \in Calls |-> 0]
  /\ outcome = [c \in Calls |-> "none"]
  /\ answer = [c \in Calls |-> NoCall]
  /\ net = [c \in Calls |-> "none"]
  /\ reply = [c \in Calls |-> "none"]
  /\ callerOpen = TRUE /\ serverOpen = TRUE
  /\ registered = {}
  /\ hpc = [c \in Calls |-> "idle"]
  /\ wait = [c \in Calls |-> 0]
  /\ queued = {}
  /\ clients = {}
  /\ holder = [s \in Services |-> NoCall]
  /\ unanswered = [s \in Services |-> {}]
  /\ responses = [s \in Services |-> <<>>]
  /\ publishers = {}

-----------------------------------------------------------------------------
(* The rooms and the serving portal's Manager *)

Methods == {"service_call", "topic_pub", "list"}
MethodOf(c) == IF req[c].kind = "forward" THEN "service_call" ELSE req[c].kind

(* a session that ends; the next one begins in the initial state *)
CallerRoom ==
  /\ "room" \in Faults /\ callerOpen
  /\ callerOpen' = FALSE
  /\ UNCHANGED <<req, callerVars, net, reply, serverOpen, offered, registered, handlerVars>>

ServerRoom ==
  /\ "room" \in Faults /\ serverOpen
  /\ serverOpen' = FALSE
  /\ UNCHANGED <<req, callerVars, net, reply, callerOpen, offered, registered, handlerVars>>

(* registration is best effort: each method that is refused stays missing *)
RegisterMethods == registered' \in (IF "room" \in Faults THEN SUBSET Methods ELSE {Methods})
UnregisterMethods == registered' = {}

StartManager ==
  /\ registered = {} /\ serverOpen
  /\ RegisterMethods
  /\ UNCHANGED <<req, callerVars, net, reply, callerOpen, serverOpen, offered, handlerVars>>

(* assumes that the SDK drops a method when its handlers have returned *)
StopManager ==
  /\ ~serverOpen /\ registered # {}
  /\ \A c \in Calls : hpc[c] = "idle"
  /\ UnregisterMethods /\ clients' = {} /\ publishers' = {}
  /\ unanswered' = [s \in Services |-> {}]
  /\ responses' = [s \in Services |-> <<>>]
  /\ UNCHANGED <<req, callerVars, net, reply, callerOpen, serverOpen, offered,
                 hpc, wait, queued, answer, holder>>

-----------------------------------------------------------------------------
(* The calling portal *)

CallerOnly == UNCHANGED <<req, reply, sessionVars, handlerVars>>

Finish(c, how) ==
  /\ pc' = [pc EXCEPT ![c] = "done"]
  /\ outcome' = [outcome EXCEPT ![c] = how]
  /\ left' = [left EXCEPT ![c] = 0]

(* mutant: the margin is forgotten *)
RpcTimeoutWithoutMargin(timeout) == timeout

EffectiveTimeout(asked) == IF asked = 0 THEN Default ELSE asked
ServiceTimeout(c) == IF req[c].kind = "forward" THEN Default ELSE EffectiveTimeout(req[c].asked)

ServiceCallRpcTimeout(timeout) ==
  IF timeout + Margin < MaxTimeout THEN timeout + Margin ELSE MaxTimeout

RpcTimeout(c) ==
  IF MethodOf(c) = "service_call" THEN ServiceCallRpcTimeout(ServiceTimeout(c))
  ELSE EffectiveTimeout(req[c].asked)

(* a handler that is running is not told *)
Abandon(c) == net' = [net EXCEPT ![c] = IF @ = "serving" THEN @ ELSE "none"]

(* room first for a forwarded request; the fields first for a command, and *)
(* a payload the remote portal would reject is rejected here already       *)
CheckForward(c) ==
  /\ pc[c] = "idle" /\ req[c].kind = "forward" /\ Endpoint(c) \in offered
  /\ IF callerOpen
     THEN pc' = [pc EXCEPT ![c] = "participant"] /\ UNCHANGED <<left, outcome>>
     ELSE Finish(c, "room_not_connected")
  /\ UNCHANGED net /\ CallerOnly

CheckCommand(c) ==
  /\ pc[c] = "idle" /\ req[c].kind # "forward" /\ Endpoint(c) \in offered
  /\ \/ "rejected" \in Faults /\ Finish(c, "invalid")
     \/ ~callerOpen /\ Finish(c, "room_not_connected")
     \/ callerOpen /\ pc' = [pc EXCEPT ![c] = "participant"] /\ UNCHANGED <<left, outcome>>
  /\ UNCHANGED net /\ CallerOnly

CheckParticipant(c) ==
  /\ pc[c] = "participant"
  /\ \/ (callerOpen => "lost" \in Faults) /\ Finish(c, "participant_not_found")
     \/ /\ callerOpen
        /\ pc' = [pc EXCEPT ![c] = "send"]
        /\ UNCHANGED <<left, outcome>>
  /\ UNCHANGED net /\ CallerOnly

RpcPerform(c) ==
  /\ pc[c] = "send"
  /\ IF callerOpen
     THEN /\ pc' = [pc EXCEPT ![c] = "waiting"]
          /\ left' = [left EXCEPT ![c] = RpcTimeout(c)]
          /\ net' = [net EXCEPT ![c] = "request"]
          /\ UNCHANGED outcome
     ELSE Finish(c, "rpc_transport") /\ UNCHANGED net
  /\ CallerOnly

(* An exception that is no RpcError, from a participant that a disconnect   *)
(* invalidated: the forwarded service catches it and still responds, a     *)
(* command's service lets it escape into the executor.                     *)
RpcThrows(c) ==
  /\ pc[c] = "send" /\ "throw" \in Faults
  /\ Finish(c, IF req[c].kind = "forward" THEN "handler_exception" ELSE "escaped")
  /\ UNCHANGED net /\ CallerOnly

(* the transport says so at once: the peer is gone, or has no such method *)
RpcFails(c) ==
  /\ pc[c] = "waiting" /\ "lost" \in Faults
  /\ Finish(c, "rpc_transport") /\ Abandon(c)
  /\ CallerOnly

NoSuchMethod(c) ==
  /\ pc[c] = "waiting" /\ net[c] = "request" /\ MethodOf(c) \notin registered
  /\ Finish(c, "rpc_transport") /\ Abandon(c)
  /\ CallerOnly

(* a request or an answer is lost and nobody is told *)
RpcLost(c) ==
  /\ "lost" \in Faults /\ pc[c] = "waiting" /\ net[c] \in {"request", "reply"}
  /\ net' = [net EXCEPT ![c] = "none"]
  /\ UNCHANGED callerVars /\ CallerOnly

RpcExpires(c) ==
  /\ pc[c] = "waiting" /\ left[c] = 0
  /\ Finish(c, "rpc_transport") /\ Abandon(c)
  /\ CallerOnly

Reported ==
  [none |-> "malformed_response", nothing |-> "malformed_response",
   error |-> "remote_error", ok |-> "ok"]

RpcReturns(c) ==
  /\ pc[c] = "waiting" /\ net[c] = "reply"
  /\ Finish(c, Reported[reply[c]])
  /\ net' = [net EXCEPT ![c] = "none"]
  /\ CallerOnly

-----------------------------------------------------------------------------
(* The serving portal *)

ServerOnly == UNCHANGED <<req, callerVars, sessionVars>>

(* an answer to a caller that has given up is dropped by the transport *)
Replies(c, what) ==
  /\ reply' = [reply EXCEPT ![c] = what]
  /\ net' = [net EXCEPT ![c] = IF pc[c] = "waiting" THEN "reply" ELSE "none"]
  /\ hpc' = [hpc EXCEPT ![c] = "idle"]

Goes(c, step) == hpc' = [hpc EXCEPT ![c] = step] /\ UNCHANGED <<net, reply>>

Invoke(c) ==
  /\ net[c] = "request" /\ MethodOf(c) \in registered
  /\ IF serverOpen
     THEN /\ net' = [net EXCEPT ![c] = "serving"]
          /\ hpc' = [hpc EXCEPT ![c] = "decode"]
          /\ UNCHANGED reply
     ELSE Replies(c, "nothing")
  /\ ServerOnly /\ UNCHANGED <<wait, queued, answer, clientVars, publishers>>

(* which payloads the decoders refuse is left open *)
Undecodable == "rejected" \in Faults

(* list RPCs answer from the graph as it is now *)
Decode(c) ==
  /\ hpc[c] = "decode"
  /\ \/ Undecodable /\ Replies(c, "error")
     \/ MethodOf(c) = "list" /\ Replies(c, "ok")
     \/ MethodOf(c) = "service_call" /\ Goes(c, "client")
     \/ MethodOf(c) = "topic_pub" /\ Goes(c, "publisher")
  /\ ServerOnly /\ UNCHANGED <<wait, queued, answer, clientVars, publishers>>

(* a new client is kept even if the request cannot be built *)
GetClient(c) ==
  /\ hpc[c] = "client"
  /\ LET s == req[c].on
         found == s \in clients
         full == Cardinality(clients) >= MaxClients
     IN \/ /\ found \/ ~full
           /\ clients' = clients \cup {s}
           /\ Goes(c, "lock") \/ ("rejected" \in Faults /\ Replies(c, "error"))
        \/ /\ ~found /\ (~full => "rejected" \in Faults)
           /\ UNCHANGED clients
           /\ Replies(c, "error")
  /\ ServerOnly /\ UNCHANGED <<wait, queued, answer, holder, unanswered, responses, publishers>>

(* The deadline starts when the lock is taken. *)
SendRequest(c) ==
  LET s == req[c].on IN
  /\ hpc[c] = "lock" /\ holder[s] = NoCall
  /\ \/ /\ holder' = [holder EXCEPT ![s] = c]
        /\ unanswered' = [unanswered EXCEPT ![s] = @ \cup {c}]
        /\ wait' = [wait EXCEPT ![c] = ServiceTimeout(c)]
        /\ Goes(c, "poll")
     \/ /\ "rejected" \in Faults /\ Replies(c, "error")
        /\ UNCHANGED <<holder, unanswered, wait>>
  /\ ServerOnly /\ UNCHANGED <<queued, answer, clients, responses, publishers>>

(* external: the service answers; the queue keeps the newest Depth answers *)
ServiceAnswers(s) ==
  /\ \E c \in unanswered[s] :
       /\ unanswered' = [unanswered EXCEPT ![s] = @ \ {c}]
       /\ responses' = [responses EXCEPT ![s] =
            LET all == Append(@, c)
            IN IF Len(all) > Depth THEN Tail(all) ELSE all]
  /\ ServerOnly
  /\ UNCHANGED <<net, reply, hpc, wait, queued, answer, clients, holder, publishers>>

(* mutant: the sequence number is ignored *)
IsAny(c, taken) == taken \in Calls

Release(c) == holder' = [holder EXCEPT ![req[c].on] = NoCall]

IsOwn(c, taken) == taken = c

(* mutant: the early return keeps the lock *)
CallTimesOutLocked(c) ==
  /\ hpc[c] = "poll" /\ wait[c] = 0
  /\ Replies(c, "error")
  /\ ServerOnly
  /\ UNCHANGED <<wait, queued, answer, clientVars, publishers>>

(* Answers to other calls are taken and thrown away, up to the own one.    *)
(* The queue never holds more of them than one poll may take               *)
(* (kMaxStaleResponseDrains).                                              *)
TakeResponse(c) ==
  LET s == req[c].on
      all == responses[s]
      NoneOwn(n) == \A i \in 1..n : ~IsOwn(c, all[i])
  IN
  /\ hpc[c] = "poll" /\ wait[c] > 0 /\ all # <<>>
  /\ \/ /\ NoneOwn(Len(all))
        /\ responses' = [responses EXCEPT ![s] = <<>>]
        /\ UNCHANGED <<net, reply, hpc, holder, answer>>
     \/ \E i \in 1..Len(all) :
          /\ NoneOwn(i - 1) /\ IsOwn(c, all[i])
          /\ responses' = [responses EXCEPT ![s] = SubSeq(all, i + 1, Len(all))]
          /\ answer' = [answer EXCEPT ![c] = all[i]]
          /\ Release(c)
          /\ Replies(c, "ok") \/ ("rejected" \in Faults /\ Replies(c, "error"))
  /\ ServerOnly /\ UNCHANGED <<wait, queued, clients, unanswered, publishers>>

CallTimesOut(c) ==
  /\ hpc[c] = "poll" /\ wait[c] = 0
  /\ Release(c)
  /\ Replies(c, "error")
  /\ ServerOnly
  /\ UNCHANGED <<wait, queued, answer, clients, unanswered, responses, publishers>>

PublishersFull == Cardinality(publishers) >= MaxPublishers

(* the allow policy, then the cache under its lock *)
FindPublisher(c) ==
  LET t == req[c].on IN
  /\ hpc[c] = "publisher"
  /\ \/ t \in publishers /\ Goes(c, "publish")
     \/ t \notin publishers /\ ~PublishersFull /\ Goes(c, "create")
     \/ t \notin publishers /\ PublishersFull /\ Replies(c, "error")
     \/ "rejected" \in Faults /\ Replies(c, "error")
  /\ ServerOnly /\ UNCHANGED <<wait, queued, answer, clientVars, publishers>>

(* A publisher that was not cached publishes, and is offered to the cache. *)
Publish(c) ==
  /\ \/ hpc[c] = "publish" /\ Replies(c, "ok")
     \/ hpc[c] = "create" /\ Goes(c, "cache")
     \/ hpc[c] \in {"publish", "create"} /\ "rejected" \in Faults /\ Replies(c, "error")
  /\ ServerOnly /\ UNCHANGED <<wait, queued, answer, clientVars, publishers>>

CachePublisher(c) ==
  /\ hpc[c] = "cache"
  /\ publishers' = IF PublishersFull THEN publishers ELSE publishers \cup {req[c].on}
  /\ Replies(c, "ok")
  /\ ServerOnly /\ UNCHANGED <<wait, queued, answer, clientVars>>

-----------------------------------------------------------------------------
(* what is under way that takes less than a tick *)
Blocked(c) == hpc[c] = "lock" /\ holder[req[c].on] # NoCall
Polls(c) == hpc[c] = "poll" /\ wait[c] > 0 /\ responses[req[c].on] = <<>>

Waits(c) ==
  /\ pc[c] \in {"idle", "waiting", "done"}
  /\ pc[c] = "waiting" => left[c] > 0 /\ net[c] # "reply"
  /\ net[c] # "request"
  /\ hpc[c] = "idle" \/ Blocked(c) \/ Polls(c)

Pred(n) == IF n = 0 THEN 0 ELSE n - 1

Tick ==
  /\ \A c \in Calls : Waits(c)
  /\ \E c \in Calls : pc[c] = "waiting" \/ hpc[c] # "idle"
  /\ left' = [c \in Calls |-> Pred(left[c])]
  /\ wait' = [c \in Calls |-> Pred(wait[c])]
  /\ queued' = queued \cup {c \in Calls : Blocked(c)}
  /\ UNCHANGED <<req, pc, outcome, net, reply, sessionVars, hpc, answer, clientVars, publishers>>

CallerStep(c) ==
  CheckParticipant(c) \/ RpcPerform(c) \/ RpcReturns(c) \/ RpcExpires(c)

Delivery(c) == Invoke(c) \/ NoSuchMethod(c)

HandlerStep(c) ==
  \/ Decode(c) \/ GetClient(c) \/ SendRequest(c) \/ TakeResponse(c) \/ CallTimesOut(c)
  \/ FindPublisher(c) \/ Publish(c) \/ CachePublisher(c)

Unserved(c) == pc[c] = "idle" /\ Endpoint(c) \notin offered

Terminated ==
  /\ \A c \in Calls : (pc[c] = "done" \/ Unserved(c)) /\ hpc[c] = "idle"
  /\ UNCHANGED vars

Next ==
  \/ CallerRoom \/ ServerRoom \/ StartManager \/ StopManager
  \/ \E c \in Calls :
       \/ CheckForward(c) \/ CheckCommand(c) \/ CallerStep(c)
       \/ RpcThrows(c) \/ RpcFails(c) \/ RpcLost(c) \/ Delivery(c) \/ HandlerStep(c)
  \/ \E s \in Services : ServiceAnswers(s)
  \/ Tick
  \/ Terminated

Spec == Init /\ [][Next]_vars

(* Threads run on and time passes.  That the peer, the transport or a ROS  *)
(* service ever answers is not assumed.                                    *)
FairSpec ==
  /\ Spec /\ WF_vars(Tick)
  /\ \A c \in Calls : WF_vars(CallerStep(c)) /\ WF_vars(Delivery(c)) /\ WF_vars(HandlerStep(c))

-----------------------------------------------------------------------------
(* A forwarded request or a service call that succeeds carries the answer  *)
(* to itself, although clients are shared and a service may answer a call  *)
(* after it was given up (service_call.cpp: "steal each other's            *)
(* responses").                                                            *)
OwnAnswers ==
  \A c \in Calls : outcome[c] = "ok" /\ MethodOf(c) = "service_call" => answer[c] = c

(* The RPC outlives the service call it waits for (constants.hpp, line     *)
(* 54), unless the handler had to queue for the client or the timeout is   *)
(* at the end of its range.                                                *)
MarginSuffices ==
  \A c \in Calls :
    pc[c] = "waiting" /\ left[c] = 0 /\ hpc[c] # "idle" =>
      c \in queued \/ ServiceTimeout(c) + Margin > MaxTimeout

(* A ROS client is always answered, and no handler keeps its thread, nor a *)
(* client its lock, forever, whatever the services answer.                 *)
EveryoneReturns ==
  \A c \in Calls :
    /\ pc[c] # "idle" ~> pc[c] = "done"
    /\ hpc[c] # "idle" ~> hpc[c] = "idle"
==============================================================================
