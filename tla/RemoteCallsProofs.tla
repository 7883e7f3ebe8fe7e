-------------------------- MODULE RemoteCallsProofs --------------------------
(***************************************************************************)
(* Machine-checked theorems about RemoteCalls, for every set of calls,     *)
(* every load, all timeouts and limits, and every combination of faults.   *)
(***************************************************************************)
EXTENDS RemoteCalls, SequenceTheorems, TLAPS

(* A handler follows the path of its method.                               *)
Calling == {"client", "lock", "poll"}
Publishing == {"publisher", "create", "publish", "cache"}

PathInv ==
  \A c \in Calls : /\ hpc[c] \in Calling => MethodOf(c) = "service_call"
                   /\ hpc[c] \in Publishing => MethodOf(c) = "topic_pub"

(* What the handler of a service call answers, and what its caller is told *)
(* after that, rests on the response that the handler took.                *)
AnswerInv ==
  \A c \in Calls :
    /\ MethodOf(c) = "service_call" /\ reply[c] = "ok" => answer[c] = c
    /\ MethodOf(c) = "service_call" /\ outcome[c] = "ok" => answer[c] = c

(* Before it is sent, a call has no message and no handler.  Until its     *)
(* handler polls, no time passes unless the handler queues for the client; *)
(* while it polls, the RPC stays ahead of the poll by the margin.          *)
Fits(c) == ServiceTimeout(c) + Margin <= MaxTimeout

TimeInv ==
  \A c \in Calls :
    /\ pc[c] \in {"idle", "participant", "send"} => net[c] = "none" /\ hpc[c] = "idle"
    /\ pc[c] = "waiting" /\ c \notin queued
         => /\ net[c] = "request" \/ hpc[c] \notin {"idle", "poll"} => left[c] = RpcTimeout(c)
            /\ hpc[c] = "poll" /\ Fits(c) => left[c] >= wait[c] + Margin

IInv == TypeOK /\ PathInv /\ AnswerInv /\ TimeInv

-----------------------------------------------------------------------------
(* What a request may be, and its timeouts: an RPC has at least a tick,    *)
(* and a service call's RPC has the margin on top if the sum fits.         *)
LEMMA RequestFacts ==
  ASSUME TypeOK, NEW c \in Calls
  PROVE  /\ MethodOf(c) \in Methods
         /\ MethodOf(c) = "service_call" => req[c].on \in Services
         /\ MethodOf(c) = "topic_pub" => req[c].on \in Topics
         /\ ServiceTimeout(c) \in 1..MaxTimeout
         /\ RpcTimeout(c) \in 1..MaxTimeout
         /\ MethodOf(c) = "service_call" /\ Fits(c)
              => RpcTimeout(c) = ServiceTimeout(c) + Margin
<1>1. /\ req[c].kind \in Kinds /\ req[c].asked \in 0..MaxTimeout
      /\ req[c].kind \in {"forward", "service_call"} => req[c].on \in Services
      /\ req[c].kind = "topic_pub" => req[c].on \in Topics
  <2>1. req[c] \in RequestType
    BY DEF TypeOK
  <2> QED  BY <2>1 DEF RequestType, Kinds
<1>2. EffectiveTimeout(req[c].asked) \in 1..MaxTimeout /\ Default \in 1..MaxTimeout
  BY <1>1, TimesAssumption DEF EffectiveTimeout
<1>3. ServiceTimeout(c) \in 1..MaxTimeout
  BY <1>2 DEF ServiceTimeout
<1>4. /\ ServiceCallRpcTimeout(ServiceTimeout(c)) \in 1..MaxTimeout
      /\ Fits(c) => ServiceCallRpcTimeout(ServiceTimeout(c)) = ServiceTimeout(c) + Margin
  BY <1>3, TimesAssumption DEF ServiceCallRpcTimeout, Fits
<1> QED  BY <1>1, <1>2, <1>3, <1>4 DEF MethodOf, Methods, Kinds, RpcTimeout

(* Which variables a step of a caller, or the start of an RPC, changes.    *)
CallerEffect(c) ==
  /\ CallerOnly
  /\ pc' = [pc EXCEPT ![c] = pc'[c]] /\ pc'[c] \in {"participant", "send", "waiting", "done"}
  /\ left' = [left EXCEPT ![c] = left'[c]] /\ left'[c] \in 0..MaxTimeout
  /\ outcome' = [outcome EXCEPT ![c] = outcome'[c]] /\ outcome'[c] \in Outcomes
  /\ net' = [net EXCEPT ![c] = net'[c]] /\ net'[c] \in {"none", "request", "serving", "reply"}
  /\ pc'[c] \in {"participant", "send"}
       => pc[c] \in {"idle", "participant", "send"} /\ UNCHANGED <<net, outcome>>
  /\ pc'[c] = "waiting"
       => \/ pc[c] = "send" /\ net'[c] = "request" /\ left'[c] = RpcTimeout(c)
          \/ pc[c] = "waiting" /\ net'[c] = "none" /\ UNCHANGED left
  /\ outcome'[c] = "ok" => outcome[c] = "ok" \/ reply[c] = "ok"

LEMMA CallerStepEffects ==
  ASSUME TypeOK, NEW c \in Calls,
         \/ CheckForward(c) \/ CheckCommand(c) \/ CallerStep(c)
         \/ RpcThrows(c) \/ RpcFails(c) \/ RpcLost(c) \/ NoSuchMethod(c)
  PROVE  CallerEffect(c)
<1> USE DEF CallerEffect, TypeOK, Outcomes
<1>0. 0 \in 0..MaxTimeout
  BY TimesAssumption
<1>1. CASE CheckForward(c) \/ CheckCommand(c) \/ CheckParticipant(c)
  BY <1>0, <1>1 DEF CheckForward, CheckCommand, CheckParticipant, Finish
<1>2. CASE RpcPerform(c)
  BY <1>0, <1>2, RequestFacts DEF RpcPerform, Finish
<1>3. CASE RpcThrows(c)
  BY <1>0, <1>3 DEF RpcThrows, Finish
<1>4. CASE RpcFails(c) \/ NoSuchMethod(c) \/ RpcExpires(c)
  BY <1>0, <1>4 DEF RpcFails, NoSuchMethod, RpcExpires, Finish, Abandon
<1>5. CASE RpcLost(c)
  BY <1>0, <1>5 DEF RpcLost, callerVars
<1>6. CASE RpcReturns(c)
  <2>1. /\ Reported[reply[c]] \in Outcomes
        /\ Reported[reply[c]] = "ok" => reply[c] = "ok"
    BY DEF Reported
  <2> QED  BY <1>0, <1>6, <2>1 DEF RpcReturns, Finish
<1> QED  BY <1>1, <1>2, <1>3, <1>4, <1>5, <1>6 DEF CallerStep

(* Which variables of the caller, the transport and the handler itself a   *)
(* step of a handler changes.                                              *)
HandlerEffect(c) ==
  /\ ServerOnly
  /\ hpc[c] # "idle" \/ net[c] = "request"
  /\ net' = [net EXCEPT ![c] = net'[c]] /\ net'[c] \in {net[c], "none", "serving", "reply"}
  /\ reply' = [reply EXCEPT ![c] = reply'[c]] /\ reply'[c] \in {reply[c], "ok", "error", "nothing"}
  /\ hpc' = [hpc EXCEPT ![c] = hpc'[c]] /\ hpc'[c] \in HandlerSteps
  /\ hpc'[c] \in Calling => MethodOf(c) = "service_call"
  /\ hpc'[c] \in Publishing => MethodOf(c) = "topic_pub"
  /\ wait' = [wait EXCEPT ![c] = wait'[c]] /\ wait'[c] \in 0..MaxTimeout
  /\ answer' = [answer EXCEPT ![c] = answer'[c]] /\ answer'[c] \in {answer[c], c}
  /\ UNCHANGED queued
  /\ MethodOf(c) = "service_call" /\ reply'[c] = "ok" => reply[c] = "ok" \/ answer'[c] = c
  /\ hpc'[c] = "poll" => \/ hpc[c] = "lock" /\ wait'[c] = ServiceTimeout(c)
                         \/ hpc[c] = "poll" /\ wait'[c] = wait[c]
  /\ hpc'[c] \notin {"idle", "poll"} => hpc[c] \notin {"idle", "poll"} \/ net[c] = "request"
  /\ net'[c] = "request" => net[c] = "request"

LEMMA HandlerStepEffects ==
  ASSUME TypeOK, PathInv, NEW c \in Calls, Invoke(c) \/ HandlerStep(c)
  PROVE  HandlerEffect(c)
<1> USE DEF HandlerEffect, HandlerSteps, Calling, Publishing, Replies, Goes
<1>0. /\ net = [net EXCEPT ![c] = net[c]] /\ reply = [reply EXCEPT ![c] = reply[c]]
      /\ hpc = [hpc EXCEPT ![c] = hpc[c]] /\ wait = [wait EXCEPT ![c] = wait[c]]
      /\ answer = [answer EXCEPT ![c] = answer[c]]
      /\ hpc[c] \in HandlerSteps /\ wait[c] \in 0..MaxTimeout
      /\ c \in DOMAIN net /\ c \in DOMAIN reply /\ c \in DOMAIN hpc /\ c \in DOMAIN wait
      /\ c \in DOMAIN answer
      /\ hpc[c] \in Calling => MethodOf(c) = "service_call"
      /\ hpc[c] \in Publishing => MethodOf(c) = "topic_pub"
  BY DEF TypeOK, PathInv
<1>1. CASE Invoke(c)
  BY <1>0, <1>1 DEF Invoke
<1>2. CASE Decode(c)
  BY <1>0, <1>2 DEF Decode
<1>3. CASE GetClient(c)
  BY <1>0, <1>3 DEF GetClient, clientVars
<1>4. CASE SendRequest(c)
  BY <1>0, <1>4, RequestFacts DEF SendRequest
<1>5. CASE TakeResponse(c)
  BY <1>0, <1>5 DEF TakeResponse, IsOwn
<1>6. CASE CallTimesOut(c)
  BY <1>0, <1>6 DEF CallTimesOut
<1>7. CASE FindPublisher(c)
  BY <1>0, <1>7 DEF FindPublisher
<1>8. CASE Publish(c) \/ CachePublisher(c)
  BY <1>0, <1>8 DEF Publish, CachePublisher
<1> QED  BY <1>1, <1>2, <1>3, <1>4, <1>5, <1>6, <1>7, <1>8 DEF HandlerStep

(* The steps that are neither a caller's nor a handler's.                  *)
Around == CallerRoom \/ ServerRoom \/ StartManager \/ StopManager
          \/ \E s \in Services : ServiceAnswers(s)

LEMMA AroundEffects ==
  ASSUME Around
  PROVE  /\ UNCHANGED <<req, callerVars, net, reply, offered, hpc, wait, queued, answer>>
         /\ holder' = holder
<1>1. CASE CallerRoom \/ ServerRoom \/ StartManager \/ StopManager
  BY <1>1 DEF CallerRoom, ServerRoom, StartManager, StopManager, handlerVars, clientVars
<1>2. CASE \E s \in Services : ServiceAnswers(s)
  BY <1>2 DEF ServiceAnswers, ServerOnly, sessionVars
<1> QED  BY <1>1, <1>2 DEF Around

(* The shared clients and publishers keep their types.                     *)
SharedTypeOK ==
  /\ clients \subseteq Services
  /\ holder \in [Services -> Calls \cup {NoCall}]
  /\ unanswered \in [Services -> SUBSET Calls]
  /\ responses \in [Services -> Seq(Calls)]
  /\ publishers \subseteq Topics

LEMMA SharedByHandlers ==
  ASSUME TypeOK, PathInv, NEW c \in Calls, Invoke(c) \/ HandlerStep(c)
  PROVE  SharedTypeOK'
<1> DEFINE s == req[c].on
<1> USE RequestFacts DEF SharedTypeOK, TypeOK
<1>1. CASE Invoke(c) \/ Decode(c) \/ FindPublisher(c) \/ Publish(c)
  BY <1>1 DEF Invoke, Decode, FindPublisher, Publish, clientVars
<1>2. CASE GetClient(c)
  BY <1>2 DEF GetClient, PathInv, Calling
<1>3. CASE SendRequest(c)
  <2>1. s \in Services /\ UNCHANGED <<clients, responses, publishers>>
    BY <1>3 DEF SendRequest, PathInv, Calling
  <2>2. \/ UNCHANGED <<holder, unanswered>>
        \/ /\ holder' = [holder EXCEPT ![s] = c]
           /\ unanswered' = [unanswered EXCEPT ![s] = unanswered[s] \cup {c}]
    BY <1>3 DEF SendRequest
  <2>3. unanswered[s] \cup {c} \in SUBSET Calls
    BY <2>1
  <2>4. holder' \in [Services -> Calls \cup {NoCall}]
    BY <2>2
  <2>5. unanswered' \in [Services -> SUBSET Calls]
    BY <2>2, <2>3
  <2> QED  BY <2>1, <2>4, <2>5
<1>4. CASE TakeResponse(c)
  <2>1. s \in Services /\ responses[s] \in Seq(Calls) /\ Len(responses[s]) \in Nat
    BY <1>4, LenProperties DEF TakeResponse, PathInv, Calling
  <2>2. <<>> \in Seq(Calls)
    BY EmptySeq
  <2>3. \A i \in 1..Len(responses[s]) :
          SubSeq(responses[s], i + 1, Len(responses[s])) \in Seq(Calls)
    <3> SUFFICES ASSUME NEW i \in 1..Len(responses[s])
                 PROVE  SubSeq(responses[s], i + 1, Len(responses[s])) \in Seq(Calls)
      OBVIOUS
    <3>1. \A j \in (i + 1)..Len(responses[s]) : responses[s][j] \in Calls
      BY <2>1, ElementOfSeq
    <3> QED  BY <2>1, <3>1, SubSeqProperties
  <2>4. /\ \/ responses' = [responses EXCEPT ![s] = <<>>] /\ holder' = holder
           \/ \E i \in 1..Len(responses[s]) :
                /\ responses' = [responses EXCEPT ![s] =
                                   SubSeq(responses[s], i + 1, Len(responses[s]))]
                /\ holder' = [holder EXCEPT ![s] = NoCall]
        /\ UNCHANGED <<clients, unanswered, publishers>>
    BY <1>4 DEF TakeResponse, Release
  <2> QED  BY <2>1, <2>2, <2>3, <2>4
<1>5. CASE CallTimesOut(c)
  BY <1>5 DEF CallTimesOut, Release
<1>6. CASE CachePublisher(c)
  BY <1>6 DEF CachePublisher, PathInv, Publishing, clientVars
<1> QED  BY <1>1, <1>2, <1>3, <1>4, <1>5, <1>6 DEF HandlerStep

LEMMA SharedAround ==
  ASSUME TypeOK, Around
  PROVE  SharedTypeOK'
<1> USE DEF SharedTypeOK, TypeOK
<1>1. CASE CallerRoom \/ ServerRoom \/ StartManager
  BY <1>1 DEF CallerRoom, ServerRoom, StartManager, handlerVars, clientVars
<1>2. CASE StopManager
  BY <1>2, EmptySeq DEF StopManager
<1>3. ASSUME NEW s \in Services, ServiceAnswers(s) PROVE SharedTypeOK'
  <2>1. PICK c \in unanswered[s] :
          /\ unanswered' = [unanswered EXCEPT ![s] = @ \ {c}]
          /\ responses' = [responses EXCEPT ![s] =
               LET all == Append(@, c)
               IN IF Len(all) > Depth THEN Tail(all) ELSE all]
    BY <1>3 DEF ServiceAnswers
  <2> DEFINE all == Append(responses[s], c)
  <2>2. responses[s] \in Seq(Calls) /\ c \in Calls
    OBVIOUS
  <2>3. all \in Seq(Calls) /\ Len(all) = Len(responses[s]) + 1 /\ Len(responses[s]) \in Nat
    BY <2>2, AppendProperties, LenProperties
  <2>4. all # <<>> /\ Tail(all) \in Seq(Calls)
    <3> HIDE DEF all
    <3>1. all # <<>>
      BY <2>3, EmptySeq
    <3> QED  BY <2>3, <3>1, HeadTailProperties
  <2>5. responses' = [responses EXCEPT ![s] = IF Len(all) > Depth THEN Tail(all) ELSE all]
    BY <2>1
  <2>6. UNCHANGED <<clients, holder, publishers>>
    BY <1>3 DEF ServiceAnswers
  <2> HIDE DEF all
  <2>7. responses' \in [Services -> Seq(Calls)]
    BY <2>3, <2>4, <2>5
  <2>8. unanswered' \in [Services -> SUBSET Calls]
    BY <2>1
  <2> QED  BY <2>6, <2>7, <2>8
<1> QED  BY <1>1, <1>2, <1>3 DEF Around

(* A function that changes at one point, to a value of its range.          *)
LEMMA UpdateType ==
  ASSUME NEW S, NEW T, NEW f \in [S -> T], NEW g, NEW c \in S,
         g = [f EXCEPT ![c] = g[c]], g[c] \in T
  PROVE  g \in [S -> T]
<1> DEFINE v == g[c]
<1>1. v \in T /\ g = [f EXCEPT ![c] = v]
  OBVIOUS
<1> HIDE DEF v
<1> QED  BY <1>1

(* One step keeps the types, and every handler on the path of its method.  *)
LEMMA TypeStep ==
  ASSUME TypeOK, PathInv, [Next]_vars
  PROVE  TypeOK' /\ PathInv'
<1>1. ASSUME NEW c \in Calls,
             \/ CheckForward(c) \/ CheckCommand(c) \/ CallerStep(c)
             \/ RpcThrows(c) \/ RpcFails(c) \/ RpcLost(c) \/ NoSuchMethod(c)
      PROVE  TypeOK' /\ PathInv'
  <2>1. CallerEffect(c)
    BY <1>1, CallerStepEffects
  <2>2. UNCHANGED <<req, reply, sessionVars, handlerVars>>
    BY <2>1 DEF CallerEffect, CallerOnly
  <2>3. /\ pc' \in [Calls -> {"idle", "participant", "send", "waiting", "done"}]
        /\ left' \in [Calls -> 0..MaxTimeout]
        /\ outcome' \in [Calls -> Outcomes]
        /\ net' \in [Calls -> {"none", "request", "serving", "reply"}]
    <3>1. pc' \in [Calls -> {"idle", "participant", "send", "waiting", "done"}]
      <4>1. /\ pc \in [Calls -> {"idle", "participant", "send", "waiting", "done"}]
            /\ pc' = [pc EXCEPT ![c] = pc'[c]] /\ pc'[c] \in {"idle", "participant", "send", "waiting", "done"}
        BY <2>1 DEF CallerEffect, TypeOK
      <4> QED  BY <4>1, UpdateType
    <3>2. left' \in [Calls -> 0..MaxTimeout]
      <4>1. /\ left \in [Calls -> 0..MaxTimeout]
            /\ left' = [left EXCEPT ![c] = left'[c]] /\ left'[c] \in 0..MaxTimeout
        BY <2>1 DEF CallerEffect, TypeOK
      <4> QED  BY <4>1, UpdateType
    <3>3. outcome' \in [Calls -> Outcomes]
      <4>1. /\ outcome \in [Calls -> Outcomes]
            /\ outcome' = [outcome EXCEPT ![c] = outcome'[c]] /\ outcome'[c] \in Outcomes
        BY <2>1 DEF CallerEffect, TypeOK
      <4> QED  BY <4>1, UpdateType
    <3>4. net' \in [Calls -> {"none", "request", "serving", "reply"}]
      <4>1. /\ net \in [Calls -> {"none", "request", "serving", "reply"}]
            /\ net' = [net EXCEPT ![c] = net'[c]] /\ net'[c] \in {"none", "request", "serving", "reply"}
        BY <2>1 DEF CallerEffect, TypeOK
      <4> QED  BY <4>1, UpdateType
    <3> QED  BY <3>1, <3>2, <3>3, <3>4
  <2>4. TypeOK'
    BY <2>2, <2>3 DEF TypeOK, sessionVars, handlerVars, clientVars, Endpoint
  <2> QED  BY <2>2, <2>4 DEF PathInv, MethodOf, handlerVars
<1>2. ASSUME NEW c \in Calls, Invoke(c) \/ HandlerStep(c) PROVE TypeOK' /\ PathInv'
  <2>1. HandlerEffect(c) /\ SharedTypeOK'
    BY <1>2, HandlerStepEffects, SharedByHandlers
  <2>2. UNCHANGED <<req, callerVars, sessionVars, queued>>
    BY <2>1 DEF HandlerEffect, ServerOnly
  <2>3. /\ net' \in [Calls -> {"none", "request", "serving", "reply"}]
        /\ reply' \in [Calls -> {"none", "ok", "error", "nothing"}]
        /\ hpc' \in [Calls -> HandlerSteps]
        /\ wait' \in [Calls -> 0..MaxTimeout]
        /\ answer' \in [Calls -> Calls \cup {NoCall}]
    <3>1. net' \in [Calls -> {"none", "request", "serving", "reply"}]
      <4>1. /\ net \in [Calls -> {"none", "request", "serving", "reply"}]
            /\ net' = [net EXCEPT ![c] = net'[c]] /\ net'[c] \in {"none", "request", "serving", "reply"}
        BY <2>1 DEF HandlerEffect, TypeOK
      <4> QED  BY <4>1, UpdateType
    <3>2. reply' \in [Calls -> {"none", "ok", "error", "nothing"}]
      <4>1. /\ reply \in [Calls -> {"none", "ok", "error", "nothing"}]
            /\ reply' = [reply EXCEPT ![c] = reply'[c]] /\ reply'[c] \in {"none", "ok", "error", "nothing"}
        BY <2>1 DEF HandlerEffect, TypeOK
      <4> QED  BY <4>1, UpdateType
    <3>3. hpc' \in [Calls -> HandlerSteps]
      <4>1. /\ hpc \in [Calls -> HandlerSteps]
            /\ hpc' = [hpc EXCEPT ![c] = hpc'[c]] /\ hpc'[c] \in HandlerSteps
        BY <2>1 DEF HandlerEffect, TypeOK
      <4> QED  BY <4>1, UpdateType
    <3>4. wait' \in [Calls -> 0..MaxTimeout]
      <4>1. /\ wait \in [Calls -> 0..MaxTimeout]
            /\ wait' = [wait EXCEPT ![c] = wait'[c]] /\ wait'[c] \in 0..MaxTimeout
        BY <2>1 DEF HandlerEffect, TypeOK
      <4> QED  BY <4>1, UpdateType
    <3>5. answer' \in [Calls -> (Calls \cup {NoCall})]
      <4>1. /\ answer \in [Calls -> (Calls \cup {NoCall})]
            /\ answer' = [answer EXCEPT ![c] = answer'[c]] /\ answer'[c] \in (Calls \cup {NoCall})
        BY <2>1 DEF HandlerEffect, TypeOK
      <4> QED  BY <4>1, UpdateType
    <3> QED  BY <3>1, <3>2, <3>3, <3>4, <3>5
  <2>4. TypeOK'
    BY <2>1, <2>2, <2>3 DEF TypeOK, SharedTypeOK, callerVars, sessionVars, Endpoint
  <2>5. PathInv'
    <3> SUFFICES ASSUME NEW d \in Calls
                 PROVE  /\ hpc'[d] \in Calling => MethodOf(d)' = "service_call"
                        /\ hpc'[d] \in Publishing => MethodOf(d)' = "topic_pub"
      BY DEF PathInv
    <3>1. MethodOf(d)' = MethodOf(d)
      BY <2>2 DEF MethodOf
    <3>2. CASE d = c
      BY <2>1, <3>1, <3>2 DEF HandlerEffect
    <3>3. CASE d # c
      <4>1. hpc \in [Calls -> HandlerSteps] /\ hpc' = [hpc EXCEPT ![c] = hpc'[c]]
        BY <2>1 DEF HandlerEffect, TypeOK
      <4>2. hpc'[d] = hpc[d]
        BY <3>3, <4>1
      <4> QED  BY <3>1, <4>2 DEF PathInv
    <3> QED  BY <3>2, <3>3
  <2> QED  BY <2>4, <2>5
<1>3. CASE Around
  <2>1. /\ UNCHANGED <<req, callerVars, net, reply, offered, hpc, wait, queued, answer>>
        /\ SharedTypeOK'
    BY <1>3, AroundEffects, SharedAround
  <2>2. /\ callerOpen' \in BOOLEAN /\ serverOpen' \in BOOLEAN /\ registered' \subseteq Kinds
    BY <1>3 DEF Around, CallerRoom, ServerRoom, StartManager, StopManager, RegisterMethods,
                UnregisterMethods, ServiceAnswers, ServerOnly, sessionVars, TypeOK, Methods, Kinds
  <2>3. TypeOK'
    BY <2>1, <2>2 DEF TypeOK, SharedTypeOK, callerVars, Endpoint
  <2> QED  BY <2>1, <2>3 DEF PathInv, MethodOf
<1>4. CASE Tick
  <2>1. \A n \in 0..MaxTimeout : Pred(n) \in 0..MaxTimeout
    BY TimesAssumption DEF Pred
  <2>2. /\ left' \in [Calls -> 0..MaxTimeout] /\ wait' \in [Calls -> 0..MaxTimeout]
        /\ queued' \subseteq Calls
    BY <1>4, <2>1 DEF Tick, TypeOK
  <2>3. UNCHANGED <<req, pc, outcome, net, reply, sessionVars, hpc, answer, clientVars, publishers>>
    BY <1>4 DEF Tick
  <2>4. TypeOK'
    BY <2>2, <2>3 DEF TypeOK, sessionVars, clientVars, Endpoint
  <2> QED  BY <2>3, <2>4 DEF PathInv, MethodOf
<1>5. CASE UNCHANGED vars
  <2>1. UNCHANGED <<req, callerVars, net, reply, sessionVars, handlerVars>>
    BY <1>5 DEF vars
  <2>2. TypeOK'
    BY <2>1 DEF TypeOK, callerVars, sessionVars, handlerVars, clientVars, Endpoint
  <2> QED  BY <2>1, <2>2 DEF PathInv, MethodOf, handlerVars
<1> QED  BY <1>1, <1>2, <1>3, <1>4, <1>5 DEF Next, Around, Delivery, Terminated

(* Every variable keeps its type: among others, a handler that looks up a  *)
(* client does so for a service and one that caches a publisher does so    *)
(* for a topic, for handlers stay on the path of their method.             *)
THEOREM TypeCorrect == Spec => [](TypeOK /\ PathInv)
<1>1. Init => TypeOK /\ PathInv
  <2> SUFFICES ASSUME Init PROVE TypeOK /\ PathInv
    OBVIOUS
  <2>1. req \in [Calls -> RequestType]
    BY NamesAssumption DEF Init
  <2>2. offered \subseteq {Endpoint(c) : c \in Calls}
    <3>1. \A endpoints : \A e \in Created(endpoints) : e \subseteq endpoints
      BY DEF Created
    <3>2. Routes \subseteq {Endpoint(c) : c \in Calls}
      BY DEF Routes
    <3>3. Commands \subseteq {Endpoint(c) : c \in Calls}
      BY DEF Commands
    <3>4. PICK r \in Created(Routes), k \in Created(Commands) : offered = r \cup k
      BY DEF Init, RouteServices, CommandServices
    <3> QED  BY <3>1, <3>2, <3>3, <3>4
  <2>3. 0 \in 0..MaxTimeout
    BY TimesAssumption
  <2>4. responses \in [Services -> Seq(Calls)]
    BY EmptySeq DEF Init
  <2>5. TypeOK
    BY <2>1, <2>2, <2>3, <2>4 DEF Init, TypeOK, Outcomes, HandlerSteps
  <2>6. PathInv
    BY DEF Init, PathInv, Calling, Publishing
  <2> QED  BY <2>5, <2>6
<1>2. TypeOK /\ PathInv /\ [Next]_vars => (TypeOK /\ PathInv)'
  BY TypeStep
<1> QED  BY <1>1, <1>2, PTL DEF Spec

-----------------------------------------------------------------------------
(* One step preserves what is known of answers and of the time left.       *)
LEMMA AnswerStep ==
  ASSUME IInv, [Next]_vars
  PROVE  AnswerInv'
<1> USE DEF IInv
<1>1. ASSUME NEW c \in Calls, CallerEffect(c) PROVE AnswerInv'
  <2>1. /\ UNCHANGED <<req, reply, answer>>
        /\ \A d \in Calls : d # c => outcome'[d] = outcome[d]
        /\ outcome'[c] = "ok" => outcome[c] = "ok" \/ reply[c] = "ok"
    BY <1>1 DEF CallerEffect, CallerOnly, handlerVars, TypeOK
  <2> QED  BY <2>1 DEF AnswerInv, MethodOf
<1>2. ASSUME NEW c \in Calls, HandlerEffect(c) PROVE AnswerInv'
  <2>1. /\ UNCHANGED <<req, outcome>>
        /\ \A d \in Calls : d # c => reply'[d] = reply[d] /\ answer'[d] = answer[d]
        /\ answer'[c] \in {answer[c], c}
        /\ MethodOf(c) = "service_call" /\ reply'[c] = "ok" => reply[c] = "ok" \/ answer'[c] = c
    BY <1>2 DEF HandlerEffect, ServerOnly, callerVars, TypeOK
  <2> QED  BY <2>1 DEF AnswerInv, MethodOf
<1>3. CASE Around \/ Tick \/ UNCHANGED vars
  <2>1. UNCHANGED <<req, outcome, reply, answer>>
    BY <1>3, AroundEffects DEF Tick, vars, callerVars, handlerVars
  <2> QED  BY <2>1 DEF AnswerInv, MethodOf
<1> QED  BY <1>1, <1>2, <1>3, CallerStepEffects, HandlerStepEffects
         DEF Next, Delivery, Around, Terminated

LEMMA TimeStep ==
  ASSUME IInv, [Next]_vars
  PROVE  TimeInv'
<1> USE DEF IInv
<1>0. ASSUME UNCHANGED req
      PROVE  \A c \in Calls : /\ MethodOf(c)' = MethodOf(c) /\ Fits(c)' = Fits(c)
                              /\ RpcTimeout(c)' = RpcTimeout(c)
  BY <1>0 DEF MethodOf, Fits, RpcTimeout, ServiceTimeout
<1>1. ASSUME NEW c \in Calls, CallerEffect(c) PROVE TimeInv'
  <2>1. /\ UNCHANGED <<req, hpc, wait, queued>>
        /\ \A d \in Calls : d # c => pc'[d] = pc[d] /\ left'[d] = left[d] /\ net'[d] = net[d]
    BY <1>1 DEF CallerEffect, CallerOnly, handlerVars, TypeOK
  <2>2. /\ pc'[c] \in {"participant", "send", "waiting", "done"}
        /\ pc'[c] \in {"participant", "send"}
             => pc[c] \in {"idle", "participant", "send"} /\ net'[c] = net[c]
        /\ pc'[c] = "waiting"
             => \/ pc[c] = "send" /\ net'[c] = "request" /\ left'[c] = RpcTimeout(c)
                \/ pc[c] = "waiting" /\ net'[c] = "none" /\ left'[c] = left[c]
    BY <1>1 DEF CallerEffect
  <2> QED  BY <1>0, <2>1, <2>2 DEF TimeInv
<1>2. ASSUME NEW c \in Calls, HandlerEffect(c) PROVE TimeInv'
  <2>1. /\ UNCHANGED <<req, pc, left, queued>>
        /\ \A d \in Calls : d # c => net'[d] = net[d] /\ hpc'[d] = hpc[d] /\ wait'[d] = wait[d]
    BY <1>2 DEF HandlerEffect, ServerOnly, callerVars, TypeOK
  <2>2. /\ hpc[c] # "idle" \/ net[c] = "request"
        /\ hpc'[c] \in Calling => MethodOf(c) = "service_call"
        /\ hpc'[c] = "poll" => \/ hpc[c] = "lock" /\ wait'[c] = ServiceTimeout(c)
                               \/ hpc[c] = "poll" /\ wait'[c] = wait[c]
        /\ hpc'[c] \notin {"idle", "poll"} => hpc[c] \notin {"idle", "poll"} \/ net[c] = "request"
        /\ net'[c] = "request" => net[c] = "request"
    BY <1>2 DEF HandlerEffect
  <2>3. pc[c] \notin {"idle", "participant", "send"}
    BY <2>2 DEF TimeInv
  <2>4. ASSUME pc[c] = "waiting", c \notin queued, hpc'[c] = "poll", Fits(c)
        PROVE  left[c] >= wait'[c] + Margin
    <3>1. CASE hpc[c] = "lock" /\ wait'[c] = ServiceTimeout(c)
      <4>1. left[c] = RpcTimeout(c) /\ MethodOf(c) = "service_call"
        BY <2>2, <2>4, <3>1 DEF TimeInv, Calling
      <4>2. left[c] = wait'[c] + Margin
        BY <4>1, <3>1, <2>4, RequestFacts
      <4> QED  BY <4>2, TimesAssumption DEF TypeOK
    <3>2. CASE hpc[c] = "poll" /\ wait'[c] = wait[c]
      BY <2>4, <3>2 DEF TimeInv
    <3> QED  BY <2>2, <2>4, <3>1, <3>2
  <2> QED  BY <1>0, <2>1, <2>2, <2>3, <2>4 DEF TimeInv
<1>3. CASE Around \/ UNCHANGED vars
  <2>1. UNCHANGED <<req, pc, left, net, hpc, wait, queued>>
    BY <1>3, AroundEffects DEF vars, callerVars, handlerVars
  <2> QED  BY <1>0, <2>1 DEF TimeInv
<1>4. CASE Tick
  <2>1. /\ UNCHANGED <<req, pc, net, hpc>>
        /\ \A c \in Calls : left'[c] = Pred(left[c]) /\ wait'[c] = Pred(wait[c])
        /\ queued' = queued \cup {c \in Calls : Blocked(c)}
        /\ \A c \in Calls : Waits(c)
    BY <1>4 DEF Tick
  <2> SUFFICES ASSUME NEW c \in Calls, pc[c] = "waiting", c \notin queued'
               PROVE  /\ net[c] # "request" /\ hpc[c] \in {"idle", "poll"}
                      /\ hpc[c] = "poll" /\ Fits(c) => left'[c] >= wait'[c] + Margin
    BY <1>0, <2>1 DEF TimeInv
  <2>2. c \notin queued /\ net[c] # "request" /\ left[c] > 0 /\ (hpc[c] = "idle" \/ Polls(c))
    BY <2>1 DEF Waits
  <2>3. ASSUME hpc[c] = "poll", Fits(c) PROVE left'[c] >= wait'[c] + Margin
    <3>1. left[c] >= wait[c] + Margin /\ wait[c] > 0
      BY <2>2, <2>3 DEF TimeInv, Polls
    <3>2. left[c] \in Nat /\ wait[c] \in Nat
      BY TimesAssumption DEF TypeOK
    <3> QED  BY <2>1, <2>2, <3>1, <3>2, TimesAssumption DEF Pred
  <2> QED  BY <2>2, <2>3 DEF Polls
<1> QED  BY <1>1, <1>2, <1>3, <1>4, CallerStepEffects, HandlerStepEffects
         DEF Next, Delivery, Around, Terminated

(* The invariant of the two theorems below: what a handler answered rests  *)
(* on its own response, and the time left to an RPC is known as long as    *)
(* its handler has not queued for the client.                              *)
THEOREM Invariant == Spec => []IInv
<1>1. Init => AnswerInv /\ TimeInv
  BY DEF Init, AnswerInv, TimeInv
<1>2. IInv /\ [Next]_vars => AnswerInv' /\ TimeInv'
  BY AnswerStep, TimeStep
<1> QED  BY <1>1, <1>2, TypeCorrect, PTL DEF Spec, IInv

(* A service call that succeeds carries the answer to itself, whoever      *)
(* shares its client and however late the service answers: the sequence    *)
(* number decides, and only a handler with its own response answers "ok".  *)
THEOREM AnswersAreOwn == Spec => []OwnAnswers
<1>1. IInv => OwnAnswers
  BY DEF IInv, AnswerInv, OwnAnswers
<1> QED  BY <1>1, Invariant, PTL

(* An RPC does not time out before the handler of its service call does,   *)
(* unless the handler queued for the client or the sum of the timeout and  *)
(* the margin exceeds the range of timeout_sec.                            *)
THEOREM MarginIsEnough == Spec => []MarginSuffices
<1>1. IInv => MarginSuffices
  <2> SUFFICES ASSUME IInv PROVE MarginSuffices
    OBVIOUS
  <2>0. \A c \in Calls : ServiceTimeout(c) \in Nat
    BY RequestFacts, TimesAssumption DEF IInv
  <2> SUFFICES ASSUME NEW c \in Calls, pc[c] = "waiting", left[c] = 0, hpc[c] # "idle",
                      c \notin queued, Fits(c)
               PROVE  FALSE
    BY <2>0, TimesAssumption DEF MarginSuffices, Fits
  <2>1. hpc[c] = "poll"
    BY RequestFacts DEF IInv, TimeInv
  <2>2. wait[c] \in Nat /\ left[c] >= wait[c] + Margin
    BY <2>1, TimesAssumption DEF IInv, TimeInv, TypeOK
  <2> QED  BY <2>2, TimesAssumption
<1> QED  BY <1>1, Invariant, PTL
==============================================================================
