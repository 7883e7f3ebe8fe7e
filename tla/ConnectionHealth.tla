---------------------------- MODULE ConnectionHealth ----------------------------
(***************************************************************************)
(* ConnectionHealthDiagnostics: what the connection_health diagnostic says *)
(* of the room.                                                            *)
(*                                                                         *)
(* The connection timer polls statistics, joins the room and marks it      *)
(* connected; the SDK's event thread marks every change of the connection, *)
(* once or twice, for the event and for ConnectionStateChanged.  Each      *)
(* critical section of mutex_ is one action (ConnectionManager has the     *)
(* state machine and the barrier).                                         *)
(*                                                                         *)
(* External: the room, its participants, and its answers to getStats().    *)
(***************************************************************************)
EXTENDS Integers, Sequences, FiniteSets, FiniteSetsExt, Functions

CONSTANTS Pairs,        \* ids of candidate pairs
          Answers,      \* what getStats() may answer
          MaxGains,     \* bound: connections and reconnections
          MaxRequests,  \* ... requests for statistics
          MaxMembers

(* nominated pairs that succeeded are usable; pairs has no duplicates *)
Stats == [selected : SUBSET Pairs, usable : SUBSET Pairs, pairs : Seq(Pairs),
          bytes : [Pairs -> Nat]]

ASSUME HealthAssumption ==
  /\ Answers \subseteq Stats
  /\ \A stats \in Answers : stats.usable \subseteq Range(stats.pairs)
                            /\ Cardinality(stats.selected) <= 1
  /\ MaxGains \in Nat /\ MaxRequests \in Nat /\ MaxMembers \in Nat

VARIABLES
  link,       \* external: the connection
  gains,      \* ... how often it was established, or restored
  members,    \* external: remoteParticipants()
  kind, numPeers, losses, reconnects,  \* state_
  rtc,        \* state_.rtc_summary, with the connection it is of
  previous,   \* state_.previous_traffic
  pending,    \* pending_stats_
  timer,      \* what the timer is at, with what it holds
  events,     \* what the event thread has still to do
  requests,   \* requests for statistics
  lost, recoveries, \* connections that were lost, and that the SDK tried to restore
  overlapped, \* pollStats() was under way at the last loss, its mark, or since
  overtaken   \* a loss, or the mark of one, and the timer's mark of a join crossed

state == <<kind, numPeers, losses, reconnects, rtc, previous>>
rtcVars == <<rtc, previous>>
external == <<link, gains, members>>
history == <<lost, recoveries, overlapped, overtaken>>
vars == <<external, state, pending, timer, events, requests, history>>

None == [of |-> 0]
Idle == [at |-> "idle", with |-> None]
Marks == {"connected", "reconnecting", "disconnected"}
Duties == Marks \cup {"ended", "count"}  \* ended: the mark of onRoomEos()

(* what a rate, a report, a sample and a request say of which connection *)
Rates == [of : Nat, rate : Nat]
Reports == [of : Nat, rate : Rates \cup {None}]
Samples == [of : Nat, pair : Pairs, at : Nat, bytes : Nat]
Requests == [of : Nat, at : Nat, stats : Answers, ready : BOOLEAN]
Counts == [of : 0..MaxMembers]

TypeOK ==
  /\ link \in {"down", "up", "recovering"}
  /\ gains \in 0..MaxGains /\ members \in 0..MaxMembers /\ requests \in 0..MaxRequests
  /\ kind \in Marks /\ numPeers \in 0..MaxMembers
  /\ losses \in Nat /\ reconnects \in 0..losses /\ lost \in Nat /\ recoveries \in Nat
  /\ rtc \in Reports \cup {None} /\ previous \in Samples \cup {None}
  /\ pending \in Requests \cup {None}
  /\ \/ timer.at \in {"idle", "check", "ask", "connect", "joined", "mark", "peers"}
     \/ timer.at \in {"taken", "keep"} /\ timer.with \in Requests
     \/ timer.at = "store" /\ timer.with \in Counts
  /\ events \in Seq(Duties)
  /\ overlapped \in BOOLEAN /\ overtaken \in BOOLEAN

Init ==
  /\ link = "down" /\ gains = 0 /\ members = 0
  /\ kind = "disconnected" /\ numPeers = 0 /\ losses = 0 /\ reconnects = 0
  /\ rtc = None /\ previous = None /\ pending = None
  /\ timer = Idle /\ events = <<>> /\ requests = 0
  /\ lost = 0 /\ recoveries = 0 /\ overlapped = FALSE /\ overtaken = FALSE

-----------------------------------------------------------------------------
(* A snapshot of statistics *)

(* the pair the transport selected, or else a usable one with most traffic *)
SelectCandidatePair(stats) ==
  LET listed == stats.selected \cap Range(stats.pairs)
      most == {p \in stats.usable : \A q \in stats.usable : stats.bytes[q] <= stats.bytes[p]}
      best == {i \in DOMAIN stats.pairs : stats.pairs[i] \in most}
  IN IF listed # {} THEN listed
     ELSE IF best = {} THEN {}
     ELSE {stats.pairs[Min(best)]}  \* the first of them

(* of two samples of one pair, whose counter does not fall *)
ComputeBitrate(before, now) ==
  IF before.pair # now.pair \/ now.at <= before.at \/ now.bytes < before.bytes
  THEN None
  ELSE [of |-> before.of, rate |-> (now.bytes - before.bytes) \div (now.at - before.at)]

Summary(sample, rate) == [of |-> sample.of, rate |-> rate]

(* updateConnectionHealthStatsSnapshot() of the answer to a request *)
StatsSnapshot(request) ==
  LET pairs == SelectCandidatePair(request.stats)
      Counters(p) == [of |-> request.of, pair |-> p, at |-> request.at,
                      bytes |-> request.stats.bytes[p]]
  IN IF pairs = {} THEN rtc' = Summary(request, None) /\ previous' = None
     ELSE \E p \in pairs :
            /\ rtc' = Summary(request, IF previous = None THEN None
                                       ELSE ComputeBitrate(previous, Counters(p)))
            /\ previous' = Counters(p)

ClearRtcSummary == rtc' = None /\ previous' = None

-----------------------------------------------------------------------------
(* The marks, each under the lock *)

MarkConnected == kind' = "connected" /\ UNCHANGED <<numPeers, losses, reconnects, rtcVars, pending>>

(* mutant: an answer may come when it is no longer asked for *)
MarkDisconnectedKeepsRequest ==
  /\ losses' = IF kind = "connected" THEN losses + 1 ELSE losses
  /\ kind' = "disconnected"
  /\ numPeers' = 0
  /\ ClearRtcSummary /\ UNCHANGED <<reconnects, pending>>

MarkDisconnected ==
  /\ losses' = IF kind = "connected" THEN losses + 1 ELSE losses
  /\ kind' = "disconnected"
  /\ numPeers' = 0
  /\ ClearRtcSummary /\ pending' = None /\ UNCHANGED reconnects

MarkReconnecting ==
  /\ IF kind = "connected" THEN losses' = losses + 1 /\ reconnects' = reconnects + 1
     ELSE UNCHANGED <<losses, reconnects>>
  /\ kind' = "reconnecting"
  /\ ClearRtcSummary /\ pending' = None /\ UNCHANGED numPeers

(* the members are counted before the lock is taken *)
UpdatePeerCount(count) ==
  numPeers' = count /\ UNCHANGED <<kind, losses, reconnects, rtcVars>>

-----------------------------------------------------------------------------
(* The timer: pollStats(), then the attempt to connect *)

Goto(step) == timer' = [at |-> step, with |-> None]
Hold(step, what) == timer' = [at |-> step, with |-> what]
TimerOnly == UNCHANGED <<external, events, requests, history>>

(* a request that is answered is taken out *)
UpdateStatsFromReadyFuture ==
  /\ timer.at = "idle"
  /\ IF pending # None /\ pending.ready
     THEN Hold("taken", pending) /\ pending' = None
     ELSE Goto("check") /\ UNCHANGED pending
  /\ UNCHANGED state /\ TimerOnly

StoreStats ==
  /\ timer.at = "taken"
  /\ \/ ClearRtcSummary  \* the request failed
     \/ kind = "connected" /\ StatsSnapshot(timer.with)
     \/ kind # "connected" /\ UNCHANGED rtcVars
  /\ Goto("check")
  /\ UNCHANGED <<kind, numPeers, losses, reconnects, pending>> /\ TimerOnly

PollStatsCheck ==
  /\ timer.at = "check"
  /\ Goto(IF pending # None \/ kind # "connected" THEN "connect" ELSE "ask")
  /\ UNCHANGED <<state, pending>> /\ TimerOnly

GetStats ==
  /\ timer.at = "ask" /\ requests < MaxRequests
  /\ requests' = requests + 1
  /\ \E stats \in Answers :
       Hold("keep", [of |-> gains, at |-> requests, stats |-> stats, ready |-> FALSE])
  /\ UNCHANGED <<external, events, history, state, pending>>

GetStatsThrows ==
  /\ timer.at = "ask"
  /\ ClearRtcSummary /\ pending' = None
  /\ Goto("connect")
  /\ UNCHANGED <<kind, numPeers, losses, reconnects>> /\ TimerOnly

KeepRequest ==
  /\ timer.at = "keep"
  /\ pending' = IF kind = "connected" /\ pending = None THEN timer.with ELSE pending
  /\ Goto("connect")
  /\ UNCHANGED state /\ TimerOnly

(* external *)
RoomAnswers ==
  /\ pending # None /\ ~pending.ready
  /\ pending' = [pending EXCEPT !.ready = TRUE]
  /\ UNCHANGED <<state, timer>> /\ TimerOnly

(* nothing to join, or a failed attempt *)
PollReturns ==
  /\ timer.at = "connect"
  /\ Goto("idle")
  /\ UNCHANGED <<state, pending>> /\ TimerOnly

(* The connection is gained inside try_connect(); its ConnectionStateChanged *)
(* may come before the timer marks it.  onRoomEos() allows the attempt       *)
(* before it marks the end of the connection before.                         *)
Joins ==
  /\ timer.at = "connect" /\ link = "down" /\ gains < MaxGains
  /\ events \in {<<>>, <<"ended">>}
  /\ link' = "up" /\ gains' = gains + 1
  /\ events' \in {events, events \o <<"connected", "count">>}
  /\ Goto("joined")
  /\ UNCHANGED <<members, state, pending, requests, history>>

(* connected unless Disconnected came first *)
Joined ==
  /\ timer.at = "joined"
  /\ Goto(IF link = "down" THEN "idle" ELSE "mark")
  /\ UNCHANGED <<state, pending>> /\ TimerOnly

(* a new connection is up, and the end of the one before not yet marked *)
LateEnd == link = "up" /\ events # <<>> /\ Head(events) = "ended"

TimerMarks ==
  /\ timer.at = "mark"
  /\ MarkConnected
  /\ Goto("peers")
  /\ overtaken' = (overtaken \/ LateEnd)
  /\ UNCHANGED <<external, events, requests, lost, recoveries, overlapped>>

TimerCounts ==
  /\ timer.at = "peers"
  /\ Hold("store", [of |-> members])
  /\ UNCHANGED <<state, pending>> /\ TimerOnly

TimerStores ==
  /\ timer.at = "store"
  /\ UpdatePeerCount(timer.with.of)
  /\ Goto("idle")
  /\ UNCHANGED pending /\ TimerOnly

TimerStep ==
  \/ UpdateStatsFromReadyFuture \/ StoreStats \/ PollStatsCheck \/ GetStats
  \/ GetStatsThrows \/ KeepRequest \/ PollReturns \/ Joins \/ Joined
  \/ TimerMarks \/ TimerCounts \/ TimerStores

-----------------------------------------------------------------------------
(* The event thread.  An event is notified once or twice; a mark other     *)
(* than "disconnected" is followed by a count of the members.              *)

Polling == timer.at \in {"taken", "check", "ask", "keep"}

Loses ==
  /\ lost' = IF link = "up" THEN lost + 1 ELSE lost
  /\ overlapped' = (overlapped \/ Polling)
  /\ overtaken' = (overtaken \/ timer.at \in {"joined", "mark"})
  /\ UNCHANGED <<gains, members, state, pending, timer, requests>>

SdkReconnecting ==
  /\ events = <<>> /\ link = "up"
  /\ link' = "recovering" /\ recoveries' = recoveries + 1
  /\ LET notice == <<"reconnecting", "count">>
     IN events' \in {notice, notice \o notice}
  /\ Loses

(* no attempt is allowed before the end of the stream, which marks nothing *)
SdkDisconnected ==
  /\ events = <<>> /\ link # "down"
  /\ link' = "down"
  /\ events' \in {<<"disconnected">>, <<"disconnected", "disconnected">>}
  /\ UNCHANGED recoveries /\ Loses

(* the end of a stream without Disconnected *)
SdkEos ==
  /\ events = <<>> /\ link # "down"
  /\ link' = "down"
  /\ events' = <<"ended">>
  /\ UNCHANGED recoveries /\ Loses

SdkReconnected ==
  /\ events = <<>> /\ link = "recovering" /\ gains < MaxGains
  /\ link' = "up" /\ gains' = gains + 1
  /\ LET notice == <<"connected", "count">>
     IN events' \in {notice, notice \o notice}
  /\ overlapped' = (overlapped \/ Polling)
  /\ UNCHANGED <<members, state, pending, timer, requests, lost, recoveries, overtaken>>

(* participants come and go, and the room is renamed: RoomUpdated *)
SdkMembers ==
  /\ events = <<>> /\ link = "up"
  /\ members' \in 0..MaxMembers \ {members}
  /\ events' = <<"count">>
  /\ UNCHANGED <<link, gains, state, pending, timer, requests, history>>

Handled == UNCHANGED <<external, timer, requests, lost, recoveries, overtaken>>

EventMarks ==
  /\ events # <<>> /\ Head(events) # "count"
  /\ \/ Head(events) = "connected" /\ MarkConnected /\ UNCHANGED overlapped
     \/ Head(events) = "reconnecting" /\ MarkReconnecting /\ overlapped' = Polling
     \/ Head(events) \in {"disconnected", "ended"} /\ MarkDisconnected /\ overlapped' = Polling
  /\ events' = Tail(events) /\ Handled

(* the event thread's members are those of the moment: it changes them *)
EventCounts ==
  /\ events # <<>> /\ Head(events) = "count"
  /\ UpdatePeerCount(members)
  /\ events' = Tail(events) /\ UNCHANGED <<pending, overlapped>> /\ Handled

SdkStep ==
  \/ SdkReconnecting \/ SdkDisconnected \/ SdkEos \/ SdkReconnected \/ SdkMembers
  \/ RoomAnswers

Next == TimerStep \/ SdkStep \/ EventMarks \/ EventCounts

Spec == Init /\ [][Next]_vars

-----------------------------------------------------------------------------
(* Statistics are shown only while the room is called connected, and they  *)
(* and the samples a rate is made of are of this connection: unless a poll *)
(* overlapped the gap before it, the end of the connection before it is    *)
(* not yet marked, or that mark or a loss crossed the mark of the timer.   *)
StatsAreCurrent ==
  /\ kind # "connected" => rtc = None /\ previous = None /\ pending = None
  /\ rtc # None /\ ~overlapped /\ ~overtaken /\ ~LateEnd =>
       rtc.of = gains /\ (rtc.rate # None => rtc.rate.of = gains)

(* Every loss is counted once, as one of a session the SDK restores or     *)
(* tries to (connection_diagnostics.hpp, lines 118-124), although it is    *)
(* notified twice: unless it, or its mark, crosses the mark of the timer.  *)
LossesAreCounted ==
  events = <<>> /\ ~overtaken => losses = lost /\ reconnects = recoveries

ReportsTheRoom == StatsAreCurrent /\ LossesAreCounted
==============================================================================
