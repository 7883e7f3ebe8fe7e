------------------------- MODULE ConnectionHealthProofs -------------------------
(***************************************************************************)
(* What connection_health reports is of the room the portal is in, for any *)
(* number of connections and polls, and whatever their order.              *)
(***************************************************************************)
EXTENDS ConnectionHealth, WellFoundedInduction, TLAPS

(* The marks that a connection in this state may still be owed. *)
Owed(state_) ==
  CASE state_ = "up" -> {"connected", "ended", "count"}
    [] state_ = "recovering" -> {"reconnecting", "count"}
    [] state_ = "down" -> {"disconnected", "ended", "count"}

(* the end of a stream is the first thing owed *)
EventInv == \A i \in DOMAIN events : events[i] \in Owed(link) /\ (events[i] = "ended" => i = 1)

(* Nothing of a connection is kept while it is not called connected. *)
ClearInv == kind # "connected" => rtc = None /\ previous = None /\ pending = None

(* Unless a loss or its mark crosses the mark of the timer: the timer      *)
(* marks only a connection that is up, a lost one is called connected      *)
(* until its first mark is taken, one that is up is called connected or    *)
(* will be, and the end of the one before is marked before it is.          *)
MarkInv ==
  ~overtaken =>
    /\ timer.at \in {"joined", "mark"} => link = "up"
    /\ link # "up" /\ kind = "connected" =>
         events # <<>> /\ Head(events) \in {"reconnecting", "disconnected", "ended"}
    /\ link = "up" /\ kind # "connected" =>
         timer.at \in {"joined", "mark"} \/ \E i \in DOMAIN events : events[i] = "connected"
    /\ LateEnd => timer.at \in {"joined", "mark"}

(* What is shown, kept to compare with, asked for or held is of this       *)
(* connection.                                                             *)
CurrentInv ==
  ~overtaken /\ ~overlapped /\ ~LateEnd =>
    /\ rtc # None => rtc.of = gains /\ (rtc.rate # None => rtc.rate.of = gains)
    /\ previous # None => previous.of = gains
    /\ pending # None => pending.of = gains
    /\ timer.at \in {"taken", "keep"} => timer.with.of = gains

(* A loss is counted when its first mark is taken. *)
Unmarked == (link # "up" \/ LateEnd) /\ kind = "connected"
CountInv ==
  ~overtaken =>
    /\ lost = losses + (IF Unmarked THEN 1 ELSE 0)
    /\ recoveries = reconnects + (IF Unmarked /\ link = "recovering" THEN 1 ELSE 0)

IInv == TypeOK /\ EventInv /\ ClearInv /\ MarkInv /\ CurrentInv /\ CountInv

-----------------------------------------------------------------------------
(* Lemmas about the operators of the model                                 *)

LEMMA LeastIsMin ==
  ASSUME NEW T, T \subseteq Nat, T # {}
  PROVE  Min(T) \in T
<1>1. \E m \in T : \A k \in T : ~(<<k, m>> \in OpToRel(<, Nat))
  BY NatLessThanWellFounded, WFMin, Zenon
<1>2. \E m \in T : \A k \in T : ~(k < m)
  BY <1>1, Zenon DEF OpToRel
<1>3. \E m \in T : \A k \in T : m <= k
  BY <1>2
<1> QED  BY <1>3 DEF Min

LEMMA TailOf ==
  ASSUME NEW S, NEW s \in Seq(S), s # <<>>
  PROVE  /\ Tail(s) \in Seq(S) /\ Head(s) \in S
         /\ 1 \in DOMAIN s /\ Head(s) = s[1]
         /\ \A i \in DOMAIN Tail(s) : \E j \in DOMAIN s \ {1} : Tail(s)[i] = s[j]
         /\ \A j \in DOMAIN s : s[j] = Head(s) \/ \E i \in DOMAIN Tail(s) : Tail(s)[i] = s[j]
<1>1. /\ Len(s) \in Nat \ {0} /\ DOMAIN s = 1..Len(s) /\ Head(s) = s[1]
      /\ Tail(s) \in Seq(S) /\ DOMAIN Tail(s) = 1..(Len(s) - 1)
      /\ \A i \in 1..(Len(s) - 1) : Tail(s)[i] = s[i + 1]
  OBVIOUS
<1>2. \A i \in DOMAIN Tail(s) : i + 1 \in DOMAIN s \ {1} /\ Tail(s)[i] = s[i + 1]
  BY <1>1
<1>3. \A j \in DOMAIN s : j = 1 \/ (j - 1 \in DOMAIN Tail(s) /\ Tail(s)[j - 1] = s[j])
  BY <1>1
<1>4. 1 \in DOMAIN s /\ Head(s) \in S
  BY <1>1
<1> QED  BY <1>1, <1>2, <1>3, <1>4

(* A pair that is selected is one of the pairs. *)
LEMMA SelectedIsPair ==
  ASSUME NEW stats \in Answers
  PROVE  SelectCandidatePair(stats) \subseteq Pairs
<1>1. stats.pairs \in Seq(Pairs) /\ stats.selected \subseteq Pairs
  BY HealthAssumption DEF Stats
<1> DEFINE most == {p \in stats.usable : \A q \in stats.usable : stats.bytes[q] <= stats.bytes[p]}
           best == {i \in DOMAIN stats.pairs : stats.pairs[i] \in most}
<1>2. best \subseteq DOMAIN stats.pairs /\ DOMAIN stats.pairs \subseteq Nat
  BY <1>1
<1>3. best # {} => Min(best) \in DOMAIN stats.pairs
  <2> HIDE DEF best
  <2> QED  BY <1>2, LeastIsMin
<1>4. \A i \in DOMAIN stats.pairs : stats.pairs[i] \in Pairs
  BY <1>1
<1>5. SelectCandidatePair(stats) =
        IF stats.selected \cap Range(stats.pairs) # {} THEN stats.selected \cap Range(stats.pairs)
        ELSE IF best = {} THEN {} ELSE {stats.pairs[Min(best)]}
  BY DEF SelectCandidatePair
<1> HIDE DEF best
<1> QED  BY <1>1, <1>3, <1>4, <1>5

LEMMA QuotientIsNat ==
  ASSUME NEW a \in Nat, NEW b \in Nat \ {0}
  PROVE  a \div b \in Nat
OBVIOUS

(* A rate is of the connection of the earlier sample. *)
LEMMA BitrateOf ==
  ASSUME NEW before \in Samples, NEW now \in Samples
  PROVE  \/ ComputeBitrate(before, now) = None
         \/ ComputeBitrate(before, now) \in Rates /\ ComputeBitrate(before, now).of = before.of
<1>1. CASE before.pair # now.pair \/ now.at <= before.at \/ now.bytes < before.bytes
  BY <1>1 DEF ComputeBitrate
<1>2. CASE ~(before.pair # now.pair \/ now.at <= before.at \/ now.bytes < before.bytes)
  <2>1. /\ before.of \in Nat /\ before.at \in Nat /\ before.bytes \in Nat
        /\ now.at \in Nat /\ now.bytes \in Nat
    BY DEF Samples
  <2>2. now.bytes - before.bytes \in Nat /\ now.at - before.at \in Nat \ {0}
    BY <1>2, <2>1
  <2>3. (now.bytes - before.bytes) \div (now.at - before.at) \in Nat
    BY <2>2, QuotientIsNat
  <2>4. ComputeBitrate(before, now) =
          [of |-> before.of, rate |-> (now.bytes - before.bytes) \div (now.at - before.at)]
    BY <1>2 DEF ComputeBitrate
  <2> QED  BY <2>1, <2>3, <2>4 DEF Rates
<1> QED  BY <1>1, <1>2

(* A snapshot is of the connection of its request, and a rate of that of   *)
(* the sample before as well.                                              *)
LEMMA SnapshotOf ==
  ASSUME TypeOK, NEW request \in Requests, StatsSnapshot(request)
  PROVE  /\ rtc' \in Reports /\ rtc'.of = request.of
         /\ rtc'.rate # None => previous # None /\ rtc'.rate.of = previous.of
         /\ previous' \in Samples \cup {None}
         /\ previous' # None => previous'.of = request.of
<1>1. request.of \in Nat /\ request.at \in Nat /\ request.stats \in Answers
  BY DEF Requests
<1>2. request.stats.bytes \in [Pairs -> Nat] /\ SelectCandidatePair(request.stats) \subseteq Pairs
  BY <1>1, SelectedIsPair, HealthAssumption DEF Stats
<1>3. CASE SelectCandidatePair(request.stats) = {}
  <2>1. rtc' = [of |-> request.of, rate |-> None] /\ previous' = None
    BY <1>3 DEF StatsSnapshot, Summary
  <2> QED  BY <1>1, <2>1 DEF Reports
<1>4. CASE SelectCandidatePair(request.stats) # {}
  <2> DEFINE Sampled(p) == [of |-> request.of, pair |-> p, at |-> request.at,
                            bytes |-> request.stats.bytes[p]]
             rate(p) == IF previous = None THEN None ELSE ComputeBitrate(previous, Sampled(p))
  <2>1. PICK p \in Pairs : rtc' = [of |-> request.of, rate |-> rate(p)] /\ previous' = Sampled(p)
    BY <1>2, <1>4 DEF StatsSnapshot, Summary
  <2>2. Sampled(p) \in Samples /\ Sampled(p).of = request.of
    BY <1>1, <1>2 DEF Samples
  <2>3. \/ rate(p) = None
        \/ rate(p) \in Rates /\ previous # None /\ rate(p).of = previous.of
    <3> HIDE DEF Sampled
    <3>1. CASE previous = None
      BY <3>1
    <3>2. CASE previous # None
      <4>1. previous \in Samples
        BY <3>2 DEF TypeOK
      <4> QED  BY <2>2, <3>2, <4>1, BitrateOf
    <3> QED  BY <3>1, <3>2
  <2> HIDE DEF Sampled, rate
  <2> QED  BY <1>1, <2>1, <2>2, <2>3 DEF Reports
<1> QED  BY <1>3, <1>4

-----------------------------------------------------------------------------
(* Type correctness                                                        *)

LEMMA NextCases ==
  ASSUME Next
  PROVE  \/ UpdateStatsFromReadyFuture \/ StoreStats \/ PollStatsCheck \/ GetStats
         \/ GetStatsThrows \/ KeepRequest \/ PollReturns \/ Joins \/ Joined
         \/ TimerMarks \/ TimerCounts \/ TimerStores
         \/ SdkReconnecting \/ SdkDisconnected \/ SdkEos \/ SdkReconnected \/ SdkMembers
         \/ RoomAnswers \/ EventMarks \/ EventCounts
BY Zenon DEF Next, TimerStep, SdkStep

(* The notices of the SDK. *)
LEMMA Notices ==
  /\ \A a \in Marks :
       /\ <<a, "count">> \in Seq(Duties)
       /\ <<a, "count">> \o <<a, "count">> \in Seq(Duties)
       /\ <<a>> \in Seq(Duties) /\ <<a, a>> \in Seq(Duties)
  /\ <<>> \in Seq(Duties) /\ <<"count">> \in Seq(Duties) /\ <<"ended">> \in Seq(Duties)
<1> USE DEF Duties
<1>1. ASSUME NEW a \in Marks
      PROVE  <<a, "count">> \in Seq(Duties)
  OBVIOUS
<1>2. ASSUME NEW a \in Marks
      PROVE  <<a, "count">> \o <<a, "count">> \in Seq(Duties)
  BY <1>1
<1> QED  BY <1>1, <1>2

LEMMA InitTypes == Init => TypeOK
<1> SUFFICES ASSUME Init PROVE TypeOK
  OBVIOUS
<1>1. events \in Seq(Duties)
  BY Notices DEF Init
<1>2. /\ gains \in 0..MaxGains /\ members \in 0..MaxMembers /\ requests \in 0..MaxRequests
      /\ numPeers \in 0..MaxMembers
      /\ losses \in Nat /\ reconnects \in 0..losses /\ lost \in Nat /\ recoveries \in Nat
  BY HealthAssumption DEF Init
<1>3. /\ kind \in Marks /\ timer.at = "idle" /\ link = "down"
      /\ rtc = None /\ previous = None /\ pending = None
      /\ overlapped \in BOOLEAN /\ overtaken \in BOOLEAN
  BY DEF Init, Marks, Idle
<1> QED  BY <1>1, <1>2, <1>3 DEF TypeOK

LEMMA TimerTypes ==
  ASSUME TypeOK,
         \/ UpdateStatsFromReadyFuture \/ StoreStats \/ PollStatsCheck \/ GetStats
         \/ GetStatsThrows \/ KeepRequest \/ PollReturns \/ Joins \/ Joined
         \/ TimerMarks \/ TimerCounts \/ TimerStores
  PROVE  TypeOK'
<1> USE DEF TypeOK, Goto, Hold, TimerOnly, external, state, rtcVars, history
<1>1. CASE UpdateStatsFromReadyFuture
  <2>1. pending # None => pending \in Requests
    OBVIOUS
  <2> QED  BY <1>1, <2>1 DEF UpdateStatsFromReadyFuture
<1>2. CASE StoreStats
  <2>1. timer.with \in Requests /\ timer' = [at |-> "check", with |-> None]
    BY <1>2 DEF StoreStats
  <2>2. UNCHANGED <<external, events, requests, history, kind, numPeers, losses, reconnects, pending>>
    BY <1>2 DEF StoreStats
  <2>3. rtc' \in Reports \cup {None} /\ previous' \in Samples \cup {None}
    <3>1. CASE ClearRtcSummary
      BY <3>1 DEF ClearRtcSummary
    <3>2. CASE StatsSnapshot(timer.with)
      BY <2>1, <3>2, SnapshotOf
    <3>3. CASE UNCHANGED rtcVars
      BY <3>3
    <3> QED  BY <1>2, <3>1, <3>2, <3>3 DEF StoreStats
  <2> QED  BY <2>1, <2>2, <2>3
<1>3. CASE PollStatsCheck
  BY <1>3 DEF PollStatsCheck
<1>4. CASE GetStats
  <2>1. requests' \in 0..MaxRequests
    BY <1>4, HealthAssumption DEF GetStats
  <2>2. PICK stats \in Answers :
          timer' = [at |-> "keep", with |-> [of |-> gains, at |-> requests, stats |-> stats,
                                             ready |-> FALSE]]
    BY <1>4 DEF GetStats
  <2>3. [of |-> gains, at |-> requests, stats |-> stats, ready |-> FALSE] \in Requests
    BY HealthAssumption DEF Requests
  <2> QED  BY <1>4, <2>1, <2>2, <2>3 DEF GetStats
<1>5. CASE GetStatsThrows
  BY <1>5 DEF GetStatsThrows, ClearRtcSummary
<1>6. CASE KeepRequest
  BY <1>6 DEF KeepRequest
<1>7. CASE PollReturns
  BY <1>7 DEF PollReturns
<1>8. CASE Joins
  <2>1. gains' \in 0..MaxGains /\ link' = "up"
    BY <1>8, HealthAssumption DEF Joins
  <2>2. events' \in Seq(Duties)
    <3>1. <<"connected", "count">> \in Seq(Duties)
      BY Notices DEF Marks
    <3>2. events \o <<"connected", "count">> \in Seq(Duties)
      BY <3>1
    <3> QED  BY <1>8, <3>2 DEF Joins
  <2> QED  BY <1>8, <2>1, <2>2 DEF Joins
<1>9. CASE Joined
  BY <1>9 DEF Joined
<1>10. CASE TimerMarks
  BY <1>10 DEF TimerMarks, MarkConnected, Marks
<1>11. CASE TimerCounts
  <2>1. [of |-> members] \in Counts
    BY DEF Counts
  <2> QED  BY <1>11, <2>1 DEF TimerCounts
<1>12. CASE TimerStores
  <2>1. timer.with.of \in 0..MaxMembers
    BY <1>12 DEF TimerStores, Counts
  <2> QED  BY <1>12, <2>1 DEF TimerStores, UpdatePeerCount
<1> QED
  BY <1>1, <1>2, <1>3, <1>4, <1>5, <1>6, <1>7, <1>8, <1>9, <1>10, <1>11, <1>12

LEMMA EventTypes ==
  ASSUME TypeOK,
         \/ SdkReconnecting \/ SdkDisconnected \/ SdkEos \/ SdkReconnected \/ SdkMembers
         \/ RoomAnswers \/ EventMarks \/ EventCounts
  PROVE  TypeOK'
<1>0. "connected" \in Marks /\ "reconnecting" \in Marks /\ "disconnected" \in Marks
  BY DEF Marks
<1> USE DEF TypeOK, Loses, Handled, external, state, rtcVars, history
<1>1. CASE SdkReconnecting
  <2>1. events' \in Seq(Duties)
    BY <1>0, <1>1, Notices DEF SdkReconnecting
  <2> QED  BY <1>1, <2>1 DEF SdkReconnecting, Polling
<1>2. CASE SdkDisconnected
  <2>1. events' \in Seq(Duties)
    BY <1>0, <1>2, Notices DEF SdkDisconnected
  <2> QED  BY <1>2, <2>1 DEF SdkDisconnected, Polling
<1>3. CASE SdkReconnected
  <2>1. events' \in Seq(Duties)
    BY <1>0, <1>3, Notices DEF SdkReconnected
  <2>2. gains' \in 0..MaxGains
    BY <1>3, HealthAssumption DEF SdkReconnected
  <2> QED  BY <1>3, <2>1, <2>2 DEF SdkReconnected, Polling
<1>4. CASE SdkMembers
  BY <1>4, Notices DEF SdkMembers
<1>5. CASE RoomAnswers
  <2>1. pending \in Requests /\ pending' = [pending EXCEPT !.ready = TRUE]
    BY <1>5 DEF RoomAnswers
  <2>2. pending' \in Requests
    BY <2>1 DEF Requests
  <2> QED  BY <1>5, <2>2 DEF RoomAnswers, TimerOnly
<1>6. CASE EventMarks
  <2>1. events' \in Seq(Duties)
    BY <1>6, TailOf DEF EventMarks
  <2>2. /\ kind' \in Marks /\ numPeers' \in 0..MaxMembers
        /\ losses' \in Nat /\ reconnects' \in 0..losses'
        /\ rtc' \in Reports \cup {None} /\ previous' \in Samples \cup {None}
        /\ pending' \in Requests \cup {None}
    <3>1. CASE MarkConnected
      BY <1>0, <3>1 DEF MarkConnected
    <3>2. CASE MarkReconnecting
      BY <1>0, <3>2 DEF MarkReconnecting, ClearRtcSummary
    <3>3. CASE MarkDisconnected
      BY <1>0, <3>3, HealthAssumption DEF MarkDisconnected, ClearRtcSummary
    <3> QED  BY <1>6, <3>1, <3>2, <3>3 DEF EventMarks
  <2>3. overlapped' \in BOOLEAN
    <3>1. Polling \in BOOLEAN
      BY DEF Polling
    <3>2. overlapped' = overlapped \/ overlapped' = Polling
      BY <1>6 DEF EventMarks
    <3> QED  BY <3>1, <3>2
  <2> QED  BY <1>6, <2>1, <2>2, <2>3 DEF EventMarks
<1>7. CASE EventCounts
  <2>1. events' \in Seq(Duties)
    BY <1>7, TailOf DEF EventCounts
  <2> QED  BY <1>7, <2>1 DEF EventCounts, UpdatePeerCount
<1>8. CASE SdkEos
  <2>1. events' \in Seq(Duties)
    BY <1>8, Notices DEF SdkEos
  <2> QED  BY <1>8, <2>1 DEF SdkEos, Polling
<1> QED  BY <1>1, <1>2, <1>3, <1>4, <1>5, <1>6, <1>7, <1>8

LEMMA TypesKept ==
  ASSUME TypeOK, [Next]_vars
  PROVE  TypeOK'
<1>1. CASE Next
  BY <1>1, NextCases, TimerTypes, EventTypes, Zenon
<1>2. CASE UNCHANGED vars
  BY <1>2 DEF TypeOK, vars, external, state, history
<1> QED  BY <1>1, <1>2

(* Every variable keeps its type: the timer holds a request while it takes *)
(* or keeps one, and no more reconnections than losses are counted.        *)
THEOREM TypeCorrect == Spec => []TypeOK
<1>1. TypeOK /\ [Next]_vars => TypeOK'
  BY TypesKept
<1> QED  BY InitTypes, <1>1, PTL DEF Spec

-----------------------------------------------------------------------------
(* The invariant                                                           *)

LEMMA InitInvariant == Init => EventInv /\ ClearInv /\ MarkInv /\ CurrentInv /\ CountInv
<1> SUFFICES ASSUME Init PROVE EventInv /\ ClearInv /\ MarkInv /\ CurrentInv /\ CountInv
  OBVIOUS
<1>1. EventInv
  BY DEF Init, EventInv
<1>2. ClearInv /\ MarkInv /\ CurrentInv
  BY DEF Init, ClearInv, MarkInv, CurrentInv, Idle, LateEnd
<1>3. CountInv
  BY DEF Init, CountInv, Unmarked, LateEnd
<1> QED  BY <1>1, <1>2, <1>3

(* An event is owed by the connection as it is, and a new connection owes  *)
(* nothing of the one before but its end.                                  *)
LEMMA EventsKept ==
  ASSUME IInv, [Next]_vars
  PROVE  EventInv'
<1>0. TypeOK /\ EventInv
  BY DEF IInv
<1>1. ASSUME UNCHANGED <<link, events>> PROVE EventInv'
  BY <1>0, <1>1 DEF EventInv
<1>2. ASSUME NEW a, events' = <<a, "count">> \/ events' = <<a, "count">> \o <<a, "count">>
      PROVE  \A i \in DOMAIN events' : events'[i] \in {a, "count"}
  BY <1>2
<1>3. CASE Joins
  <2>1. CASE events = <<>>
    <3>1. link' = "up" /\ (events' = <<>> \/ events' = <<"connected", "count">>)
      BY <1>3, <2>1 DEF Joins
    <3> QED  BY <3>1 DEF EventInv, Owed
  <2>2. CASE events = <<"ended">>
    <3>1. link' = "up" /\ (events' = <<"ended">> \/ events' = <<"ended", "connected", "count">>)
      BY <1>3, <2>2 DEF Joins
    <3> QED  BY <3>1 DEF EventInv, Owed
  <2> QED  BY <1>3, <2>1, <2>2 DEF Joins
<1>4. CASE SdkReconnecting
  <2>1. \A i \in DOMAIN events' : events'[i] \in {"reconnecting", "count"}
    BY <1>2, <1>4 DEF SdkReconnecting
  <2> QED  BY <1>4, <2>1 DEF SdkReconnecting, EventInv, Owed
<1>5. CASE SdkDisconnected \/ SdkEos
  BY <1>5 DEF SdkDisconnected, SdkEos, EventInv, Owed
<1>6. CASE SdkReconnected
  <2>1. \A i \in DOMAIN events' : events'[i] \in {"connected", "count"}
    BY <1>2, <1>6 DEF SdkReconnected
  <2> QED  BY <1>6, <2>1 DEF SdkReconnected, EventInv, Owed
<1>7. CASE SdkMembers
  BY <1>7 DEF SdkMembers, EventInv, Owed
<1>8. CASE EventMarks \/ EventCounts
  <2>1. events # <<>> /\ events' = Tail(events) /\ link' = link
    BY <1>8 DEF EventMarks, EventCounts, Handled, external
  <2>2. \A i \in DOMAIN events' : \E j \in DOMAIN events \ {1} : events'[i] = events[j]
    BY <1>0, <2>1, TailOf DEF TypeOK
  <2> QED  BY <1>0, <2>1, <2>2 DEF EventInv
<1>9. CASE \/ UpdateStatsFromReadyFuture \/ StoreStats \/ PollStatsCheck \/ GetStats
           \/ GetStatsThrows \/ KeepRequest \/ PollReturns \/ Joined
           \/ TimerMarks \/ TimerCounts \/ TimerStores \/ RoomAnswers
  BY <1>1, <1>9 DEF UpdateStatsFromReadyFuture, StoreStats, PollStatsCheck, GetStats,
     GetStatsThrows, KeepRequest, PollReturns, Joined, TimerMarks, TimerCounts, TimerStores,
     RoomAnswers, TimerOnly, external
<1>10. CASE UNCHANGED vars
  BY <1>1, <1>10 DEF vars, external
<1> QED
  BY <1>3, <1>4, <1>5, <1>6, <1>7, <1>8, <1>9, <1>10, NextCases, Zenon

LEMMA ClearKept ==
  ASSUME IInv, [Next]_vars
  PROVE  ClearInv'
<1> USE DEF IInv, ClearInv, state, rtcVars
<1>1. CASE \/ UpdateStatsFromReadyFuture \/ StoreStats \/ PollStatsCheck \/ GetStats
           \/ GetStatsThrows \/ KeepRequest \/ PollReturns \/ Joins \/ Joined
           \/ TimerMarks \/ TimerCounts \/ TimerStores
  BY <1>1 DEF UpdateStatsFromReadyFuture, StoreStats, PollStatsCheck, GetStats,
     GetStatsThrows, KeepRequest, PollReturns, Joins, Joined, TimerMarks, TimerCounts, TimerStores,
     ClearRtcSummary, MarkConnected, UpdatePeerCount
<1>2. CASE \/ SdkReconnecting \/ SdkDisconnected \/ SdkEos \/ SdkReconnected \/ SdkMembers
           \/ RoomAnswers
  BY <1>2 DEF SdkReconnecting, SdkDisconnected, SdkEos, SdkReconnected, SdkMembers, RoomAnswers,
     Loses
<1>3. CASE EventMarks \/ EventCounts
  BY <1>3 DEF EventMarks, EventCounts, MarkConnected, MarkReconnecting, MarkDisconnected,
     ClearRtcSummary, UpdatePeerCount
<1>4. CASE UNCHANGED vars
  BY <1>4 DEF vars
<1> QED  BY <1>1, <1>2, <1>3, <1>4, NextCases, Zenon

(* The end of a connection is marked first. *)
LEMMA NothingLate ==
  ASSUME EventInv, events \in Seq(Duties), events # <<>>, events' = Tail(events), link' = link
  PROVE  ~LateEnd'
<1>1. \A i \in DOMAIN events' : \E j \in DOMAIN events \ {1} : events'[i] = events[j]
  BY TailOf
<1>2. \A i \in DOMAIN events' : events'[i] # "ended"
  BY <1>1 DEF EventInv
<1>3. events' # <<>> => 1 \in DOMAIN events' /\ Head(events') = events'[1]
  <2>1. events' \in Seq(Duties)
    BY TailOf
  <2> QED  BY <2>1
<1> QED  BY <1>2, <1>3 DEF LateEnd

LEMMA MarksKept ==
  ASSUME IInv, [Next]_vars
  PROVE  MarkInv' /\ CountInv'
<1>0. /\ TypeOK /\ EventInv /\ MarkInv /\ CountInv
      /\ losses \in Nat /\ reconnects \in Nat /\ lost \in Nat /\ recoveries \in Nat
  BY DEF IInv, TypeOK
<1>1. CASE \/ UpdateStatsFromReadyFuture \/ StoreStats \/ PollStatsCheck \/ GetStats
           \/ GetStatsThrows \/ KeepRequest \/ PollReturns \/ TimerCounts \/ TimerStores
           \/ RoomAnswers
  <2>1. /\ UNCHANGED <<link, kind, events, losses, reconnects, lost, recoveries, overtaken>>
        /\ timer' = timer \/ (/\ timer.at \notin {"joined", "mark"}
                              /\ timer'.at \notin {"joined", "mark"})
    BY <1>1 DEF UpdateStatsFromReadyFuture, StoreStats, PollStatsCheck, GetStats, GetStatsThrows,
       KeepRequest, PollReturns, TimerCounts, TimerStores, RoomAnswers, TimerOnly, Goto, Hold,
       UpdatePeerCount, external, state, history
  <2>2. LateEnd' = LateEnd
    BY <2>1 DEF LateEnd
  <2> QED  BY <1>0, <2>1, <2>2 DEF MarkInv, CountInv, Unmarked
<1>2. CASE Joins
  <2>1. /\ link = "down" /\ link' = "up" /\ timer'.at = "joined"
        /\ UNCHANGED <<kind, losses, reconnects, lost, recoveries, overtaken>>
    BY <1>2 DEF Joins, Goto, state, history
  <2>2. \/ events = <<>> /\ ~LateEnd'
        \/ events = <<"ended">> /\ LateEnd'
    BY <1>2 DEF Joins, LateEnd
  <2> QED  BY <1>0, <2>1, <2>2 DEF MarkInv, CountInv, Unmarked
<1>3. CASE Joined
  <2>1. /\ timer.at = "joined" /\ timer'.at = IF link = "down" THEN "idle" ELSE "mark"
        /\ UNCHANGED <<link, events, kind, losses, reconnects, lost, recoveries, overtaken>>
    BY <1>3 DEF Joined, Goto, state, TimerOnly, external, history
  <2> QED  BY <1>0, <2>1 DEF MarkInv, CountInv, Unmarked, LateEnd
<1>4. CASE TimerMarks
  <2>1. /\ timer.at = "mark" /\ timer'.at = "peers" /\ kind' = "connected"
        /\ UNCHANGED <<link, events, losses, reconnects, lost, recoveries>>
        /\ overtaken' = (overtaken \/ LateEnd)
    BY <1>4 DEF TimerMarks, MarkConnected, Goto, external
  <2>2. LateEnd' = LateEnd
    BY <2>1 DEF LateEnd
  <2> QED  BY <1>0, <2>1, <2>2 DEF MarkInv, CountInv, Unmarked
<1>5. CASE SdkReconnecting
  <2>1. /\ events = <<>> /\ link = "up" /\ link' = "recovering"
        /\ recoveries' = recoveries + 1 /\ lost' = lost + 1
        /\ overtaken' = (overtaken \/ timer.at \in {"joined", "mark"})
        /\ UNCHANGED <<kind, losses, reconnects, timer>>
    BY <1>5 DEF SdkReconnecting, Loses, state
  <2>2. events' # <<>> /\ Head(events') = "reconnecting" /\ ~LateEnd /\ ~LateEnd'
    BY <1>5 DEF SdkReconnecting, LateEnd
  <2>3. ~overtaken' => ~overtaken /\ timer.at \notin {"joined", "mark"}
    BY <2>1, Zenon
  <2>4. MarkInv'
    BY <2>1, <2>2, <2>3 DEF MarkInv
  <2>5. kind = "connected" \/ overtaken'
    BY <1>0, <2>1, <2>3 DEF MarkInv
  <2>6. CountInv'
    BY <1>0, <2>1, <2>2, <2>3, <2>5 DEF CountInv, Unmarked
  <2> QED  BY <2>4, <2>6
<1>6. CASE SdkDisconnected \/ SdkEos
  <2>1. /\ events = <<>> /\ link # "down" /\ link' = "down"
        /\ recoveries' = recoveries /\ lost' = IF link = "up" THEN lost + 1 ELSE lost
        /\ overtaken' = (overtaken \/ timer.at \in {"joined", "mark"})
        /\ UNCHANGED <<kind, losses, reconnects, timer>>
    BY <1>6 DEF SdkDisconnected, SdkEos, Loses, state
  <2>2. events' # <<>> /\ Head(events') \in {"disconnected", "ended"} /\ ~LateEnd /\ ~LateEnd'
    BY <1>6 DEF SdkDisconnected, SdkEos, LateEnd
  <2>3. link = "up" \/ link = "recovering"
    BY <1>0, <2>1 DEF TypeOK
  <2>4. ~overtaken' => ~overtaken /\ timer.at \notin {"joined", "mark"}
    BY <2>1, Zenon
  <2>5. MarkInv'
    BY <2>1, <2>2, <2>4 DEF MarkInv
  <2>6. ASSUME ~overtaken'
        PROVE  (link = "up" => kind = "connected") /\ (link # "up" => kind # "connected")
    <3>1. events = <<>> /\ DOMAIN events = {} /\ ~overtaken /\ timer.at \notin {"joined", "mark"}
      BY <2>1, <2>4, <2>6
    <3> QED  BY <1>0, <3>1 DEF MarkInv
  <2>7. CountInv'
    BY <1>0, <2>1, <2>2, <2>3, <2>4, <2>6 DEF CountInv, Unmarked
  <2> QED  BY <2>5, <2>7
<1>7. CASE SdkReconnected
  <2>1. /\ events = <<>> /\ link = "recovering" /\ link' = "up"
        /\ UNCHANGED <<kind, losses, reconnects, lost, recoveries, overtaken, timer>>
    BY <1>7 DEF SdkReconnected, state
  <2>2. 1 \in DOMAIN events' /\ events'[1] = "connected" /\ ~LateEnd /\ ~LateEnd'
    BY <1>7 DEF SdkReconnected, LateEnd
  <2> QED  BY <1>0, <2>1, <2>2 DEF MarkInv, CountInv, Unmarked
<1>8. CASE SdkMembers
  <2>1. /\ events = <<>> /\ link = "up"
        /\ UNCHANGED <<link, kind, losses, reconnects, lost, recoveries, overtaken, timer>>
    BY <1>8 DEF SdkMembers, state, history
  <2>2. ~LateEnd /\ ~LateEnd'
    BY <1>8 DEF SdkMembers, LateEnd
  <2> QED  BY <1>0, <2>1, <2>2 DEF MarkInv, CountInv, Unmarked
<1>9. CASE EventMarks
  <2>1. /\ events # <<>> /\ events' = Tail(events)
        /\ UNCHANGED <<link, lost, recoveries, overtaken, timer>>
    BY <1>9 DEF EventMarks, Handled, external
  <2>2. Head(events) \in Owed(link) /\ link \in {"down", "up", "recovering"}
    BY <1>0, <2>1, TailOf DEF TypeOK, EventInv
  <2>6. ~LateEnd' /\ (LateEnd <=> link = "up" /\ Head(events) = "ended")
    BY <1>0, <2>1, NothingLate DEF TypeOK, LateEnd
  <2>7. (\E i \in DOMAIN events : events[i] = "connected") =>
          Head(events) = "connected" \/ \E i \in DOMAIN events' : events'[i] = "connected"
    BY <1>0, <2>1, TailOf DEF TypeOK
  <2>3. CASE Head(events) = "connected" /\ MarkConnected
    <3>1. kind' = "connected" /\ UNCHANGED <<losses, reconnects>> /\ link = "up"
      BY <2>2, <2>3 DEF MarkConnected, Owed
    <3> QED  BY <1>0, <2>1, <2>3, <2>6, <3>1 DEF MarkInv, CountInv, Unmarked
  <2>4. CASE Head(events) = "reconnecting" /\ MarkReconnecting
    <3>1. link = "recovering" /\ kind' = "reconnecting"
          /\ IF kind = "connected" THEN losses' = losses + 1 /\ reconnects' = reconnects + 1
             ELSE UNCHANGED <<losses, reconnects>>
      BY <2>2, <2>4 DEF MarkReconnecting, Owed
    <3> QED  BY <1>0, <2>1, <2>6, <3>1 DEF MarkInv, CountInv, Unmarked
  <2>5. CASE Head(events) \in {"disconnected", "ended"} /\ MarkDisconnected
    <3>1. /\ link = "down" \/ LateEnd
          /\ kind' = "disconnected" /\ reconnects' = reconnects
          /\ losses' = IF kind = "connected" THEN losses + 1 ELSE losses
      BY <2>2, <2>5, <2>6 DEF MarkDisconnected, Owed
    <3>2. link # "recovering"
      BY <2>2, <2>5 DEF Owed
    <3> QED  BY <1>0, <2>1, <2>5, <2>6, <2>7, <3>1, <3>2 DEF MarkInv, CountInv, Unmarked
  <2> QED  BY <1>9, <2>3, <2>4, <2>5 DEF EventMarks
<1>10. CASE EventCounts
  <2>1. /\ events # <<>> /\ Head(events) = "count" /\ events' = Tail(events)
        /\ UNCHANGED <<link, kind, losses, reconnects, lost, recoveries, overtaken, timer>>
    BY <1>10 DEF EventCounts, UpdatePeerCount, Handled, external
  <2>2. (\E i \in DOMAIN events : events[i] = "connected") =>
          \E i \in DOMAIN events' : events'[i] = "connected"
    <3>1. \A j \in DOMAIN events :
            events[j] = Head(events) \/ \E i \in DOMAIN events' : events'[i] = events[j]
      BY <1>0, <2>1, TailOf DEF TypeOK
    <3> QED  BY <2>1, <3>1
  <2>3. ~LateEnd /\ ~LateEnd'
    BY <1>0, <2>1, NothingLate DEF TypeOK, LateEnd
  <2> QED  BY <1>0, <2>1, <2>2, <2>3 DEF MarkInv, CountInv, Unmarked
<1>11. CASE UNCHANGED vars
  BY <1>0, <1>11 DEF vars, external, state, history, MarkInv, CountInv, Unmarked,
     LateEnd
<1> QED
  BY <1>1, <1>2, <1>3, <1>4, <1>5, <1>6, <1>7, <1>8, <1>9, <1>10, <1>11, NextCases, Zenon

(* Statistics outlive their connection only if a poll overlapped the gap:  *)
(* a mark clears what is kept, and then no poll is under way.              *)
LEMMA CurrentKept ==
  ASSUME IInv, [Next]_vars
  PROVE  CurrentInv'
<1>0. TypeOK /\ EventInv /\ ClearInv /\ MarkInv /\ CurrentInv
  BY DEF IInv
<1>1. ASSUME UNCHANGED <<gains, rtcVars, pending, overlapped>>, overtaken' \/ ~overtaken,
             LateEnd => LateEnd' \/ overtaken',
             timer' = timer \/ timer'.at \notin {"taken", "keep"}
      PROVE  CurrentInv'
  BY <1>0, <1>1 DEF CurrentInv, rtcVars
<1>14. ASSUME UNCHANGED <<link, events>> PROVE LateEnd' = LateEnd
  BY <1>14 DEF LateEnd
<1>2. CASE UpdateStatsFromReadyFuture
  <2>1. /\ UNCHANGED <<gains, rtcVars, overlapped, overtaken, link, events>>
        /\ \/ timer' = [at |-> "taken", with |-> pending] /\ pending # None /\ pending' = None
           \/ timer' = [at |-> "check", with |-> None] /\ pending' = pending
    BY <1>2 DEF UpdateStatsFromReadyFuture, Goto, Hold, TimerOnly, state, rtcVars, external, history
  <2> QED  BY <1>0, <1>14, <2>1 DEF CurrentInv, rtcVars
<1>3. CASE StoreStats
  <2>1. /\ UNCHANGED <<gains, pending, overlapped, overtaken>> /\ timer'.at = "check"
        /\ UNCHANGED <<link, events>>
        /\ timer.at = "taken" /\ timer.with \in Requests
    BY <1>0, <1>3 DEF StoreStats, Goto, TimerOnly, external, history, TypeOK
  <2>2. CASE ClearRtcSummary
    BY <1>0, <1>14, <2>1, <2>2 DEF CurrentInv, ClearRtcSummary
  <2>3. CASE StatsSnapshot(timer.with)
    <3>1. /\ rtc'.of = timer.with.of
          /\ rtc'.rate # None => previous # None /\ rtc'.rate.of = previous.of
          /\ previous' # None => previous'.of = timer.with.of
      BY <1>0, <2>1, <2>3, SnapshotOf
    <3> QED  BY <1>0, <1>14, <2>1, <3>1 DEF CurrentInv
  <2>4. CASE UNCHANGED rtcVars
    BY <1>1, <1>14, <2>1, <2>4
  <2> QED  BY <1>3, <2>2, <2>3, <2>4 DEF StoreStats
<1>4. CASE GetStats
  <2>1. /\ UNCHANGED <<gains, rtcVars, pending, overlapped, overtaken, link, events>>
        /\ timer'.with.of = gains
    BY <1>4 DEF GetStats, Hold, state, rtcVars, external, history
  <2> QED  BY <1>0, <1>14, <2>1 DEF CurrentInv, rtcVars
<1>5. CASE GetStatsThrows
  <2>1. UNCHANGED <<gains, overlapped, overtaken>> /\ timer'.at = "connect"
        /\ rtc' = None /\ previous' = None /\ pending' = None
    BY <1>5 DEF GetStatsThrows, ClearRtcSummary, Goto, TimerOnly, external, history
  <2> QED  BY <2>1 DEF CurrentInv
<1>6. CASE KeepRequest
  <2>1. /\ UNCHANGED <<gains, rtcVars, overlapped, overtaken, link, events>>
        /\ timer'.at = "connect"
        /\ timer.at = "keep" /\ pending' \in {pending, timer.with}
    BY <1>6 DEF KeepRequest, Goto, TimerOnly, state, rtcVars, external, history
  <2> QED  BY <1>0, <1>14, <2>1 DEF CurrentInv, rtcVars
<1>7. CASE RoomAnswers
  <2>1. /\ UNCHANGED <<gains, rtcVars, overlapped, overtaken, timer, link, events>>
        /\ pending \in Requests /\ pending' = [pending EXCEPT !.ready = TRUE]
    BY <1>0, <1>7 DEF RoomAnswers, TimerOnly, TypeOK, state, rtcVars, external, history
  <2>2. pending'.of = pending.of /\ pending # None
    BY <1>7, <2>1 DEF Requests, RoomAnswers
  <2> QED  BY <1>0, <1>14, <2>1, <2>2 DEF CurrentInv, rtcVars
<1>8. CASE Joins
  <2>1. /\ link = "down" /\ timer'.at = "joined"
        /\ UNCHANGED <<kind, rtc, previous, pending, overlapped, overtaken>>
    BY <1>8 DEF Joins, Goto, state, rtcVars, history
  <2>3. events = <<>> \/ LateEnd'
    BY <1>8 DEF Joins, LateEnd
  <2>2. ~overtaken /\ ~LateEnd' => rtc = None /\ previous = None /\ pending = None
    BY <1>0, <2>1, <2>3 DEF MarkInv, ClearInv
  <2> QED  BY <2>1, <2>2 DEF CurrentInv
<1>9. CASE SdkReconnected
  <2>1. /\ link = "recovering" /\ events = <<>>
        /\ UNCHANGED <<kind, rtc, previous, pending, timer, overtaken>>
        /\ overlapped' = (overlapped \/ Polling)
    BY <1>9 DEF SdkReconnected, state, rtcVars
  <2>2. ~overtaken => rtc = None /\ previous = None /\ pending = None
    BY <1>0, <2>1 DEF MarkInv, ClearInv
  <2> QED  BY <2>1, <2>2 DEF CurrentInv, Polling
<1>10. CASE SdkReconnecting \/ SdkDisconnected \/ SdkEos
  <2>1. /\ UNCHANGED <<gains, rtcVars, pending, timer>>
        /\ overlapped' = (overlapped \/ Polling)
        /\ overtaken' = (overtaken \/ timer.at \in {"joined", "mark"})
    BY <1>10, Zenon DEF SdkReconnecting, SdkDisconnected, SdkEos, Loses, state, rtcVars
  <2>2. ~LateEnd
    BY <1>10 DEF SdkReconnecting, SdkDisconnected, SdkEos, LateEnd
  <2> QED  BY <1>0, <2>1, <2>2 DEF CurrentInv, rtcVars
<1>11. CASE EventMarks
  <2>1. UNCHANGED <<gains, timer, overtaken>>
    BY <1>11 DEF EventMarks, Handled, external
  <2>2. CASE Head(events) = "connected" /\ MarkConnected /\ UNCHANGED overlapped
    BY <1>1, <2>1, <2>2 DEF MarkConnected, LateEnd
  <2>3. CASE (MarkReconnecting \/ MarkDisconnected) /\ overlapped' = Polling
    <3>1. rtc' = None /\ previous' = None /\ pending' = None
      BY <2>3 DEF MarkReconnecting, MarkDisconnected, ClearRtcSummary
    <3> QED  BY <2>1, <2>3, <3>1 DEF CurrentInv, Polling
  <2> QED  BY <1>11, <2>2, <2>3 DEF EventMarks
<1>12. CASE \/ PollStatsCheck \/ PollReturns \/ Joined \/ TimerMarks \/ TimerCounts \/ TimerStores
            \/ SdkMembers \/ EventCounts
  <2>1. /\ UNCHANGED <<gains, rtcVars, pending, overlapped>> /\ (overtaken' \/ ~overtaken)
        /\ timer' = timer \/ timer'.at \notin {"taken", "keep"}
    <3>1. CASE TimerMarks
      BY <3>1, Zenon DEF TimerMarks, MarkConnected, Goto, rtcVars, external
    <3>2. CASE ~TimerMarks
      BY <1>12, <3>2 DEF PollStatsCheck, PollReturns, Joined, TimerCounts, TimerStores,
         SdkMembers, EventCounts, UpdatePeerCount, Handled, Goto, Hold, TimerOnly,
         state, rtcVars, external, history
    <3> QED  BY <3>1, <3>2
  <2>2. CASE SdkMembers \/ EventCounts
    BY <1>1, <2>1, <2>2 DEF SdkMembers, EventCounts, LateEnd
  <2>3. CASE ~(SdkMembers \/ EventCounts)
    <3>1. UNCHANGED <<link, events>>
      BY <1>12, <2>3 DEF PollStatsCheck, PollReturns, Joined, TimerMarks, TimerCounts,
         TimerStores, TimerOnly, external
    <3> QED  BY <1>1, <1>14, <2>1, <3>1
  <2> QED  BY <2>2, <2>3
<1>13. CASE UNCHANGED vars
  BY <1>1, <1>13 DEF vars, state, rtcVars, external, history, LateEnd
<1> QED
  BY <1>2, <1>3, <1>4, <1>5, <1>6, <1>7, <1>8, <1>9, <1>10, <1>11, <1>12, <1>13, NextCases, Zenon

(* What is kept is of the connection, and what was lost is counted or is   *)
(* about to be, after each critical section of mutex_.                     *)
THEOREM Invariant == Spec => []IInv
<1>1. Init => IInv
  BY InitTypes, InitInvariant DEF IInv
<1>2. IInv /\ [Next]_vars => IInv'
  <2> SUFFICES ASSUME IInv, [Next]_vars PROVE IInv'
    OBVIOUS
  <2>1. TypeOK'
    BY TypesKept DEF IInv
  <2> QED  BY <2>1, EventsKept, ClearKept, MarksKept, CurrentKept DEF IInv
<1> QED  BY <1>1, <1>2, PTL DEF Spec

(* The diagnostic reports the room: statistics and rates belong to the     *)
(* connection that is up, and each loss and each attempt to restore one is *)
(* counted once, for any number of connections and however the polls of    *)
(* the timer fall between the marks of the event thread.                   *)
THEOREM DiagnosticIsTrue == Spec => []ReportsTheRoom
<1>1. IInv => StatsAreCurrent
  BY DEF IInv, ClearInv, CurrentInv, StatsAreCurrent
<1>2. IInv => LossesAreCounted
  <2> SUFFICES ASSUME IInv, events = <<>>, ~overtaken
               PROVE  losses = lost /\ reconnects = recoveries
    BY DEF LossesAreCounted
  <2>1. ~Unmarked
    BY DEF IInv, MarkInv, Unmarked, LateEnd
  <2> QED  BY <2>1 DEF IInv, CountInv, TypeOK
<1>3. IInv => ReportsTheRoom
  BY <1>1, <1>2 DEF ReportsTheRoom
<1> QED  BY <1>3, Invariant, PTL
==============================================================================
