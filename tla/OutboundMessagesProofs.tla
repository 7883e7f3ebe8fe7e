------------------------- MODULE OutboundMessagesProofs -------------------------
(***************************************************************************)
(* What the outbound path promises of every topic, publisher and callback: *)
(* subscriptions connect to their publishers, and the rate cap neither     *)
(* leaks nor stalls; and of the capture sources that are published beside  *)
(* the topics: their tracks are withdrawn.                                 *)
(***************************************************************************)
EXTENDS OutboundMessages, VideoSources, FiniteSetTheorems, WellFoundedInduction, TLAPS

-----------------------------------------------------------------------------
(* Least elements, and the sum of a function on a finite set               *)

LEMMA LeastNatural ==
  ASSUME NEW T, T \subseteq Nat, T # {}
  PROVE  \E m \in T : \A k \in T : m <= k
<1>1. \E m \in T : \A k \in T : ~(<<k, m>> \in OpToRel(<, Nat))
  BY NatLessThanWellFounded, WFMin, Zenon
<1>2. \E m \in T : \A k \in T : ~(k < m)
  BY <1>1, Zenon DEF OpToRel
<1> QED  BY <1>2

LEMMA LeastIsMin ==
  ASSUME NEW T, T \subseteq Nat, T # {}
  PROVE  Min(T) \in T /\ \A k \in T : Min(T) <= k
BY LeastNatural DEF Min

LEMMA NatsAreInts == Nat \subseteq Int /\ 1 \in Int
OBVIOUS

LEMMA MinMaxOfTwo ==
  ASSUME NEW a \in Int, NEW b \in Int
  PROVE  /\ Min({a, b}) = IF a <= b THEN a ELSE b
         /\ Max({a, b}) = IF a >= b THEN a ELSE b
<1>1. PICK m \in {a, b} : \A k \in {a, b} : m <= k
  OBVIOUS
<1>2. PICK n \in {a, b} : \A k \in {a, b} : n >= k
  OBVIOUS
<1>3. Min({a, b}) \in {a, b} /\ \A k \in {a, b} : Min({a, b}) <= k
  BY <1>1 DEF Min
<1>4. Max({a, b}) \in {a, b} /\ \A k \in {a, b} : Max({a, b}) >= k
  BY <1>2 DEF Max
<1> QED  BY <1>3, <1>4

(* SumFunctionOnSet takes the elements of a set away one by one: it is a   *)
(* function g on subsets that satisfies this equation.                     *)
Picked(s) == CHOOSE x \in s : TRUE
AddUp(f, g, s) == IF s = {} THEN 0 ELSE f[Picked(s)] + g[s \ {Picked(s)}]
IsSum(f, S, g) == g = [s \in SUBSET S |-> AddUp(f, g, s)]

LEMMA SumUnfolds ==
  ASSUME NEW f, NEW S
  PROVE  SumFunctionOnSet(f, S) = LET g == CHOOSE h : IsSum(f, S, h) IN g[S]
BY DEF SumFunctionOnSet, FoldFunctionOnSet, MapThenFoldSet, IsSum, AddUp, Picked

(* A set with its picked element taken away is smaller. *)
LEMMA Smaller ==
  ASSUME NEW S, IsFiniteSet(S), NEW s \in SUBSET S, s # {}
  PROVE  /\ Picked(s) \in s /\ s \ {Picked(s)} \in SUBSET S
         /\ Cardinality(s) \in Nat /\ Cardinality(s \ {Picked(s)}) \in Nat
         /\ Cardinality(s \ {Picked(s)}) = Cardinality(s) - 1
<1>1. Picked(s) \in s
  BY DEF Picked
<1>2. IsFiniteSet(s) /\ IsFiniteSet(s \ {Picked(s)})
  BY FS_Subset
<1> QED  BY <1>1, <1>2, FS_RemoveElement, FS_CardinalityType

(* The equation can be met on the subsets of any size, a size after the    *)
(* other, and so on all of them.                                           *)
LEMMA SumExists ==
  ASSUME NEW S, IsFiniteSet(S), NEW f \in [S -> Nat]
  PROVE  \E g : IsSum(f, S, g)
<1> DEFINE Meets(g, n) ==
      /\ g \in [SUBSET S -> Nat]
      /\ \A s \in SUBSET S : Cardinality(s) <= n => g[s] = AddUp(f, g, s)
           Bad == {n \in Nat : ~\E g : Meets(g, n)}
<1>1. ASSUME NEW g \in [SUBSET S -> Nat], NEW s \in SUBSET S
      PROVE  AddUp(f, g, s) \in Nat
  <2>1. CASE s = {}
    BY <2>1 DEF AddUp
  <2>2. CASE s # {}
    <3>1. Picked(s) \in s /\ s \ {Picked(s)} \in SUBSET S
      BY <2>2, Smaller
    <3>2. g[s \ {Picked(s)}] \in Nat /\ f[Picked(s)] \in Nat
      BY <1>1, <3>1
    <3> QED  BY <2>2, <3>2 DEF AddUp
  <2> QED  BY <2>1, <2>2
<1>2. 0 \notin Bad
  <2> DEFINE g == [s \in SUBSET S |-> 0]
  <2>1. ASSUME NEW s \in SUBSET S, Cardinality(s) <= 0
        PROVE  g[s] = AddUp(f, g, s)
    <3>1. ASSUME s # {} PROVE FALSE
      <4>1. /\ Cardinality(s) \in Nat /\ Cardinality(s \ {Picked(s)}) \in Nat
            /\ Cardinality(s \ {Picked(s)}) = Cardinality(s) - 1
        BY <3>1, Smaller
      <4> QED  BY <2>1, <4>1
    <3> QED  BY <3>1 DEF AddUp
  <2>2. Meets(g, 0)
    BY <2>1
  <2> QED  BY <2>2
<1>3. Bad = {}
  <2> SUFFICES ASSUME Bad # {} PROVE FALSE
    OBVIOUS
  <2>0. Bad \subseteq Nat
    OBVIOUS
  <2>1. PICK n \in Bad : \A k \in Bad : n <= k
    BY <2>0, LeastNatural
  <2>2. n \in Nat /\ n - 1 \in Nat /\ n - 1 \notin Bad
    <3> HIDE DEF Bad
    <3> QED  BY <1>2, <2>0, <2>1
  <2>3. PICK g : Meets(g, n - 1)
    BY <2>2
  <2> DEFINE h == [s \in SUBSET S |-> AddUp(f, g, s)]
  <2>4. h \in [SUBSET S -> Nat]
    BY <1>1, <2>3
  <2>5. ASSUME NEW s \in SUBSET S, Cardinality(s) <= n
        PROVE  h[s] = AddUp(f, h, s)
    <3>1. CASE s = {}
      BY <3>1 DEF AddUp
    <3>2. CASE s # {}
      <4>1. s \ {Picked(s)} \in SUBSET S /\ Cardinality(s \ {Picked(s)}) <= n - 1
        BY <2>2, <2>5, <3>2, Smaller
      <4>2. g[s \ {Picked(s)}] = h[s \ {Picked(s)}]
        BY <2>3, <4>1
      <4> QED  BY <3>2, <4>2 DEF AddUp
    <3> QED  BY <3>1, <3>2
  <2>6. Meets(h, n)
    BY <2>4, <2>5
  <2> QED  BY <2>1, <2>6
<1>4. Cardinality(S) \in Nat /\ \A s \in SUBSET S : Cardinality(s) <= Cardinality(S)
  BY FS_CardinalityType, FS_Subset
<1>5. PICK g : Meets(g, Cardinality(S))
  BY <1>3, <1>4
<1>6. g = [s \in SUBSET S |-> AddUp(f, g, s)]
  BY <1>4, <1>5
<1> QED  BY <1>6 DEF IsSum

(* A sum of natural numbers is at least each of them. *)
LEMMA SumIsLarge ==
  ASSUME NEW S, IsFiniteSet(S), NEW f \in [S -> Nat]
  PROVE  SumFunctionOnSet(f, S) \in Nat /\ \A x \in S : f[x] <= SumFunctionOnSet(f, S)
<1> DEFINE g == CHOOSE h : IsSum(f, S, h)
           Large(s) == g[s] \in Nat /\ \A x \in s : f[x] <= g[s]
           Bad == {n \in Nat : \E s \in SUBSET S : Cardinality(s) = n /\ ~Large(s)}
<1>1. IsSum(f, S, g)
  BY SumExists
<1> HIDE DEF g
<1>2. \A s \in SUBSET S : g[s] = AddUp(f, g, s)
  BY <1>1 DEF IsSum
<1>3. Bad = {}
  <2> SUFFICES ASSUME Bad # {} PROVE FALSE
    OBVIOUS
  <2>1. PICK n \in Bad : \A k \in Bad : n <= k
    BY LeastNatural
  <2>2. PICK s \in SUBSET S : Cardinality(s) = n /\ ~Large(s)
    BY <2>1
  <2>3. CASE s = {}
    <3>1. g[s] = 0
      BY <1>2, <2>3 DEF AddUp
    <3> QED  BY <2>2, <2>3, <3>1
  <2>4. CASE s # {}
    <3> DEFINE r == s \ {Picked(s)}
    <3>1. Picked(s) \in s /\ r \in SUBSET S /\ Cardinality(r) \in Nat /\ Cardinality(r) < n
      BY <2>2, <2>4, Smaller
    <3>2. Large(r)
      <4>1. Cardinality(r) \notin Bad
        <5>1. n \in Nat
          OBVIOUS
        <5> HIDE DEF Bad, Large
        <5> QED  BY <2>1, <3>1, <5>1
      <4> QED  BY <3>1, <4>1
    <3>3. g[s] = f[Picked(s)] + g[r] /\ f[Picked(s)] \in Nat
      BY <1>2, <2>4, <3>1 DEF AddUp
    <3>4. ASSUME NEW x \in s PROVE f[x] <= g[s]
      <4>1. f[x] \in Nat
        OBVIOUS
      <4>2. x = Picked(s) \/ x \in r
        OBVIOUS
      <4>3. g[r] \in Nat /\ (x \in r => f[x] <= g[r])
        BY <3>2
      <4> HIDE DEF r
      <4> QED  BY <3>3, <4>1, <4>2, <4>3
    <3>5. g[s] \in Nat
      BY <3>2, <3>3
    <3> QED  BY <2>2, <3>4, <3>5
  <2> QED  BY <2>3, <2>4
<1>4. Cardinality(S) \in Nat
  BY FS_CardinalityType
<1>5. Large(S)
  BY <1>3, <1>4
<1> QED  BY <1>5, SumUnfolds DEF g

-----------------------------------------------------------------------------
(* What is configured for a topic, and the profile of a subscription       *)

LEMMA NamedIsNat ==
  ASSUME NEW cfg \in Seq(Entry), NEW t
  PROVE  Named(cfg, t) \subseteq DOMAIN cfg /\ Named(cfg, t) \subseteq Nat
BY DEF Named

LEMMA RateIsPeriod ==
  ASSUME NEW cfg \in Seq(Entry), NEW t
  PROVE  RateLimits(cfg, t) \in 0..MaxPeriod
<1> DEFINE capped == {i \in Named(cfg, t) : cfg[i].period > 0}
<1>1. capped \subseteq DOMAIN cfg /\ capped \subseteq Nat
  BY NamedIsNat
<1>2. \A i \in capped : cfg[i].period \in 0..MaxPeriod
  <2>1. \A i \in DOMAIN cfg : cfg[i] \in Entry
    OBVIOUS
  <2> HIDE DEF capped
  <2> QED  BY <1>1, <2>1 DEF Entry
<1>3. capped # {} => Min(capped) \in capped
  BY <1>1, LeastIsMin
<1>4. RateLimits(cfg, t) = IF capped = {} THEN 0 ELSE cfg[Min(capped)].period
  BY DEF RateLimits
<1> HIDE DEF capped
<1> QED  BY <1>2, <1>3, <1>4, DepthsAssumption

LEMMA EncodingIsKnown ==
  ASSUME NEW cfg \in Seq(Entry), NEW t
  PROVE  OutboundEncoding(cfg, t) \in Encodings
<1>1. \A i \in Named(cfg, t) : cfg[i].encoding \in Encodings
  <2>1. \A i \in DOMAIN cfg : cfg[i] \in Entry
    OBVIOUS
  <2> QED  BY <2>1, NamedIsNat DEF Entry
<1>2. Named(cfg, t) # {} => Min(Named(cfg, t)) \in Named(cfg, t)
  BY NamedIsNat, LeastIsMin
<1> QED  BY <1>1, <1>2 DEF OutboundEncoding, Encodings

(* The history has room for what each publisher keeps, unless it is full. *)
LEMMA DepthSuffices ==
  ASSUME NEW crowd \in Seq(Profile)
  PROVE  /\ Depth(crowd) \in Nat /\ Depth(crowd) <= MaxDepth
         /\ Depth(crowd) < MaxDepth => \A i \in DOMAIN crowd : crowd[i].depth <= Depth(crowd)
<1> DEFINE f == [i \in DOMAIN crowd |-> Max({1, crowd[i].depth})]
           kept == SumFunction(f)
<1>1. \A i \in DOMAIN crowd : crowd[i].depth \in Nat
  <2>1. \A i \in DOMAIN crowd : crowd[i] \in Profile
    OBVIOUS
  <2> QED  BY <2>1 DEF Profile
<1>2. ASSUME NEW i \in DOMAIN crowd
      PROVE  f[i] \in Nat /\ crowd[i].depth <= f[i]
  <2>1. Max({1, crowd[i].depth}) = IF 1 >= crowd[i].depth THEN 1 ELSE crowd[i].depth
    BY <1>1, MinMaxOfTwo, Zenon, NatsAreInts
  <2> QED  BY <1>1, <2>1
<1>3. f \in [DOMAIN crowd -> Nat] /\ DOMAIN f = DOMAIN crowd
  BY <1>2
<1>4. IsFiniteSet(DOMAIN crowd)
  BY FS_Interval
<1>5. kept \in Nat /\ \A i \in DOMAIN crowd : f[i] <= kept
  <2> HIDE DEF f
  <2> QED  BY <1>3, <1>4, SumIsLarge DEF SumFunction
<1>6. Depth(crowd) = Min({MaxDepth, Max({MinDepth, kept})})
  BY DEF Depth
<1>7. ASSUME NEW i \in DOMAIN crowd PROVE crowd[i].depth \in Nat /\ crowd[i].depth <= kept
  <2> HIDE DEF f, kept
  <2> QED  BY <1>1, <1>2, <1>5
<1> HIDE DEF f, kept
<1>8. Max({MinDepth, kept}) = IF MinDepth >= kept THEN MinDepth ELSE kept
  BY <1>5, MinMaxOfTwo, DepthsAssumption, NatsAreInts, Zenon
<1>9. Max({MinDepth, kept}) \in Nat /\ kept <= Max({MinDepth, kept})
  BY <1>5, <1>8, DepthsAssumption
<1>10. Depth(crowd) = IF MaxDepth <= Max({MinDepth, kept}) THEN MaxDepth
                      ELSE Max({MinDepth, kept})
  <2>1. MaxDepth \in Int /\ Max({MinDepth, kept}) \in Int
    BY <1>9, DepthsAssumption
  <2>2. Min({MaxDepth, Max({MinDepth, kept})}) =
          IF MaxDepth <= Max({MinDepth, kept}) THEN MaxDepth ELSE Max({MinDepth, kept})
    BY <2>1, MinMaxOfTwo, Zenon
  <2> QED  BY <1>6, <2>2, Zenon
<1>11. kept \in Nat /\ MinDepth \in Nat /\ MaxDepth \in Nat
  BY <1>5, DepthsAssumption
<1>12. Depth(crowd) \in Nat /\ Depth(crowd) <= MaxDepth
  BY <1>9, <1>10, <1>11
<1>13. Depth(crowd) < MaxDepth => kept <= Depth(crowd)
  BY <1>9, <1>10, <1>11
<1> QED  BY <1>7, <1>11, <1>12, <1>13

LEMMA QoSIsProfile ==
  ASSUME NEW crowd \in Seq(Profile), NEW best \in BOOLEAN
  PROVE  DetermineQoS(crowd, best) \in Profile
<1>1. Depth(crowd) \in Nat
  BY DepthSuffices
<1> QED  BY <1>1 DEF DetermineQoS, Profile

-----------------------------------------------------------------------------
(* Type correctness                                                        *)

(* A callback under way has a topic, and an image callback a frame and,    *)
(* once it has found one, the state it works on.                           *)
CallInv ==
  \A c \in Callbacks :
    /\ cb[c].at # "idle" => cb[c].topic \in Topics
    /\ cb[c].at \in {"find", "jpeg", "image"} => cb[c].sample \in Image
    /\ cb[c].at \in {"jpeg", "image"} => cb[c].state \in ImageStates

LEMMA ScenarioFacts ==
  ASSUME TypeOK
  PROVE  /\ config \in Seq(Entry) /\ setting.samples \subseteq Sample
         /\ setting.until \in 0..MaxNow
         /\ \A t \in Topics : setting.crowds[t] \subseteq Seq(Profile)
<1>1. setting \in [config : Seq(Entry), bestEffort : SUBSET Patterns, heard : SUBSET Topics,
                   crowds : [Topics -> SUBSET Seq(Profile)], samples : SUBSET Sample,
                   until : 0..MaxNow]
  BY OutboundAssumption DEF TypeOK
<1> QED  BY <1>1 DEF config

LEMMA InitTypes == Init => TypeOK /\ CallInv
<1> SUFFICES ASSUME Init PROVE TypeOK /\ CallInv
  OBVIOUS
<1>1. Idle \in Callback
  BY DEF Idle, Callback, Sample, Track
<1>2. NoTrack \in Track
  BY DEF Track
<1>3. /\ qos \in [Topics -> Profile \cup {NoSub}]
      /\ data \in [Topics -> [period : 0..MaxPeriod, last : 0..Never, writer : Track] \cup {NoSub}]
      /\ image \in [Topics -> ImageStates \cup {NoSub}] /\ sink \in [ImageStates -> Track]
  BY <1>2 DEF Init
<1>4. /\ pubs \in [Topics -> Seq(Profile)] /\ seen \in [Topics -> Seq(Profile)]
      /\ passed \in [Topics -> Nat]
  BY DEF Init
<1>5. /\ since \in [Topics -> 0..MaxPeriod] /\ starved \in [Topics -> 0..(MaxPeriod + 1)]
      /\ now \in 0..MaxNow /\ jumps \in 0..MaxJumps /\ received \in 0..MaxSamples
  BY OutboundAssumption, DepthsAssumption DEF Init
<1>6. cb \in [Callbacks -> Callback]
  BY <1>1 DEF Init
<1>7. CallInv
  BY DEF Init, CallInv, Idle
<1> QED  BY <1>3, <1>4, <1>5, <1>6, <1>7 DEF Init, TypeOK

(* What a subscription is made with *)
LEMMA NewTypes ==
  ASSUME TypeOK, NEW t \in Topics
  PROVE  /\ NewData(t) \in [period : 0..MaxPeriod, last : 0..Never, writer : Track]
         /\ DetermineQoS(pubs[t], MatchesAny(t, setting.bestEffort)) \in Profile
<1>1. RateLimits(config, t) \in 0..MaxPeriod
  BY ScenarioFacts, RateIsPeriod
<1>2. NoTrack \in Track /\ Never \in 0..Never
  BY OutboundAssumption DEF Track, Never
<1>3. pubs[t] \in Seq(Profile) /\ MatchesAny(t, setting.bestEffort) \in BOOLEAN
  BY DEF TypeOK, MatchesAny
<1>4. DetermineQoS(pubs[t], MatchesAny(t, setting.bestEffort)) \in Profile
  BY <1>3, QoSIsProfile
<1> QED  BY <1>1, <1>2, <1>4 DEF NewData

(* What a first sample or frame is published as *)
LEMMA PublishedTypes ==
  ASSUME TypeOK
  PROVE  /\ \A t \in Topics : PublishDataTrack(t) \subseteq Track
         /\ \A size \in Sizes : PublishVideoTrack(size) \subseteq Track
<1>1. \A t \in Topics : OutboundEncoding(config, t) \in Encodings
  BY ScenarioFacts, EncodingIsKnown
<1>2. \A t \in Topics : [kind |-> "data", of |-> OutboundEncoding(config, t)] \in Track
  BY <1>1 DEF Track
<1>3. \A size \in Sizes : [kind |-> "video", of |-> size] \in Track
  BY DEF Track
<1>4. NoTrack \in Track
  BY DEF Track
<1>5. \A track \in Track : Published(track) \subseteq Track
  BY <1>4 DEF Published
<1> QED  BY <1>2, <1>3, <1>5 DEF PublishDataTrack, PublishVideoTrack

LEMMA TimeTypes ==
  ASSUME TypeOK, NEW t \in Topics
  PROVE  /\ Min({MaxPeriod, since[t] + 1}) \in 0..MaxPeriod
         /\ Min({MaxPeriod + 1, starved[t] + 1}) \in 0..(MaxPeriod + 1)
         /\ Max({1, starved[t]}) \in 0..(MaxPeriod + 1)
<1>1. since[t] \in 0..MaxPeriod /\ starved[t] \in 0..(MaxPeriod + 1)
  BY DEF TypeOK
<1>2. /\ MaxPeriod \in Int /\ since[t] + 1 \in Int /\ MaxPeriod + 1 \in Int
      /\ starved[t] \in Int /\ starved[t] + 1 \in Int /\ 1 \in Int
  BY <1>1, DepthsAssumption
<1>3. /\ Min({MaxPeriod, since[t] + 1}) =
           IF MaxPeriod <= since[t] + 1 THEN MaxPeriod ELSE since[t] + 1
      /\ Min({MaxPeriod + 1, starved[t] + 1}) =
           IF MaxPeriod + 1 <= starved[t] + 1 THEN MaxPeriod + 1 ELSE starved[t] + 1
      /\ Max({1, starved[t]}) = IF 1 >= starved[t] THEN 1 ELSE starved[t]
  BY <1>2, MinMaxOfTwo, Zenon
<1> QED  BY <1>1, <1>3, DepthsAssumption

(* A callback that comes to another point. *)
Proper(r) ==
  /\ r \in Callback
  /\ r.at # "idle" => r.topic \in Topics
  /\ r.at \in {"find", "jpeg", "image"} => r.sample \in Image
  /\ r.at \in {"jpeg", "image"} => r.state \in ImageStates

LEMMA ProperCallbacks ==
  ASSUME TypeOK, CallInv, NEW c \in Callbacks
  PROVE  Proper(cb[c]) /\ Proper(Idle)
<1>1. Proper(cb[c])
  BY DEF TypeOK, CallInv, Proper
<1>2. Proper(Idle)
  BY DEF Proper, Idle, Callback, Sample, Track
<1> QED  BY <1>1, <1>2

LEMMA CallbackMoves ==
  ASSUME TypeOK, CallInv, NEW c \in Callbacks, NEW r, Proper(r),
         cb' = [cb EXCEPT ![c] = r]
  PROVE  cb' \in [Callbacks -> Callback] /\ CallInv'
<1>1. cb' \in [Callbacks -> Callback] /\ \A d \in Callbacks : cb'[d] = IF d = c THEN r ELSE cb[d]
  BY DEF TypeOK, Proper
<1>2. ASSUME NEW d \in Callbacks PROVE Proper(cb'[d])
  BY <1>1, ProperCallbacks
<1> QED  BY <1>1, <1>2 DEF CallInv, Proper

LEMMA DoneMoves ==
  ASSUME TypeOK, CallInv, NEW c \in Callbacks, Done(c)
  PROVE  cb' \in [Callbacks -> Callback] /\ CallInv'
BY CallbackMoves, ProperCallbacks DEF Done

LEMMA SubscriptionTypes ==
  ASSUME TypeOK, CallInv, NEW t \in Topics, CreateSubscriber(t) \/ Reap(t) \/ PublishersChange(t)
  PROVE  TypeOK' /\ CallInv'
<1>1. CASE Reap(t)
  BY <1>1 DEF TypeOK, CallInv, Reap, external, history, times
<1>2. CASE PublishersChange(t)
  <2>1. pubs' \in [Topics -> Seq(Profile)]
    BY <1>2, ScenarioFacts DEF TypeOK, PublishersChange
  <2> QED  BY <1>2, <2>1 DEF TypeOK, CallInv, PublishersChange, subVars, history, times
<1>3. CASE CreateSubscriber(t)
  <2>0. /\ UNCHANGED <<setting, pubs, available, now, jumps, cb, received, passed>>
        /\ SubscribeData(t) \/ SubscribeVideo(t) \/ UNCHANGED <<subVars, since, starved>>
    BY <1>3 DEF CreateSubscriber, external
  <2>1. ASSUME Subscribed(t)
        PROVE  /\ seen' \in [Topics -> Seq(Profile)] /\ qos' \in [Topics -> Profile \cup {NoSub}]
               /\ since' \in [Topics -> 0..MaxPeriod] /\ starved' \in [Topics -> 0..(MaxPeriod + 1)]
    <3>1. /\ pubs[t] \in Seq(Profile) /\ MaxPeriod \in 0..MaxPeriod /\ 0 \in 0..(MaxPeriod + 1)
          /\ DetermineQoS(pubs[t], MatchesAny(t, setting.bestEffort)) \in Profile
      BY NewTypes, DepthsAssumption DEF TypeOK
    <3> QED  BY <2>1, <3>1 DEF TypeOK, Subscribed
  <2>2. CASE SubscribeData(t)
    <3>1. data' \in [Topics -> [period : 0..MaxPeriod, last : 0..Never, writer : Track] \cup {NoSub}]
      BY <2>2, NewTypes DEF TypeOK, SubscribeData
    <3>2. UNCHANGED <<image, sink>> /\ Subscribed(t)
      BY <2>2 DEF SubscribeData
    <3> QED  BY <2>0, <2>1, <3>1, <3>2 DEF TypeOK, CallInv
  <2>3. CASE SubscribeVideo(t)
    <3>1. NoTrack \in Track
      BY DEF Track
    <3>2. image' \in [Topics -> ImageStates \cup {NoSub}] /\ sink' \in [ImageStates -> Track]
      BY <2>3, <3>1 DEF TypeOK, SubscribeVideo
    <3>3. UNCHANGED data /\ Subscribed(t)
      BY <2>3 DEF SubscribeVideo
    <3> QED  BY <2>0, <2>1, <3>2, <3>3 DEF TypeOK, CallInv
  <2>4. CASE UNCHANGED <<subVars, since, starved>>
    BY <2>0, <2>4 DEF TypeOK, CallInv, subVars
  <2> QED  BY <2>0, <2>2, <2>3, <2>4
<1> QED  BY <1>1, <1>2, <1>3

LEMMA ArrivalTypes ==
  ASSUME TypeOK, CallInv, NEW c \in Callbacks, NEW t \in Topics,
         NEW sample \in setting.samples, Arrives(c, t, sample)
  PROVE  TypeOK' /\ CallInv'
<1> DEFINE r == [at |-> IF HasImages(t) THEN "find" ELSE "data", topic |-> t,
                 sample |-> sample, state |-> NoSub]
<1>1. sample \in Sample /\ (HasImages(t) => sample \in Image) /\ NoTrack \in Track
  BY ScenarioFacts DEF Arrives, Suits, Track
<1>2. r \in Callback
  BY <1>1 DEF Callback
<1>3. Proper(r)
  BY <1>1, <1>2 DEF Proper
<1>4. cb' = cb \/ cb' = [cb EXCEPT ![c] = r]
  BY DEF Arrives
<1>5. cb' \in [Callbacks -> Callback] /\ CallInv'
  <2>1. CASE cb' = cb
    BY <2>1 DEF TypeOK, CallInv
  <2>2. CASE cb' = [cb EXCEPT ![c] = r]
    <3> HIDE DEF r
    <3> QED  BY <1>3, <2>2, CallbackMoves
  <2> QED  BY <1>4, <2>1, <2>2
<1>6. received' \in 0..MaxSamples
  BY OutboundAssumption DEF TypeOK, Arrives
<1>7. UNCHANGED <<setting, pubs, available, now, jumps, seen, qos, data, image, sink,
                  passed, since, starved>>
  BY DEF Arrives, external, subVars, times
<1> QED  BY <1>5, <1>6, <1>7 DEF TypeOK

(* What a sample of a data topic does, field by field. *)
DataState == [period : 0..MaxPeriod, last : 0..Never, writer : Track]

LEMMA SampleCases ==
  ASSUME TypeOK, CallInv, NEW c \in Callbacks, DataSample(c)
  PROVE  /\ cb[c].topic \in Topics
         /\ UNCHANGED <<setting, pubs, available, now, jumps, seen, qos, image, sink, received>>
         /\ \/ data[cb[c].topic] = NoSub /\ Done(c) /\ UNCHANGED <<data, passed, since, starved>>
            \/ data[cb[c].topic] \in DataState /\ DataDropped(c, cb[c].topic)
            \/ data[cb[c].topic] \in DataState /\ DataTaken(c, cb[c].topic)
<1>1. cb[c].topic \in Topics
  BY DEF DataSample, CallInv
<1>2. /\ UNCHANGED <<setting, pubs, available, now, jumps, seen, qos, image, sink, received>>
      /\ \/ data[cb[c].topic] = NoSub /\ Done(c) /\ UNCHANGED <<data, passed, since, starved>>
         \/ data[cb[c].topic] # NoSub /\ DataDropped(c, cb[c].topic)
         \/ data[cb[c].topic] # NoSub /\ DataTaken(c, cb[c].topic)
  BY DEF DataSample, external, times
<1>3. data[cb[c].topic] # NoSub => data[cb[c].topic] \in DataState
  BY <1>1 DEF TypeOK, DataState
<1> QED  BY <1>1, <1>2, <1>3

LEMMA DroppedState ==
  ASSUME TypeOK, NEW c \in Callbacks, NEW t \in Topics, data[t] \in DataState, DataDropped(c, t)
  PROVE  /\ InWindow(data[t]) /\ Done(c) /\ UNCHANGED <<passed, since>>
         /\ data' \in [Topics -> DataState \cup {NoSub}]
         /\ \A u \in Topics : u # t => data'[u] = data[u]
         /\ data'[t] \in DataState
         /\ data'[t].period = data[t].period /\ data'[t].writer = data[t].writer
         /\ data'[t].last = IF data[t].last > now THEN now ELSE data[t].last
         /\ starved' = [starved EXCEPT ![t] = Max({1, @})]
<1> DEFINE d == [data[t] EXCEPT !.last = now]
<1>1. now \in 0..Never /\ data \in [Topics -> DataState \cup {NoSub}]
  BY OutboundAssumption DEF TypeOK, Never, DataState
<1>2. d \in DataState /\ d.period = data[t].period /\ d.writer = data[t].writer /\ d.last = now
  BY <1>1 DEF DataState
<1>3. /\ InWindow(data[t]) /\ Done(c) /\ UNCHANGED <<passed, since>>
      /\ starved' = [starved EXCEPT ![t] = Max({1, @})]
  BY DEF DataDropped
<1>4. data' = IF Jumped(data[t]) THEN [data EXCEPT ![t] = d] ELSE data
  BY <1>1 DEF DataDropped
<1>5. Jumped(data[t]) <=> data[t].last > now
  BY <1>3 DEF Jumped, InWindow
<1> HIDE DEF d
<1>6. CASE Jumped(data[t])
  BY <1>1, <1>2, <1>3, <1>4, <1>5, <1>6
<1>7. CASE ~Jumped(data[t])
  BY <1>1, <1>3, <1>4, <1>5, <1>7
<1> QED  BY <1>6, <1>7

LEMMA TakenState ==
  ASSUME TypeOK, NEW c \in Callbacks, NEW t \in Topics, data[t] \in DataState, DataTaken(c, t)
  PROVE  \E writer \in EnsureWriter(data[t], t) :
           /\ writer \in Track
           /\ ~InWindow(data[t])
           /\ data' \in [Topics -> DataState \cup {NoSub}]
           /\ \A u \in Topics : u # t => data'[u] = data[u]
           /\ data'[t] \in DataState
           /\ data'[t].period = data[t].period /\ data'[t].writer = writer
           /\ data'[t].last = IF data[t].period > 0 THEN now ELSE data[t].last
           /\ IF writer = NoTrack THEN Done(c)
              ELSE cb' = [cb EXCEPT ![c].at = "push"]
           /\ passed' = [passed EXCEPT ![t] = @ + 1]
           /\ since' = [since EXCEPT ![t] = 0] /\ starved' = [starved EXCEPT ![t] = 0]
<1>1. now \in 0..Never /\ data \in [Topics -> DataState \cup {NoSub}]
  BY OutboundAssumption DEF TypeOK, Never, DataState
<1>2. PICK writer \in EnsureWriter(data[t], t) :
        /\ data' = [data EXCEPT ![t] = [Open(data[t]) EXCEPT !.writer = writer]]
        /\ IF writer = NoTrack THEN Done(c)
           ELSE cb' = [cb EXCEPT ![c].at = "push"]
  BY DEF DataTaken
<1>3. writer \in Track
  BY PublishedTypes DEF EnsureWriter, DataState
<1> DEFINE d == [Open(data[t]) EXCEPT !.writer = writer]
<1>4. /\ d \in DataState /\ d.period = data[t].period /\ d.writer = writer
      /\ d.last = IF data[t].period > 0 THEN now ELSE data[t].last
  BY <1>1, <1>3 DEF DataState, Open
<1>5. data' = [data EXCEPT ![t] = d]
  BY <1>2
<1> HIDE DEF d
<1>6. /\ data' \in [Topics -> DataState \cup {NoSub}] /\ data'[t] = d
      /\ \A u \in Topics : u # t => data'[u] = data[u]
  BY <1>1, <1>4, <1>5
<1> QED  BY <1>2, <1>3, <1>4, <1>6 DEF DataTaken

LEMMA SampleTypes ==
  ASSUME TypeOK, CallInv, NEW c \in Callbacks, DataSample(c)
  PROVE  TypeOK' /\ CallInv'
<1> DEFINE t == cb[c].topic
<1>1. /\ t \in Topics
      /\ UNCHANGED <<setting, pubs, available, now, jumps, seen, qos, image, sink, received>>
  BY SampleCases
<1>2. CASE data[t] = NoSub /\ Done(c) /\ UNCHANGED <<data, passed, since, starved>>
  <2>1. cb' \in [Callbacks -> Callback] /\ CallInv'
    BY <1>2, DoneMoves
  <2> QED  BY <1>1, <1>2, <2>1 DEF TypeOK
<1>3. CASE data[t] \in DataState /\ DataDropped(c, t)
  <2>1. cb' \in [Callbacks -> Callback] /\ CallInv'
    BY <1>1, <1>3, DroppedState, DoneMoves
  <2>2. starved' \in [Topics -> 0..(MaxPeriod + 1)]
    BY <1>1, <1>3, DroppedState, TimeTypes DEF TypeOK
  <2>3. /\ data' \in [Topics -> [period : 0..MaxPeriod, last : 0..Never, writer : Track] \cup {NoSub}]
        /\ UNCHANGED <<passed, since>>
    BY <1>1, <1>3, DroppedState DEF DataState
  <2> QED  BY <1>1, <2>1, <2>2, <2>3 DEF TypeOK
<1>4. CASE data[t] \in DataState /\ DataTaken(c, t)
  <2>1. PICK writer \in EnsureWriter(data[t], t) :
          /\ writer \in Track
          /\ data' \in [Topics -> DataState \cup {NoSub}]
          /\ IF writer = NoTrack THEN Done(c)
             ELSE cb' = [cb EXCEPT ![c].at = "push"]
          /\ passed' = [passed EXCEPT ![t] = @ + 1]
          /\ since' = [since EXCEPT ![t] = 0] /\ starved' = [starved EXCEPT ![t] = 0]
    BY <1>1, <1>4, TakenState
  <2>2. writer = NoTrack => cb' \in [Callbacks -> Callback] /\ CallInv'
    BY <2>1, DoneMoves
  <2>3. ASSUME writer # NoTrack
        PROVE  cb' \in [Callbacks -> Callback] /\ CallInv'
    <3> DEFINE r == [cb[c] EXCEPT !.at = "push"]
    <3>1. cb[c] \in Callback
      BY DEF TypeOK
    <3>2. r \in Callback /\ r.at = "push" /\ r.topic = t
      BY <2>1, <3>1 DEF Callback
    <3>3. Proper(r)
      BY <1>1, <3>2 DEF Proper
    <3>4. cb' = [cb EXCEPT ![c] = r]
      BY <2>1, <2>3
    <3> HIDE DEF r
    <3> QED  BY <3>3, <3>4, CallbackMoves
  <2>4. cb' \in [Callbacks -> Callback] /\ CallInv'
    BY <2>2, <2>3
  <2>5. passed' \in [Topics -> Nat]
    BY <1>1, <2>1 DEF TypeOK
  <2>6. since' \in [Topics -> 0..MaxPeriod] /\ starved' \in [Topics -> 0..(MaxPeriod + 1)]
    <3>1. 0 \in 0..MaxPeriod /\ 0 \in 0..(MaxPeriod + 1)
      BY DepthsAssumption
    <3> QED  BY <1>1, <2>1, <3>1 DEF TypeOK
  <2> QED  BY <1>1, <2>1, <2>4, <2>5, <2>6 DEF TypeOK, DataState
<1> QED  BY <1>2, <1>3, <1>4, SampleCases

LEMMA ImageTypes ==
  ASSUME TypeOK, CallInv, NEW c \in Callbacks,
         DataPush(c) \/ ImageFind(c) \/ CompressedCapture(c) \/ ImageCapture(c)
  PROVE  TypeOK' /\ CallInv'
<1>0. cb[c] \in Callback /\ Proper(cb[c])
  BY ProperCallbacks DEF TypeOK
<1>1. CASE DataPush(c)
  <2>1. cb' \in [Callbacks -> Callback] /\ CallInv'
    BY <1>1, DoneMoves DEF DataPush
  <2>2. UNCHANGED <<setting, pubs, available, now, jumps, seen, qos, data, image, sink,
                    received, passed, since, starved>>
    BY <1>1 DEF DataPush, external, subVars, history, times
  <2> QED  BY <2>1, <2>2 DEF TypeOK
<1>2. CASE ImageFind(c)
  <2> DEFINE s == image[cb[c].topic]
             r == [cb[c] EXCEPT !.at = IF cb[c].topic \in JpegTopics THEN "jpeg" ELSE "image",
                                !.state = s]
  <2>1. ASSUME s # NoSub PROVE cb' \in [Callbacks -> Callback] /\ CallInv'
    <3>1. s \in ImageStates
      BY <1>2, <2>1 DEF ImageFind, CallInv, TypeOK
    <3>2. r \in Callback
      BY <1>0, <3>1 DEF Callback
    <3>3. Proper(r)
      BY <1>0, <1>2, <3>1, <3>2 DEF Proper, ImageFind, Callback
    <3>4. cb' = [cb EXCEPT ![c] = r]
      BY <1>2, <2>1 DEF ImageFind
    <3> HIDE DEF r
    <3> QED  BY <3>3, <3>4, CallbackMoves
  <2>2. s = NoSub => cb' \in [Callbacks -> Callback] /\ CallInv'
    BY <1>2, DoneMoves DEF ImageFind
  <2>3. UNCHANGED <<setting, pubs, available, now, jumps, seen, qos, data, image, sink,
                    received, passed, since, starved>>
    BY <1>2 DEF ImageFind, external, subVars, history, times
  <2> QED  BY <2>1, <2>2, <2>3 DEF TypeOK
<1>3. CASE CompressedCapture(c)
  <2> DEFINE r == [cb[c] EXCEPT !.at = "image"]
  <2>1. r \in Callback
    BY <1>0 DEF Callback
  <2>2. Proper(r)
    BY <1>0, <1>3, <2>1 DEF Proper, CompressedCapture, Callback
  <2>3. cb' = [cb EXCEPT ![c] = r] \/ Done(c)
    BY <1>3 DEF CompressedCapture
  <2>4. cb' \in [Callbacks -> Callback] /\ CallInv'
    <3> HIDE DEF r
    <3> QED  BY <2>2, <2>3, CallbackMoves, DoneMoves
  <2>5. UNCHANGED <<setting, pubs, available, now, jumps, seen, qos, data, image, sink,
                    received, passed, since, starved>>
    BY <1>3 DEF CompressedCapture, external, subVars, history, times
  <2> QED  BY <2>4, <2>5 DEF TypeOK
<1>4. CASE ImageCapture(c)
  <2>1. cb' \in [Callbacks -> Callback] /\ CallInv'
    BY <1>4, DoneMoves DEF ImageCapture
  <2>2. cb[c].state \in ImageStates /\ cb[c].sample.size \in Sizes
    BY <1>0, <1>4 DEF Proper, ImageCapture, Image
  <2>3. EnsureSink(cb[c].state, cb[c].sample.size) \subseteq Track
    BY <2>2, PublishedTypes DEF EnsureSink, TypeOK
  <2>4. \E track \in EnsureSink(cb[c].state, cb[c].sample.size) :
          sink' = [sink EXCEPT ![cb[c].state] = track]
    BY <1>4 DEF ImageCapture
  <2>5. sink' \in [ImageStates -> Track]
    BY <2>3, <2>4 DEF TypeOK
  <2>6. UNCHANGED <<setting, pubs, available, now, jumps, seen, qos, data, image,
                    received, passed, since, starved>>
    BY <1>4 DEF ImageCapture, external, history, times
  <2> QED  BY <2>1, <2>5, <2>6 DEF TypeOK
<1> QED  BY <1>1, <1>2, <1>3, <1>4

LEMMA OutsideTypes ==
  ASSUME TypeOK, CallInv, Outage \/ Tick \/ JumpBack
  PROVE  TypeOK' /\ CallInv'
<1>1. CASE Outage
  BY <1>1 DEF TypeOK, CallInv, Outage, subVars, history, times
<1>2. CASE Tick
  <2>1. now' \in 0..MaxNow
    BY <1>2, ScenarioFacts, OutboundAssumption DEF Tick, TypeOK
  <2>2. /\ since' \in [Topics -> 0..MaxPeriod]
        /\ starved' \in [Topics -> 0..(MaxPeriod + 1)]
    <3>1. 0 \in 0..(MaxPeriod + 1)
      BY DepthsAssumption
    <3> QED  BY <1>2, <3>1, TimeTypes DEF Tick
  <2>3. UNCHANGED <<setting, pubs, available, jumps, seen, qos, data, image, sink, cb,
                    received, passed>>
    BY <1>2 DEF Tick, subVars
  <2> QED  BY <2>1, <2>2, <2>3 DEF TypeOK, CallInv
<1>3. CASE JumpBack
  <2>1. now' \in 0..MaxNow /\ jumps' \in 0..MaxJumps
    BY <1>3, OutboundAssumption DEF JumpBack, TypeOK
  <2>2. starved' \in [Topics -> 0..(MaxPeriod + 1)]
    BY <1>3, DepthsAssumption DEF JumpBack
  <2>3. UNCHANGED <<setting, pubs, available, seen, qos, data, image, sink, cb,
                    received, passed, since>>
    BY <1>3 DEF JumpBack, subVars
  <2> QED  BY <2>1, <2>2, <2>3 DEF TypeOK, CallInv
<1> QED  BY <1>1, <1>2, <1>3

(* The steps, by what they are about. *)
LEMMA NextCases ==
  ASSUME Next
  PROVE  \/ \E t \in Topics : CreateSubscriber(t) \/ Reap(t) \/ PublishersChange(t)
         \/ \E c \in Callbacks, t \in Topics, sample \in setting.samples : Arrives(c, t, sample)
         \/ \E c \in Callbacks : DataSample(c)
         \/ \E c \in Callbacks : DataPush(c) \/ ImageFind(c) \/ CompressedCapture(c) \/ ImageCapture(c)
         \/ Outage \/ Tick \/ JumpBack
BY Zenon DEF Next, CallbackStep

LEMMA TypesKept ==
  ASSUME TypeOK, CallInv, [Next]_vars
  PROVE  TypeOK' /\ CallInv'
<1>1. CASE Next
  BY <1>1, NextCases, SubscriptionTypes, ArrivalTypes, SampleTypes, ImageTypes, OutsideTypes, Zenon
<1>2. CASE UNCHANGED vars
  BY <1>2 DEF TypeOK, CallInv, vars, external, subVars, history, times
<1> QED  BY <1>1, <1>2

(* Every variable keeps its type, and a callback under way the topic, the  *)
(* frame and the image state that it goes by.                              *)
THEOREM TypeCorrect == Spec => [](TypeOK /\ CallInv)
<1>1. TypeOK /\ CallInv /\ [Next]_vars => TypeOK' /\ CallInv'
  BY TypesKept
<1> QED  BY InitTypes, <1>1, PTL DEF Spec

-----------------------------------------------------------------------------
(* Invariants                                                              *)

(* A subscription has the profile of the publishers it was told of. *)
QosInv ==
  \A t \in Topics : qos[t] # NoSub =>
    qos[t] = DetermineQoS(seen[t], MatchesAny(t, setting.bestEffort))

(* While a capped window is remembered, it opened no longer ago than a     *)
(* sample passed; the clock may have gone back since.                      *)
CapInv ==
  \A t \in Topics : data[t] # NoSub =>
    /\ data[t].period = RateLimits(config, t)
    /\ data[t].period > 0 =>
         \/ since[t] = MaxPeriod
         \/ data[t].last # Never /\ now - data[t].last <= since[t]

(* A topic that drops samples has a window, which is not of the future and *)
(* opened no later than the first of them was dropped.                     *)
StallInv ==
  \A t \in Topics : data[t] # NoSub /\ starved[t] > 0 =>
    data[t].last <= now /\ starved[t] - 1 <= now - data[t].last

IInv == TypeOK /\ CallInv /\ QosInv /\ CapInv /\ StallInv

LEMMA InitInvariant == Init => QosInv /\ CapInv /\ StallInv
BY DEF Init, QosInv, CapInv, StallInv, Idle

LEMMA QosKept ==
  ASSUME IInv, [Next]_vars
  PROVE  QosInv'
<1>1. ASSUME UNCHANGED <<setting, seen, qos>> PROVE QosInv'
  BY <1>1 DEF IInv, QosInv
<1>2. ASSUME NEW t \in Topics, CreateSubscriber(t) PROVE QosInv'
  <2>1. CASE UNCHANGED <<subVars, since, starved>>
    BY <1>1, <1>2, <2>1 DEF CreateSubscriber, external, subVars
  <2>2. CASE Subscribed(t)
    <3>1. setting' = setting
      BY <1>2 DEF CreateSubscriber, external
    <3>2. /\ \A u \in Topics : u # t => qos'[u] = qos[u] /\ seen'[u] = seen[u]
          /\ seen'[t] = pubs[t]
          /\ qos'[t] = DetermineQoS(pubs[t], MatchesAny(t, setting.bestEffort))
      BY <2>2 DEF Subscribed, IInv, TypeOK
    <3>3. \A u \in Topics : MatchesAny(u, setting'.bestEffort) = MatchesAny(u, setting.bestEffort)
      BY <3>1
    <3> QED  BY <3>1, <3>2, <3>3 DEF IInv, QosInv
  <2> QED  BY <1>2, <2>1, <2>2 DEF CreateSubscriber, SubscribeData, SubscribeVideo
<1>3. ASSUME NEW t \in Topics, Reap(t) PROVE QosInv'
  BY <1>3 DEF Reap, external, IInv, TypeOK, QosInv
<1>4. ASSUME NEW t \in Topics, PublishersChange(t) PROVE QosInv'
  BY <1>1, <1>4 DEF PublishersChange, subVars
<1>5. ASSUME NEW c \in Callbacks, NEW t \in Topics, NEW sample \in setting.samples,
             Arrives(c, t, sample)
      PROVE  QosInv'
  BY <1>1, <1>5 DEF Arrives, external, subVars
<1>6. ASSUME NEW c \in Callbacks,
             \/ DataSample(c) \/ DataPush(c) \/ ImageFind(c)
             \/ CompressedCapture(c) \/ ImageCapture(c)
      PROVE  QosInv'
  BY <1>1, <1>6 DEF DataSample, DataPush, ImageFind, CompressedCapture, ImageCapture, external, subVars
<1>7. CASE Outage \/ Tick \/ JumpBack
  BY <1>1, <1>7 DEF Outage, Tick, JumpBack, subVars
<1>8. CASE UNCHANGED vars
  BY <1>1, <1>8 DEF vars, external, subVars
<1> QED  BY <1>2, <1>3, <1>4, <1>5, <1>6, <1>7, <1>8, NextCases, Zenon

LEMMA ConfigStays ==
  ASSUME [Next]_vars
  PROVE  /\ setting' = setting
         /\ \A u : RateLimits(config, u)' = RateLimits(config, u)
<1>1. setting' = setting
  <2>1. CASE Next
    BY <2>1, NextCases DEF CreateSubscriber, Reap, PublishersChange, Arrives, DataSample, DataPush,
       ImageFind, CompressedCapture, ImageCapture, Outage, Tick, JumpBack, external
  <2>2. CASE UNCHANGED vars
    BY <2>2 DEF vars, external
  <2> QED  BY <2>1, <2>2
<1> QED  BY <1>1 DEF config

(* The cap and the stall are about the window, the clock and the histories *)
(* of one topic each.                                                      *)
LEMMA TimesKept ==
  ASSUME IInv, [Next]_vars
  PROVE  CapInv' /\ StallInv'
<1>0. \A u \in Topics : RateLimits(config, u)' = RateLimits(config, u)
  BY ConfigStays
<1>1. ASSUME UNCHANGED <<data, now, since, starved>> PROVE CapInv' /\ StallInv'
  BY <1>0, <1>1 DEF IInv, CapInv, StallInv, Never
<1>2. /\ TypeOK /\ CallInv /\ data \in [Topics -> DataState \cup {NoSub}]
      /\ now \in 0..MaxNow /\ MaxNow \in Nat /\ MaxPeriod \in Nat /\ Never = MaxNow + 1
      /\ \A u \in Topics : since[u] \in 0..MaxPeriod /\ starved[u] \in 0..(MaxPeriod + 1)
      /\ since \in [Topics -> 0..MaxPeriod] /\ starved \in [Topics -> 0..(MaxPeriod + 1)]
  BY OutboundAssumption, DepthsAssumption DEF IInv, TypeOK, DataState, Never
<1>3. ASSUME NEW t \in Topics, CreateSubscriber(t) PROVE CapInv' /\ StallInv'
  <2>1. CASE UNCHANGED <<subVars, since, starved>>
    BY <1>1, <1>3, <2>1 DEF CreateSubscriber, external, subVars
  <2>2. CASE Subscribed(t) /\ data' \in {data, [data EXCEPT ![t] = NewData(t)]}
    <3>1. /\ \A u \in Topics : u # t =>
               data'[u] = data[u] /\ since'[u] = since[u] /\ starved'[u] = starved[u]
          /\ data'[t] = data[t] \/ data'[t].period = RateLimits(config, t)
          /\ since'[t] = MaxPeriod /\ starved'[t] = 0 /\ now' = now
      BY <1>2, <1>3, <2>2 DEF Subscribed, NewData, CreateSubscriber, external
    <3> QED  BY <1>0, <1>2, <3>1 DEF IInv, CapInv, StallInv
  <2> QED  BY <1>3, <2>1, <2>2 DEF CreateSubscriber, SubscribeData, SubscribeVideo
<1>4. ASSUME NEW t \in Topics, Reap(t) PROVE CapInv' /\ StallInv'
  <2>1. /\ \A u \in Topics : data'[u] # NoSub => data'[u] = data[u]
        /\ UNCHANGED <<now, since, starved>>
    BY <1>2, <1>4 DEF Reap, external, history, times
  <2> QED  BY <1>0, <2>1 DEF IInv, CapInv, StallInv, Never
<1>5. ASSUME NEW t \in Topics, PublishersChange(t) PROVE CapInv' /\ StallInv'
  BY <1>1, <1>5 DEF PublishersChange, subVars, history, times
<1>6. ASSUME NEW c \in Callbacks, NEW t \in Topics, NEW sample \in setting.samples,
             Arrives(c, t, sample)
      PROVE  CapInv' /\ StallInv'
  BY <1>1, <1>6 DEF Arrives, external, subVars, times
<1>7. ASSUME NEW c \in Callbacks,
             DataPush(c) \/ ImageFind(c) \/ CompressedCapture(c) \/ ImageCapture(c)
      PROVE  CapInv' /\ StallInv'
  BY <1>1, <1>7 DEF DataPush, ImageFind, CompressedCapture, ImageCapture, external, subVars,
     history, times
<1>8. ASSUME NEW c \in Callbacks, DataSample(c) PROVE CapInv' /\ StallInv'
  <2> DEFINE t == cb[c].topic
  <2>1. t \in Topics /\ now' = now
    BY <1>2, <1>8, SampleCases
  <2>2. CASE data[t] = NoSub /\ UNCHANGED <<data, since, starved>>
    BY <1>1, <2>1, <2>2
  <2>3. CASE data[t] \in DataState /\ DataDropped(c, t)
    <3>1. /\ InWindow(data[t]) /\ UNCHANGED since
          /\ \A u \in Topics : u # t => data'[u] = data[u]
          /\ data'[t].period = data[t].period
          /\ data'[t].last = IF data[t].last > now THEN now ELSE data[t].last
          /\ starved' = [starved EXCEPT ![t] = Max({1, @})]
      BY <1>2, <2>1, <2>3, DroppedState
    <3>2. /\ Max({1, starved[t]}) = IF 1 >= starved[t] THEN 1 ELSE starved[t]
          /\ \A u \in Topics : u # t => starved'[u] = starved[u]
          /\ starved'[t] = Max({1, starved[t]})
      <4>1. 1 \in Int /\ starved[t] \in Int
        BY <1>2, <2>1
      <4>2. Max({1, starved[t]}) = IF 1 >= starved[t] THEN 1 ELSE starved[t]
        BY <4>1, MinMaxOfTwo, Zenon
      <4> QED  BY <1>2, <2>1, <3>1, <4>2
    <3>3. /\ data[t] # NoSub /\ data[t].last \in 0..Never /\ data[t].last # Never
          /\ data[t].period \in 0..MaxPeriod /\ data'[t].last \in 0..now
      BY <1>2, <2>3, <3>1 DEF DataState, InWindow, NoSub
    <3>4. CapInv'
      BY <1>0, <1>2, <2>1, <3>1, <3>3 DEF IInv, CapInv
    <3>5. StallInv'
      <4>1. starved[t] > 0 => data[t].last <= now /\ starved[t] - 1 <= now - data[t].last
        BY <2>1, <3>3 DEF IInv, StallInv
      <4>2. starved'[t] - 1 <= now - data'[t].last
        BY <1>2, <2>1, <3>1, <3>2, <3>3, <4>1
      <4> QED  BY <1>2, <2>1, <3>1, <3>2, <3>3, <4>2 DEF IInv, StallInv
    <3> QED  BY <3>4, <3>5
  <2>4. CASE data[t] \in DataState /\ DataTaken(c, t)
    <3>1. /\ \A u \in Topics : u # t =>
               data'[u] = data[u] /\ since'[u] = since[u] /\ starved'[u] = starved[u]
          /\ data'[t].period = data[t].period
          /\ data'[t].last = IF data[t].period > 0 THEN now ELSE data[t].last
          /\ since'[t] = 0 /\ starved'[t] = 0
      <4>1. /\ \A u \in Topics : u # t => data'[u] = data[u]
            /\ data'[t].period = data[t].period
            /\ data'[t].last = IF data[t].period > 0 THEN now ELSE data[t].last
            /\ since' = [since EXCEPT ![t] = 0] /\ starved' = [starved EXCEPT ![t] = 0]
        <5> HIDE DEF t
        <5> QED  BY <1>2, <2>1, <2>4, TakenState
      <4> QED  BY <1>2, <2>1, <4>1
    <3>2. data[t] # NoSub /\ data[t].period \in 0..MaxPeriod
      BY <2>4 DEF DataState, NoSub
    <3>3. CapInv'
      BY <1>0, <1>2, <2>1, <3>1, <3>2 DEF IInv, CapInv
    <3>4. StallInv'
      BY <1>2, <2>1, <3>1 DEF IInv, StallInv
    <3> QED  BY <3>3, <3>4
  <2> QED  BY <1>2, <1>8, <2>2, <2>3, <2>4, SampleCases
<1>9. CASE Outage
  BY <1>1, <1>9 DEF Outage, subVars, history, times
<1>10. CASE Tick
  <2>1. now' = now + 1 /\ data' = data
    BY <1>10 DEF Tick, subVars
  <2>2. ASSUME NEW u \in Topics
        PROVE  /\ since'[u] = MaxPeriod \/ since'[u] = since[u] + 1
               /\ since[u] = MaxPeriod => since'[u] = MaxPeriod
               /\ starved'[u] > 0 => starved[u] > 0 /\ starved'[u] <= starved[u] + 1
    <3>1. since[u] + 1 \in Int /\ starved[u] + 1 \in Int /\ MaxPeriod \in Int /\ MaxPeriod + 1 \in Int
      BY <1>2
    <3>2. /\ Min({MaxPeriod, since[u] + 1}) =
               IF MaxPeriod <= since[u] + 1 THEN MaxPeriod ELSE since[u] + 1
          /\ Min({MaxPeriod + 1, starved[u] + 1}) =
               IF MaxPeriod + 1 <= starved[u] + 1 THEN MaxPeriod + 1 ELSE starved[u] + 1
      BY <3>1, MinMaxOfTwo, Zenon
    <3>3. /\ since'[u] = Min({MaxPeriod, since[u] + 1})
          /\ starved'[u] = IF starved[u] = 0 THEN 0 ELSE Min({MaxPeriod + 1, starved[u] + 1})
      BY <1>10 DEF Tick
    <3>4. since[u] \in 0..MaxPeriod /\ starved[u] \in 0..(MaxPeriod + 1) /\ MaxPeriod \in Nat
      BY <1>2
    <3> QED  BY <3>2, <3>3, <3>4
  <2>3. \A u \in Topics : data[u] # NoSub => data[u].last \in 0..Never
    BY <1>2 DEF DataState
  <2>4. CapInv'
    BY <1>0, <1>2, <2>1, <2>2, <2>3 DEF IInv, CapInv
  <2>5. StallInv'
    <3>1. ASSUME NEW u \in Topics, data'[u] # NoSub, starved'[u] > 0
          PROVE  data'[u].last <= now' /\ starved'[u] - 1 <= now' - data'[u].last
      <4>1. data[u].last <= now /\ starved[u] - 1 <= now - data[u].last /\ data[u].last \in 0..Never
        BY <2>1, <2>2, <2>3, <3>1 DEF IInv, StallInv
      <4>2. starved[u] \in Nat /\ starved'[u] \in Nat /\ starved'[u] <= starved[u] + 1
        <5>1. starved' \in [Topics -> 0..(MaxPeriod + 1)]
          BY TypesKept DEF IInv, TypeOK
        <5> QED  BY <1>2, <2>2, <3>1, <5>1
      <4> QED  BY <1>2, <2>1, <4>1, <4>2
    <3> QED  BY <3>1 DEF StallInv
  <2> QED  BY <2>4, <2>5
<1>11. CASE JumpBack
  <2>1. /\ now' \in 0..MaxNow /\ now' < now /\ UNCHANGED <<data, since>>
        /\ \A u \in Topics : starved'[u] = 0
    BY <1>11 DEF JumpBack, subVars
  <2>2. \A u \in Topics : data[u] # NoSub => data[u].last \in 0..Never
    BY <1>2 DEF DataState
  <2> QED  BY <1>0, <1>2, <2>1, <2>2 DEF IInv, CapInv, StallInv
<1>12. CASE UNCHANGED vars
  BY <1>1, <1>12 DEF vars, external, subVars, history, times
<1> QED
  BY <1>3, <1>4, <1>5, <1>6, <1>7, <1>8, <1>9, <1>10, <1>11, <1>12, NextCases, Zenon

(* Profiles, sinks, rate windows and samples under way fit together after  *)
(* every step of the callbacks, the discovery thread and the clock.        *)
THEOREM Invariant == Spec => []IInv
<1>1. Init => IInv
  BY InitTypes, InitInvariant DEF IInv
<1>2. IInv /\ [Next]_vars => IInv'
  <2> SUFFICES ASSUME IInv, [Next]_vars PROVE IInv'
    OBVIOUS
  <2>1. TypeOK' /\ CallInv'
    BY TypesKept DEF IInv
  <2> QED  BY <2>1, QosKept, TimesKept DEF IInv
<1> QED  BY <1>1, <1>2, PTL DEF Spec

-----------------------------------------------------------------------------
(* Results                                                                 *)

(* determineQoS() asks for the most that connects to each of however many  *)
(* publishers it knows, and its history holds what each keeps.             *)
THEOREM SubscriptionsConnect == Spec => []ConnectsToAll
<1>1. ASSUME IInv, NEW t \in Topics, qos[t] # NoSub
      PROVE  /\ \A i \in DOMAIN seen[t] : Connects(qos[t], seen[t][i])
             /\ \A other \in [reliable : {~MatchesAny(t, setting.bestEffort)}, transient : BOOLEAN] :
                  seen[t] # <<>> /\ (\A i \in DOMAIN seen[t] : Connects(other, seen[t][i])) =>
                    (other.reliable => qos[t].reliable) /\ (other.transient => qos[t].transient)
             /\ qos[t].depth <= MaxDepth
             /\ qos[t].depth < MaxDepth => \A i \in DOMAIN seen[t] : seen[t][i].depth <= qos[t].depth
  <2> DEFINE best == MatchesAny(t, setting.bestEffort)
  <2>1. qos[t] = DetermineQoS(seen[t], best) /\ seen[t] \in Seq(Profile)
    BY <1>1 DEF IInv, QosInv, TypeOK
  <2>2. /\ qos[t].reliable = (~best /\ seen[t] # <<>> /\ \A i \in DOMAIN seen[t] : seen[t][i].reliable)
        /\ qos[t].transient = (seen[t] # <<>> /\ \A i \in DOMAIN seen[t] : seen[t][i].transient)
        /\ qos[t].depth = Depth(seen[t])
    BY <2>1 DEF DetermineQoS
  <2>3. \A i \in DOMAIN seen[t] : Connects(qos[t], seen[t][i])
    BY <2>2, Zenon DEF Connects
  <2>4. ASSUME NEW other \in [reliable : {~best}, transient : BOOLEAN],
               seen[t] # <<>>, \A i \in DOMAIN seen[t] : Connects(other, seen[t][i])
        PROVE  (other.reliable => qos[t].reliable) /\ (other.transient => qos[t].transient)
    <3>1. other.reliable = ~best
      OBVIOUS
    <3> QED  BY <2>2, <2>4, <3>1, Zenon DEF Connects
  <2>5. /\ Depth(seen[t]) <= MaxDepth
        /\ Depth(seen[t]) < MaxDepth => \A i \in DOMAIN seen[t] : seen[t][i].depth <= Depth(seen[t])
    BY <2>1, DepthSuffices
  <2> HIDE DEF best
  <2>6. \A other \in [reliable : {~best}, transient : BOOLEAN] :
          seen[t] # <<>> /\ (\A i \in DOMAIN seen[t] : Connects(other, seen[t][i])) =>
            (other.reliable => qos[t].reliable) /\ (other.transient => qos[t].transient)
    BY <2>4
  <2>7. qos[t].depth = Depth(seen[t])
    BY <2>2
  <2> QED  BY <2>3, <2>5, <2>6, <2>7 DEF best
<1>2. IInv => ConnectsToAll
  BY <1>1, Zenon DEF ConnectsToAll
<1> QED  BY <1>2, Invariant, PTL

(* Samples of one subscription pass the cap at least a period apart,       *)
(* whichever callbacks take them and however the clock jumps back.         *)
THEOREM CapHolds == Spec => RateIsCapped
<1>1. ASSUME IInv, [Next]_vars, NEW t \in Topics, passed'[t] # passed[t]
      PROVE  since[t] >= RateLimits(config, t)
  <2>1. RateLimits(config, t) \in 0..MaxPeriod /\ since[t] \in 0..MaxPeriod /\ MaxPeriod \in Nat
    BY <1>1, ScenarioFacts, RateIsPeriod, DepthsAssumption DEF IInv, TypeOK
  <2>2. PICK c \in Callbacks : DataSample(c)
    <3>1. CASE Next
      BY <1>1, <3>1, NextCases DEF CreateSubscriber, Reap, PublishersChange, Arrives, DataPush,
         ImageFind, CompressedCapture, ImageCapture, Outage, Tick, JumpBack, history, times
    <3>2. CASE UNCHANGED vars
      BY <1>1, <3>2 DEF vars, history, times
    <3> QED  BY <1>1, <3>1, <3>2
  <2>3. TypeOK /\ CallInv /\ passed \in [Topics -> Nat]
    BY <1>1 DEF IInv, TypeOK
  <2>4. data[t] \in DataState /\ ~InWindow(data[t])
    <3> DEFINE u == cb[c].topic
    <3>1. u \in Topics
      BY <2>2, <2>3, SampleCases
    <3>2. data[u] \in DataState /\ DataTaken(c, u)
      <4>1. passed' # passed
        BY <1>1
      <4>2. ~(data[u] \in DataState /\ DataDropped(c, u))
        BY <4>1 DEF DataDropped
      <4> HIDE DEF u
      <4> QED  BY <2>2, <2>3, <4>1, <4>2, SampleCases DEF u
    <3>3. passed' = [passed EXCEPT ![u] = @ + 1] /\ ~InWindow(data[u])
      BY <3>2 DEF DataTaken
    <3>4. u = t
      BY <1>1, <2>3, <3>3
    <3> QED  BY <3>2, <3>3, <3>4
  <2>5. data[t] # NoSub
    BY <2>4 DEF DataState, NoSub
  <2>6. /\ data[t].period = RateLimits(config, t)
        /\ data[t].period > 0 => \/ since[t] = MaxPeriod
                                 \/ data[t].last # Never /\ now - data[t].last <= since[t]
    BY <1>1, <2>5 DEF IInv, CapInv
  <2>7. now \in Nat /\ data[t].last \in Nat
    BY <1>1, <2>4 DEF IInv, TypeOK, DataState
  <2>8. data[t].period > 0 /\ data[t].last # Never => now - data[t].last >= data[t].period
    BY <2>1, <2>4, <2>6, <2>7 DEF InWindow
  <2> QED  BY <2>1, <2>6, <2>7, <2>8
<1>2. IInv /\ [Next]_vars =>
        [\A t \in Topics : passed'[t] # passed[t] => since[t] >= RateLimits(config, t)]_vars
  BY <1>1
<1> QED  BY <1>2, Invariant, PTL DEF Spec, RateIsCapped

(* The cap never stalls: a jump of the clock begins a new window, so that  *)
(* samples are not dropped for as long as a period unless it jumps again.  *)
THEOREM CapLetsThrough == Spec => CapNeverStalls
<1>1. ASSUME IInv, NEW c \in Callbacks, DataSample(c),
             data[cb[c].topic] # NoSub, passed'[cb[c].topic] = passed[cb[c].topic]
      PROVE  starved[cb[c].topic] <= RateLimits(config, cb[c].topic)
  <2> DEFINE t == cb[c].topic
  <2>0. TypeOK /\ CallInv /\ passed \in [Topics -> Nat]
    BY <1>1 DEF IInv, TypeOK
  <2>1. t \in Topics
    BY <1>1, <2>0, SampleCases
  <2>2. data[t] \in DataState /\ InWindow(data[t])
    <3>1. ~DataTaken(c, t)
      BY <1>1, <2>0, <2>1 DEF DataTaken
    <3>2. data[t] \in DataState /\ DataDropped(c, t)
      <4> HIDE DEF t
      <4> QED  BY <1>1, <2>0, <3>1, SampleCases DEF t
    <3> QED  BY <3>2 DEF DataDropped
  <2>3. RateLimits(config, t) \in 0..MaxPeriod /\ starved[t] \in 0..(MaxPeriod + 1) /\ now \in Nat
    <3>1. starved[t] \in 0..(MaxPeriod + 1) /\ now \in Nat
      BY <2>0, <2>1 DEF TypeOK
    <3> QED  BY <2>0, <3>1, ScenarioFacts, RateIsPeriod
  <2>4. data[t].period = RateLimits(config, t)
    BY <1>1, <2>1 DEF IInv, CapInv
  <2>5. starved[t] > 0 => starved[t] - 1 <= now - data[t].last
    BY <1>1, <2>1 DEF IInv, StallInv
  <2>6. now - data[t].last < data[t].period /\ data[t].last \in Nat
    BY <2>2 DEF InWindow, DataState
  <2> HIDE DEF t
  <2>7. starved[t] <= RateLimits(config, t)
    BY <2>3, <2>4, <2>5, <2>6
  <2> QED  BY <2>7 DEF t
<1>2. IInv /\ [Next]_vars =>
        [\A c \in Callbacks :
           LET t == cb[c].topic
           IN DataSample(c) /\ data[t] # NoSub /\ passed'[t] = passed[t] =>
                starved[t] <= RateLimits(config, t)]_vars
  BY <1>1
<1> QED  BY <1>2, Invariant, PTL DEF Spec, CapNeverStalls
-----------------------------------------------------------------------------
(* VideoSources, whose captures are published beside the image topics.     *)
(* The owner builds the sources in order and stops them in reverse: a      *)
(* source is fresh until its turn comes, its session then is live, or was  *)
(* cleaned up, and in the end it is gone.                                  *)
Fresh(s) == s \notin session \cup announced /\ asked[s] = 0 /\ withdrawn[s] = 0
Live(s) == s \in session \cap announced /\ asked[s] = 0 /\ withdrawn[s] = 0
Gone(s) == asked[s] = withdrawn[s] /\ withdrawn[s] = IF s \in announced THEN 1 ELSE 0
Settled(s) == Live(s) \/ (s \notin session /\ Gone(s))
Asked(s) == s \in session \cap announced /\ asked[s] = 1 /\ withdrawn[s] = 0

(* ... of the source at hand *)
HandInv ==
  /\ owner.at = "create" => Fresh(s0)
  /\ owner.at \in {"start", "cleanup"} => Live(s0)
  /\ owner.at \in {"add", "stop"} => Settled(s0)
  /\ owner.at \in {"wait", "unpublish"} => Asked(s0)

(* ... and of the others *)
OthersInv ==
  \A s \in Sources :
    /\ owner.at \in Building /\ s > s0 => Fresh(s)
    /\ owner.at \in Building \cup Stopping /\ s < s0 => Settled(s)
    /\ owner.at \in {"running", "remove"} => Settled(s)
    /\ owner.at \in Stopping /\ s > s0 => Gone(s)
    /\ owner.at = "destroyed" => Gone(s)

SourcesInv == SourcesTypeOK /\ HandInv /\ OthersInv

LEMMA OwnerFacts ==
  /\ At("running", 0) \in Owners /\ At("destroyed", 0) \in Owners
  /\ \A step \in Walking, s \in Sources : At(step, s) \in Owners
  /\ \A o \in Owners : o.at \in Walking => o.of \in Sources
  /\ \A s \in Sources : s \in Nat /\ 1 \in Sources /\ Count \in Sources
                        /\ (s < Count => s + 1 \in Sources) /\ (s > 1 => s - 1 \in Sources)
BY SourcesAssumption DEF Owners, At, Sources, Walking, Building, Stopping

LEMMA NextStopFacts ==
  ASSUME NEW s \in Sources
  PROVE  NextStop(s) \in Owners
BY OwnerFacts DEF NextStop, Walking, Stopping

(* The source at hand, and who is at it. *)
LEMMA AtHand ==
  ASSUME SourcesTypeOK, OwnerStep
  PROVE  s0 \in Sources
<1>1. owner.at \in Walking
  BY DEF OwnerStep, CreateFails, CreateAndPublish, Start, StartFails, CleanupFailedSession, AddTask,
         RemoveTask, Stop, Wait, UnpublishTrack, Walking, Building, Stopping
<1> QED  BY <1>1, OwnerFacts DEF SourcesTypeOK, s0

(* Every variable keeps its type, whatever fails and whenever the updater  *)
(* runs its tasks.                                                         *)
THEOREM SourcesTypeCorrect == SourcesSpec => []SourcesTypeOK
<1>1. SourcesInit => SourcesTypeOK
  <2>1. At("create", 1) \in Owners /\ 0 \in Nat
    BY SourcesAssumption, OwnerFacts DEF Sources, Walking, Building
  <2> QED  BY <2>1 DEF SourcesInit, SourcesTypeOK, NoPoll
<1>2. SourcesTypeOK /\ [SourcesNext]_sourcesVars => SourcesTypeOK'
  <2> SUFFICES ASSUME SourcesTypeOK, [SourcesNext]_sourcesVars PROVE SourcesTypeOK'
    OBVIOUS
  <2>0. ASSUME OwnerStep
        PROVE  /\ s0 \in Sources
               /\ \A step \in Walking : At(step, s0) \in Owners
               /\ {"create", "start", "cleanup", "add", "remove", "stop", "wait", "unpublish"}
                    \subseteq Walking
    <3>1. s0 \in Sources
      BY <2>0, AtHand
    <3> QED  BY <3>1, OwnerFacts DEF Walking, Building, Stopping
  <2>1. CASE CreateFails
    <3>1. /\ kind' \in [Sources -> {"starting", "running"} \cup Ended]
          /\ UNCHANGED <<source, session, tasks, polling, capture, completion, tracks>>
      BY <2>1 DEF CreateFails, MarkError, SourcesTypeOK, Ended
    <3>2. owner' \in Owners
      BY <2>0, <2>1 DEF OwnerStep, CreateFails
    <3> QED  BY <3>1, <3>2 DEF SourcesTypeOK, tracks
  <2>2. CASE CreateAndPublish
    <3>1. /\ kind' \in [Sources -> {"starting", "running"} \cup Ended]
          /\ capture' \in [Sources -> {"none", "idle", "capturing", "stopping"} \cup Ended]
          /\ UNCHANGED <<source, tasks, polling, completion, asked, withdrawn>>
      BY <2>2 DEF CreateAndPublish, SourcesTypeOK
    <3>2. owner' \in Owners /\ session' \subseteq Sources /\ announced' \subseteq Sources
      BY <2>0, <2>2 DEF OwnerStep, CreateAndPublish, SourcesTypeOK
    <3> QED  BY <3>1, <3>2 DEF SourcesTypeOK
  <2>3. CASE Start \/ StartFails
    <3>1. /\ capture' \in [Sources -> {"none", "idle", "capturing", "stopping"} \cup Ended]
          /\ completion' \in [Sources -> {"empty", "pending"}]
          /\ UNCHANGED <<source, session, kind, tasks, polling, tracks>>
      BY <2>3 DEF Start, StartFails, SourcesTypeOK
    <3>2. owner' \in Owners
      BY <2>0, <2>3 DEF OwnerStep, Start, StartFails
    <3> QED  BY <3>1, <3>2 DEF SourcesTypeOK, tracks
  <2>4. ASSUME OwnerStep, NEW answer \in Answers, AskToStop(answer)
        PROVE  /\ asked' \in [Sources -> Nat]
               /\ capture' \in [Sources -> {"none", "idle", "capturing", "stopping"} \cup Ended]
    <3>1. asked \in [Sources -> Nat]
          /\ capture \in [Sources -> {"none", "idle", "capturing", "stopping"} \cup Ended]
      BY DEF SourcesTypeOK
    <3>2. asked' \in [Sources -> Nat]
      BY <2>0, <2>4, <3>1 DEF AskToStop
    <3>3. \A state \in {"none", "idle", "capturing", "stopping"} \cup Ended :
            Told(state) \in {"none", "idle", "capturing", "stopping"} \cup Ended
      BY DEF Told, Ended
    <3>4. capture' = [capture EXCEPT ![s0] = Told(@)] \/ capture' = capture
      BY <2>4 DEF AskToStop
    <3> QED  BY <3>1, <3>2, <3>3, <3>4
  <2>5. OwnerStep /\ Unpublish => withdrawn' \in [Sources -> Nat]
    BY <2>0 DEF Unpublish, SourcesTypeOK
  <2>6. CASE CleanupFailedSession
    <3>1. /\ kind' \in [Sources -> {"starting", "running"} \cup Ended] /\ session' \subseteq Sources
          /\ UNCHANGED <<source, tasks, polling, completion, announced>>
      BY <2>6 DEF CleanupFailedSession, MarkError, SourcesTypeOK, Ended
    <3>2. /\ asked' \in [Sources -> Nat] /\ withdrawn' \in [Sources -> Nat]
          /\ capture' \in [Sources -> {"none", "idle", "capturing", "stopping"} \cup Ended]
      BY <2>4, <2>5, <2>6 DEF OwnerStep, CleanupFailedSession
    <3>3. owner' \in Owners
      BY <2>0, <2>6 DEF OwnerStep, CleanupFailedSession
    <3> QED  BY <3>1, <3>2, <3>3 DEF SourcesTypeOK
  <2>7. CASE AddTask \/ RemoveTask
    <3>1. /\ UNCHANGED <<source, session, kind, polling, capture, completion, tracks>>
          /\ tasks' \in {tasks \cup {s0}, tasks \ {s0}}
          /\ \/ owner' \in {At("running", 0), At("stop", Count)}
             \/ s0 < Count /\ owner' \in {At("create", s0 + 1), At("remove", s0 + 1)}
      <4>1. CASE AddTask
        BY <4>1 DEF AddTask
      <4>2. CASE RemoveTask
        BY <4>2 DEF RemoveTask
      <4> QED  BY <2>7, <4>1, <4>2
    <3>2. owner' \in Owners /\ tasks' \subseteq Sources
      BY <2>0, <2>7, <3>1, OwnerFacts DEF OwnerStep, SourcesTypeOK
    <3> QED  BY <3>1, <3>2 DEF SourcesTypeOK, tracks
  <2>8. CASE Stop
    <3>1. UNCHANGED <<source, session, kind, tasks, polling, completion, announced, withdrawn>>
      BY <2>8 DEF Stop
    <3>2. /\ asked' \in [Sources -> Nat]
          /\ capture' \in [Sources -> {"none", "idle", "capturing", "stopping"} \cup Ended]
      BY <2>4, <2>8 DEF OwnerStep, Stop, SourcesTypeOK
    <3>3. owner' \in Owners
      BY <2>0, <2>8, NextStopFacts DEF OwnerStep, Stop
    <3> QED  BY <3>1, <3>2, <3>3 DEF SourcesTypeOK
  <2>9. CASE Wait \/ UnpublishTrack
    <3>1. /\ completion' \in [Sources -> {"empty", "pending"}]
          /\ withdrawn' \in [Sources -> Nat]
          /\ UNCHANGED <<source, session, kind, tasks, polling, capture, announced, asked>>
      BY <2>5, <2>9 DEF OwnerStep, Wait, UnpublishTrack, SourcesTypeOK, tracks
    <3>2. owner' \in Owners
      BY <2>0, <2>9, NextStopFacts DEF OwnerStep, Wait, UnpublishTrack
    <3> QED  BY <3>1, <3>2 DEF SourcesTypeOK
  <2>10. ASSUME NEW s \in Sources, CaptureEnds(s) PROVE SourcesTypeOK'
    <3>1. capture' \in [Sources -> {"none", "idle", "capturing", "stopping"} \cup Ended]
      BY <2>10 DEF CaptureEnds, SourcesTypeOK, Ended
    <3>2. UNCHANGED <<source, owner, session, kind, tasks, polling, completion, tracks>>
      BY <2>10 DEF CaptureEnds
    <3> QED  BY <3>1, <3>2 DEF SourcesTypeOK, tracks
  <2>11. ASSUME NEW s \in Sources, PollResult(s) PROVE SourcesTypeOK'
    <3>1. /\ polling' \in [of : Sources, result : {"none"} \cup Ended]
          /\ completion' \in [Sources -> {"empty", "pending"}]
      BY <2>11 DEF PollResult, SourcesTypeOK
    <3>2. UNCHANGED <<source, owner, session, kind, tasks, capture, tracks>>
      BY <2>11 DEF PollResult
    <3> QED  BY <3>1, <3>2 DEF SourcesTypeOK, tracks
  <2>12. CASE RecordFinished
    <3>1. /\ kind' \in [Sources -> {"starting", "running"} \cup Ended]
          /\ polling' = NoPoll
      BY <2>12 DEF RecordFinished, SourcesTypeOK, NoPoll
    <3>2. UNCHANGED <<source, owner, session, tasks, capture, completion, tracks>>
      BY <2>12 DEF RecordFinished
    <3> QED  BY <3>1, <3>2 DEF SourcesTypeOK, tracks
  <2>13. CASE Destroy
    <3>1. /\ owner' = At("remove", 1)
          /\ UNCHANGED <<source, session, kind, tasks, polling, capture, completion, tracks>>
      BY <2>13 DEF Destroy
    <3>2. owner' \in Owners
      BY <3>1, SourcesAssumption, OwnerFacts DEF Sources, Walking
    <3> QED  BY <3>1, <3>2 DEF SourcesTypeOK, tracks
  <2>14. CASE Destroyed \/ UNCHANGED sourcesVars
    BY <2>14 DEF Destroyed, SourcesTypeOK, sourcesVars
  <2> QED
    BY <2>1, <2>2, <2>3, <2>6, <2>7, <2>8, <2>9, <2>10, <2>11, <2>12, <2>13, <2>14
       DEF SourcesNext, OwnerStep
<1> QED  BY <1>1, <1>2, PTL DEF SourcesSpec

(* A step keeps what holds of a source it does not touch. *)
Untouched(s) ==
  /\ (s \in session') = (s \in session) /\ (s \in announced') = (s \in announced)
  /\ asked'[s] = asked[s] /\ withdrawn'[s] = withdrawn[s]
LEMMA UntouchedStays ==
  ASSUME NEW s, Untouched(s)
  PROVE  /\ Fresh(s) => Fresh(s)'
         /\ Live(s) => Live(s)'
         /\ Gone(s) => Gone(s)'
         /\ Settled(s) => Settled(s)'
         /\ Asked(s) => Asked(s)'
BY DEF Untouched, Fresh, Live, Gone, Settled, Asked

LEMMA SourcesKept ==
  ASSUME SourcesInv, [SourcesNext]_sourcesVars
  PROVE  HandInv' /\ OthersInv'
<1>0. SourcesTypeOK /\ HandInv /\ OthersInv
  BY DEF SourcesInv
<1> USE DEF At
<1>1. ASSUME UNCHANGED <<owner, session, tracks>> PROVE HandInv' /\ OthersInv'
  BY <1>0, <1>1 DEF HandInv, OthersInv, Fresh, Live, Gone, Settled, Asked, tracks, s0
<1>2. ASSUME UNCHANGED <<session, tracks>> PROVE \A s : Untouched(s)
  BY <1>2 DEF Untouched, tracks
<1>3. ASSUME OwnerStep PROVE s0 \in Sources /\ s0 \in 1..Count /\ Count \in Nat /\ Sources = 1..Count
  BY <1>0, <1>3, AtHand, SourcesAssumption DEF Sources
<1>4. CASE CreateFails
  <2>1. /\ owner.at = "create" /\ owner' = [at |-> "add", of |-> s0]
        /\ UNCHANGED <<session, tracks>>
    BY <1>4 DEF CreateFails
  <2>2. \A s : Untouched(s)
    BY <1>2, <2>1
  <2>3. Fresh(s0)
    BY <1>0, <2>1 DEF HandInv
  <2>4. Settled(s0)'
    BY <2>1, <2>3 DEF Fresh, Settled, Gone, tracks, s0
  <2> QED  BY <1>0, <1>3, <1>4, <2>1, <2>2, <2>4, UntouchedStays
           DEF OwnerStep, HandInv, OthersInv, Building, Stopping, s0
<1>5. CASE CreateAndPublish
  <2>1. /\ owner.at = "create" /\ owner' = [at |-> "start", of |-> s0]
        /\ session' = session \cup {s0} /\ announced' = announced \cup {s0}
        /\ UNCHANGED <<asked, withdrawn>>
    BY <1>5 DEF CreateAndPublish
  <2>2. \A s : s # s0 => Untouched(s)
    BY <2>1 DEF Untouched
  <2>3. Fresh(s0)
    BY <1>0, <2>1 DEF HandInv
  <2>4. Live(s0)'
    BY <2>1, <2>3 DEF Fresh, Live, s0
  <2> QED  BY <1>0, <1>3, <1>5, <2>1, <2>2, <2>4, UntouchedStays
           DEF OwnerStep, HandInv, OthersInv, Building, Stopping, s0
<1>6. CASE Start \/ StartFails
  <2>1. /\ owner.at = "start" /\ owner' \in {[at |-> "add", of |-> s0], [at |-> "cleanup", of |-> s0]}
        /\ UNCHANGED <<session, tracks>>
    BY <1>6 DEF Start, StartFails
  <2>2. \A s : Untouched(s)
    BY <1>2, <2>1
  <2>3. s0' = s0 /\ owner'.at \in {"add", "cleanup"}
    BY <2>1 DEF s0
  <2>4. Live(s0)' /\ Settled(s0)'
    <3>1. Live(s0)
      BY <1>0, <2>1 DEF HandInv
    <3> QED  BY <2>1, <2>3, <3>1 DEF Live, Settled, tracks
  <2> QED  BY <1>0, <1>3, <1>6, <2>1, <2>2, <2>3, <2>4, UntouchedStays
           DEF OwnerStep, HandInv, OthersInv, Building, Stopping
<1>7. CASE CleanupFailedSession
  <2>1. /\ owner.at = "cleanup" /\ owner' = [at |-> "add", of |-> s0]
        /\ session' = session \ {s0} /\ announced' = announced
        /\ asked' = [asked EXCEPT ![s0] = @ + 1]
        /\ withdrawn' = [withdrawn EXCEPT ![s0] = @ + 1]
    BY <1>7 DEF CleanupFailedSession, AskToStop, Unpublish
  <2>2. \A s \in Sources : s # s0 => Untouched(s)
    BY <1>0, <2>1 DEF Untouched, SourcesTypeOK
  <2>3. asked'[s0] = asked[s0] + 1 /\ withdrawn'[s0] = withdrawn[s0] + 1 /\ s0 \in announced
        /\ asked[s0] = 0 /\ withdrawn[s0] = 0
    BY <1>0, <1>3, <1>7, <2>1 DEF OwnerStep, SourcesTypeOK, HandInv, Live
  <2>4. Settled(s0)'
    BY <2>1, <2>3 DEF Settled, Gone, s0
  <2> QED  BY <1>0, <1>3, <1>7, <2>1, <2>2, <2>4, UntouchedStays
           DEF OwnerStep, HandInv, OthersInv, Building, Stopping, s0
<1>8. CASE AddTask
  <2>1. /\ owner.at = "add"
        /\ owner' = IF s0 < Count THEN [at |-> "create", of |-> s0 + 1]
                    ELSE [at |-> "running", of |-> 0]
        /\ UNCHANGED <<session, tracks>>
    BY <1>8 DEF AddTask
  <2>2. \A s : Untouched(s)
    BY <1>2, <2>1
  <2>3. /\ \A s \in Sources : s <= s0 => Settled(s)'
        /\ \A s \in Sources : s > s0 => Fresh(s)'
    BY <1>0, <1>3, <1>8, <2>1, <2>2, UntouchedStays DEF OwnerStep, HandInv, OthersInv, Building
  <2>4. CASE s0 < Count
    <3>1. owner'.at = "create" /\ s0' = s0 + 1 /\ s0 + 1 \in Sources
      BY <1>3, <1>8, <2>1, <2>4 DEF OwnerStep, s0
    <3>2. Fresh(s0)'
      <4>1. \A s \in Sources : s = s0 + 1 => Fresh(s)'
        BY <1>3, <1>8, <2>3 DEF OwnerStep
      <4> QED  BY <3>1, <4>1 DEF Fresh
    <3> QED  BY <1>3, <1>8, <2>3, <3>1, <3>2 DEF OwnerStep, HandInv, OthersInv, Building, Stopping
  <2>5. CASE ~(s0 < Count)
    <3>1. owner'.at = "running" /\ s0 = Count
      BY <1>3, <1>8, <2>1, <2>5 DEF OwnerStep
    <3> QED  BY <1>3, <1>8, <2>3, <3>1 DEF OwnerStep, HandInv, OthersInv, Building, Stopping
  <2> QED  BY <2>4, <2>5
<1>9. CASE RemoveTask
  <2>1. /\ owner.at = "remove"
        /\ owner' = IF s0 < Count THEN [at |-> "remove", of |-> s0 + 1]
                    ELSE [at |-> "stop", of |-> Count]
        /\ UNCHANGED <<session, tracks>>
    BY <1>9 DEF RemoveTask
  <2>2. \A s : Untouched(s)
    BY <1>2, <2>1
  <2>3. \A s \in Sources : Settled(s)'
    BY <1>0, <2>1, <2>2, UntouchedStays DEF OthersInv
  <2>4. CASE s0 < Count
    BY <2>1, <2>3, <2>4 DEF HandInv, OthersInv, Building, Stopping
  <2>5. CASE ~(s0 < Count)
    <3>1. owner'.at = "stop" /\ s0' = Count /\ Count \in Sources
      BY <1>3, <1>9, <2>1, <2>5 DEF OwnerStep, s0
    <3> QED  BY <1>3, <1>9, <2>3, <3>1 DEF OwnerStep, HandInv, OthersInv, Building, Stopping, Settled, Live, Gone
  <2> QED  BY <2>4, <2>5
(* From a source that is gone the destructor goes to the one before it. *)
<1>10. ASSUME OwnerStep, owner.at \in Stopping, owner' = NextStop(s0),
              \A s \in Sources : IF s = s0 THEN Gone(s)' ELSE Untouched(s)
       PROVE  HandInv' /\ OthersInv'
  <2>1. \A s \in Sources : (s < s0 => Settled(s)') /\ (s >= s0 => Gone(s)')
    BY <1>0, <1>3, <1>10, UntouchedStays DEF OthersInv, Stopping
  <2>2. CASE s0 > 1
    <3>1. owner'.at = "stop" /\ s0' = s0 - 1 /\ s0 - 1 \in Sources
      BY <1>3, <1>10, <2>2 DEF NextStop, s0
    <3>2. Settled(s0)'
      <4>1. \A s \in Sources : s = s0 - 1 => Settled(s)'
        BY <1>3, <1>10, <2>1
      <4> QED  BY <3>1, <4>1 DEF Settled, Live, Gone
    <3> QED  BY <1>3, <1>10, <2>1, <3>1, <3>2 DEF HandInv, OthersInv, Building, Stopping
  <2>3. CASE ~(s0 > 1)
    <3>1. owner'.at = "destroyed" /\ s0 = 1
      BY <1>3, <1>10, <2>3 DEF NextStop
    <3> QED  BY <1>3, <1>10, <2>1, <3>1 DEF HandInv, OthersInv, Building, Stopping
  <2> QED  BY <2>2, <2>3
<1>11. CASE Stop
  <2>1. CASE s0 \notin session /\ owner' = NextStop(s0) /\ UNCHANGED <<capture, asked>>
    <3>1. UNCHANGED <<session, tracks>> /\ owner.at = "stop"
      BY <1>11, <2>1 DEF Stop, tracks
    <3>2. Gone(s0)
      BY <1>0, <2>1, <3>1 DEF HandInv, Settled, Live
    <3>3. \A s \in Sources : IF s = s0 THEN Gone(s)' ELSE Untouched(s)
      BY <1>2, <3>1, <3>2, UntouchedStays
    <3> QED  BY <1>10, <1>11, <2>1, <3>1, <3>3 DEF OwnerStep, Stopping
  <2>2. ASSUME s0 \in session, NEW answer \in Answers, AskToStop(answer),
               owner' \in {[at |-> "wait", of |-> s0], [at |-> "unpublish", of |-> s0]}
        PROVE  HandInv' /\ OthersInv'
    <3>1. /\ owner.at = "stop" /\ asked' = [asked EXCEPT ![s0] = @ + 1]
          /\ UNCHANGED <<session, announced, withdrawn>>
      BY <1>11, <2>2 DEF Stop, AskToStop
    <3>2. \A s \in Sources : s # s0 => Untouched(s)
      BY <1>0, <3>1 DEF Untouched, SourcesTypeOK
    <3>3. s0' = s0 /\ owner'.at \in {"wait", "unpublish"}
      BY <2>2 DEF s0
    <3>4. Live(s0)
      BY <1>0, <2>2, <3>1 DEF HandInv, Settled
    <3>5. Asked(s0)'
      <4>1. asked'[s0] = asked[s0] + 1
        BY <1>0, <1>3, <1>11, <3>1 DEF OwnerStep, SourcesTypeOK
      <4> QED  BY <3>1, <3>3, <3>4, <4>1 DEF Live, Asked
    <3> QED  BY <1>0, <1>3, <1>11, <3>1, <3>2, <3>3, <3>5, UntouchedStays
             DEF OwnerStep, HandInv, OthersInv, Building, Stopping
  <2> QED  BY <1>11, <2>1, <2>2 DEF Stop
<1>12. CASE Wait
  <2>1. /\ owner.at = "wait" /\ owner' = [at |-> "unpublish", of |-> s0]
        /\ UNCHANGED <<session, tracks>>
    BY <1>12 DEF Wait
  <2>2. \A s : Untouched(s)
    BY <1>2, <2>1
  <2>4. Asked(s0)'
    BY <1>0, <2>1 DEF HandInv, Asked, tracks, s0
  <2> QED  BY <1>0, <1>3, <1>12, <2>1, <2>2, <2>4, UntouchedStays
           DEF OwnerStep, HandInv, OthersInv, Building, Stopping, s0
<1>13. CASE UnpublishTrack
  <2>1. /\ owner.at = "unpublish" /\ owner' = NextStop(s0)
        /\ withdrawn' = [withdrawn EXCEPT ![s0] = @ + 1]
        /\ UNCHANGED <<session, announced, asked>>
    BY <1>13 DEF UnpublishTrack, Unpublish
  <2>2. \A s \in Sources : s # s0 => Untouched(s)
    BY <1>0, <2>1 DEF Untouched, SourcesTypeOK
  <2>3. Asked(s0)
    BY <1>0, <2>1 DEF HandInv
  <2>4. withdrawn'[s0] = withdrawn[s0] + 1
    BY <1>0, <1>3, <1>13, <2>1 DEF OwnerStep, SourcesTypeOK
  <2>5. asked'[s0] = 1 /\ withdrawn'[s0] = 1 /\ s0 \in announced'
    BY <2>1, <2>3, <2>4 DEF Asked
  <2>6. \A s \in Sources : IF s = s0 THEN Gone(s)' ELSE Untouched(s)
    BY <2>2, <2>5 DEF Gone
  <2> QED  BY <1>10, <1>13, <2>1, <2>6 DEF OwnerStep, Stopping
<1>14. CASE Destroy
  <2>1. /\ owner.at = "running" /\ owner' = [at |-> "remove", of |-> 1]
        /\ UNCHANGED <<session, tracks>>
    BY <1>14 DEF Destroy
  <2>2. \A s \in Sources : Settled(s)'
    BY <1>0, <1>2, <2>1, UntouchedStays DEF OthersInv
  <2> QED  BY <2>1, <2>2 DEF HandInv, OthersInv, Building, Stopping
<1>15. CASE (\E s \in Sources : CaptureEnds(s) \/ PollResult(s)) \/ RecordFinished
  BY <1>1, <1>15 DEF CaptureEnds, PollResult, RecordFinished
<1>16. CASE Destroyed \/ UNCHANGED sourcesVars
  BY <1>1, <1>16 DEF Destroyed, sourcesVars, tracks
<1> QED  BY <1>4, <1>5, <1>6, <1>7, <1>8, <1>9, <1>11, <1>12, <1>13, <1>14, <1>15, <1>16
         DEF SourcesNext, OwnerStep

(* Whatever fails while the sources are created, published, started and    *)
(* stopped, in the end every published track has been unpublished once,    *)
(* after its capture was asked to stop once.                               *)
THEOREM SourcesAreWithdrawn == SourcesSpec => []TracksWithdrawn
<1>1. SourcesInit => HandInv /\ OthersInv
  BY SourcesAssumption
     DEF SourcesInit, HandInv, OthersInv, Fresh, At, Building, Stopping, Sources, s0
<1>2. SourcesInv => TracksWithdrawn
  <2> SUFFICES ASSUME SourcesInv
               PROVE  /\ \A s \in Sources : withdrawn[s] <= asked[s] /\ asked[s] <= 1
                      /\ owner.at = "destroyed" => \A s \in Sources : Gone(s)
    BY DEF TracksWithdrawn, Gone
  <2>1. ASSUME NEW s \in Sources
        PROVE  Fresh(s) \/ Live(s) \/ Gone(s) \/ Asked(s)
    <3>1. HandInv /\ OthersInv /\ owner \in Owners
      BY DEF SourcesInv, SourcesTypeOK
    <3>2. owner.at \in Building \cup Stopping \cup {"remove", "running", "destroyed"}
      BY <3>1 DEF Owners, At, Walking
    <3>3. CASE owner.at \in {"remove", "running", "destroyed"}
      BY <3>1, <3>3 DEF OthersInv, Settled
    <3>4. CASE owner.at \in Building \cup Stopping
      <4>1. s0 \in Sources /\ s \in Int /\ s0 \in Int
        BY <3>1, <3>4, OwnerFacts DEF Walking, s0
      <4>2. s = s0 => Fresh(s) \/ Live(s) \/ Gone(s) \/ Asked(s)
        BY <3>1, <3>4 DEF HandInv, Building, Stopping, Settled
      <4>3. s < s0 \/ s > s0 => Fresh(s) \/ Live(s) \/ Gone(s) \/ Asked(s)
        BY <3>1, <3>4 DEF OthersInv, Settled
      <4> QED  BY <4>1, <4>2, <4>3
    <3> QED  BY <3>2, <3>3, <3>4
  <2>2. \A s \in Sources : withdrawn[s] <= asked[s] /\ asked[s] <= 1
    BY <2>1 DEF Fresh, Live, Gone, Asked
  <2>3. owner.at = "destroyed" => \A s \in Sources : Gone(s)
    BY DEF SourcesInv, OthersInv
  <2> QED  BY <2>2, <2>3
<1>3. SourcesInv /\ [SourcesNext]_sourcesVars => HandInv' /\ OthersInv'
  BY SourcesKept
<1> QED  BY <1>1, <1>2, <1>3, SourcesTypeCorrect, PTL DEF SourcesSpec, SourcesInv
==============================================================================
