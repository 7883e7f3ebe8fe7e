------------------------ MODULE LatchedDeliveryProofs ------------------------
(***************************************************************************)
(* Machine-checked theorems about LatchedDelivery, for every set of        *)
(* callbacks, peers and messages and all limits.                           *)
(***************************************************************************)
EXTENDS LatchedDelivery, TLAPS

Pushing == {"pick", "push", "acked", "failed"}

(* A callback past its early returns holds a message that may be stored.   *)
CallbackInv ==
  \A c \in Callbacks : /\ cbpc[c] # "idle" => holding[c] \in Messages
                       /\ cbpc[c] = "encoded" => holding[c] \notin Oversize

(* Outside a round there is nobody to push to.  Within one, the worker's   *)
(* copy is the store unless the version has moved on, and then every peer  *)
(* still to be pushed to has been re-armed since the copy was taken.       *)
RoundInv ==
  /\ wpc \notin Pushing => targets = {}
  /\ wpc \in Pushing => batch # <<>>
  /\ wpc \in Pushing /\ batchVersion = version => batch = messages
  /\ \A p \in targets : /\ peers[p].failures < MaxFailures
                        /\ batchVersion < version => peers[p].failures = 0

(* What the bookkeeping, or the round under way, credits a peer with, the  *)
(* peer has received.                                                      *)
HeldInv ==
  /\ DeliveredIsHeld
  /\ wpc = "push" /\ target \in present
       => \A i \in 1..(nextIndex - 1) : batch[i] \in got[target].all
  /\ wpc = "acked" /\ target \in present => Range(batch) \subseteq got[target].all

(* Only the first failure since new state may concern an older copy.       *)
TriedInv ==
  \A p \in present \cap DOMAIN peers : peers[p].failures > 1 => tried[p] = version

StoreInv == TypeOK /\ CallbackInv /\ StoreIsASet
IInv == StoreInv /\ RoundInv
PeerInv == IInv /\ HeldInv /\ TriedInv

-----------------------------------------------------------------------------
(* Appending to a sequence adds the element to its range, and keeps the    *)
(* sequence free of duplicates if the element is new.                      *)
LEMMA AppendRange ==
  ASSUME NEW S, NEW s \in Seq(S), NEW e \in S
  PROVE  /\ Append(s, e) \in Seq(S) /\ Append(s, e) # <<>>
         /\ Len(Append(s, e)) = Len(s) + 1
         /\ Range(Append(s, e)) = Range(s) \cup {e}
         /\ IsInjective(s) /\ e \notin Range(s) => IsInjective(Append(s, e))
<1> DEFINE a == Append(s, e)
<1>1. a \in Seq(S) /\ Len(a) = Len(s) + 1 /\ a # <<>>
  <2>1. a \in Seq(S) /\ Len(a) = Len(s) + 1 /\ Len(s) \in Nat
    OBVIOUS
  <2>2. Len(<<>>) = 0
    OBVIOUS
  <2> QED  BY <2>1, <2>2
<1>2. /\ DOMAIN s = 1..Len(s) /\ DOMAIN a = 1..(Len(s) + 1) /\ Len(s) \in Nat
      /\ \A i \in 1..Len(s) : a[i] = s[i]
      /\ a[Len(s) + 1] = e
  OBVIOUS
<1>3. Range(a) = Range(s) \cup {e}
  <2> HIDE DEF a
  <2>1. \A i \in DOMAIN a : a[i] \in Range(s) \cup {e}
    BY <1>2 DEF Range
  <2>2. \A i \in DOMAIN s : s[i] \in Range(a)
    BY <1>2 DEF Range
  <2>3. e \in Range(a)
    BY <1>2 DEF Range
  <2> QED  BY <2>1, <2>2, <2>3 DEF Range
<1>4. ASSUME IsInjective(s), e \notin Range(s) PROVE IsInjective(a)
  <2> HIDE DEF a
  <2>1. \A i \in 1..Len(s) : a[i] # e
    BY <1>2, <1>4 DEF Range
  <2> SUFFICES ASSUME NEW i \in DOMAIN a, NEW j \in DOMAIN a, a[i] = a[j] PROVE i = j
    BY DEF IsInjective
  <2>2. CASE i \in 1..Len(s) /\ j \in 1..Len(s)
    BY <2>2, <1>2, <1>4 DEF IsInjective
  <2>3. CASE ~(i \in 1..Len(s) /\ j \in 1..Len(s))
    BY <2>3, <1>2, <2>1
  <2> QED  BY <2>2, <2>3
<1> QED  BY <1>1, <1>3, <1>4

(* Dropping the head of a sequence without duplicates drops exactly that   *)
(* element from its range.                                                 *)
LEMMA TailRange ==
  ASSUME NEW S, NEW s \in Seq(S), s # <<>>, IsInjective(s)
  PROVE  /\ Tail(s) \in Seq(S) /\ Len(Tail(s)) = Len(s) - 1 /\ Len(s) > 0
         /\ Head(s) \in Range(s)
         /\ Range(Tail(s)) = Range(s) \ {Head(s)}
         /\ IsInjective(Tail(s))
<1> DEFINE t == Tail(s)
<1>1. t \in Seq(S) /\ Len(t) = Len(s) - 1 /\ Len(s) > 0
  OBVIOUS
<1>2. /\ DOMAIN s = 1..Len(s) /\ DOMAIN t = 1..(Len(s) - 1) /\ Len(s) \in Nat \ {0}
      /\ \A i \in 1..(Len(s) - 1) : t[i] = s[i + 1]
      /\ Head(s) = s[1]
  OBVIOUS
<1>3. Head(s) \in Range(s)
  BY <1>2 DEF Range
<1>4. Range(t) = Range(s) \ {Head(s)}
  <2> HIDE DEF t
  <2>1. ASSUME NEW i \in DOMAIN t PROVE t[i] \in Range(s) \ {Head(s)}
    <3>1. t[i] = s[i + 1] /\ i + 1 \in DOMAIN s /\ i + 1 # 1 /\ 1 \in DOMAIN s
      BY <2>1, <1>2
    <3>2. s[i + 1] # s[1]
      BY <3>1 DEF IsInjective
    <3> QED  BY <3>1, <3>2, <1>2 DEF Range
  <2>2. ASSUME NEW i \in DOMAIN s, s[i] # Head(s) PROVE s[i] \in Range(t)
    <3>1. i - 1 \in DOMAIN t /\ t[i - 1] = s[i]
      BY <2>2, <1>2
    <3> QED  BY <3>1 DEF Range
  <2> QED  BY <2>1, <2>2 DEF Range
<1>5. IsInjective(t)
  <2> HIDE DEF t
  <2> SUFFICES ASSUME NEW i \in DOMAIN t, NEW j \in DOMAIN t, t[i] = t[j] PROVE i = j
    BY DEF IsInjective
  <2>1. i + 1 \in DOMAIN s /\ j + 1 \in DOMAIN s /\ s[i + 1] = s[j + 1]
    BY <1>2
  <2>2. i + 1 = j + 1
    BY <2>1 DEF IsInjective
  <2> QED  BY <2>2, <1>2
<1> QED  BY <1>1, <1>3, <1>4, <1>5

-----------------------------------------------------------------------------
(* What the second critical section of a callback does to the store.       *)
LEMMA StoreStep ==
  ASSUME TypeOK, CallbackInv, StoreIsASet, NEW c \in Callbacks, Store(c)
  PROVE  /\ messages' \in Seq(Messages \ Oversize)
         /\ hashes' \subseteq Messages \ Oversize
         /\ StoreIsASet'
         /\ \/ UNCHANGED <<messages, hashes, version, peers>>
            \/ version' = version + 1 /\ messages' # <<>> /\ peers' = Rearmed
<1>1. holding[c] \in Messages \ Oversize
  BY DEF CallbackInv, Store
<1>2. CASE holding[c] \in hashes
  BY <1>2 DEF Store, storeVars, TypeOK, StoreIsASet
<1>3. CASE holding[c] \notin hashes
  <2> DEFINE m == holding[c]
  <2>1. messages \in Seq(Messages \ Oversize) /\ MaxStored \in Nat \ {0}
    BY LimitsAssumption DEF TypeOK
  <2>2. hashes = Range(messages) /\ IsInjective(messages) /\ Len(messages) <= MaxStored
    BY DEF StoreIsASet
  <2>3. version' = version + 1 /\ peers' = Rearmed
    BY <1>3 DEF Store
  <2>4. CASE Len(messages) < MaxStored
    <3>1. messages' = Append(messages, m) /\ hashes' = hashes \cup {m}
      BY <1>3, <2>4 DEF Store
    <3>2. /\ messages' \in Seq(Messages \ Oversize) /\ messages' # <<>>
          /\ Len(messages') = Len(messages) + 1
          /\ Range(messages') = Range(messages) \cup {m}
          /\ IsInjective(messages')
      BY <1>1, <1>3, <2>1, <2>2, <3>1, AppendRange
    <3>3. Len(messages') <= MaxStored
      BY <2>1, <2>4, <3>2
    <3> QED  BY <1>1, <2>2, <2>3, <3>1, <3>2, <3>3 DEF StoreIsASet, TypeOK
  <2>5. CASE ~(Len(messages) < MaxStored)
    <3>1. Len(messages) = MaxStored /\ messages # <<>>
      <4>1. Len(messages) \in Nat /\ Len(<<>>) = 0
        BY <2>1
      <4> QED  BY <2>1, <2>2, <2>5, <4>1
    <3>2. messages' = Append(Tail(messages), m)
          /\ hashes' = (hashes \cup {m}) \ {Head(messages)}
      BY <1>3, <2>5 DEF Store
    <3>3. /\ Tail(messages) \in Seq(Messages \ Oversize)
          /\ Len(Tail(messages)) = Len(messages) - 1
          /\ Head(messages) \in Range(messages)
          /\ Range(Tail(messages)) = Range(messages) \ {Head(messages)}
          /\ IsInjective(Tail(messages))
      BY <2>1, <2>2, <3>1, TailRange
    <3>4. m \notin Range(Tail(messages)) /\ m # Head(messages)
      BY <1>3, <2>2, <3>3
    <3>5. /\ messages' \in Seq(Messages \ Oversize) /\ messages' # <<>>
          /\ Len(messages') = Len(Tail(messages)) + 1
          /\ Range(messages') = Range(Tail(messages)) \cup {m}
          /\ IsInjective(messages')
      <4> DEFINE t == Tail(messages)
      <4>1. t \in Seq(Messages \ Oversize) /\ IsInjective(t) /\ m \notin Range(t)
        BY <3>3, <3>4
      <4> HIDE DEF t, m
      <4>2. /\ Append(t, m) \in Seq(Messages \ Oversize) /\ Append(t, m) # <<>>
            /\ Len(Append(t, m)) = Len(t) + 1
            /\ Range(Append(t, m)) = Range(t) \cup {m}
            /\ IsInjective(Append(t, m))
        BY <1>1, <4>1, AppendRange DEF m
      <4> QED  BY <3>2, <4>2 DEF t
    <3>6. hashes' = Range(messages')
      BY <2>2, <3>2, <3>3, <3>4, <3>5
    <3>7. Len(messages') <= MaxStored
      BY <2>1, <3>1, <3>3, <3>5
    <3> QED  BY <1>1, <2>2, <2>3, <3>2, <3>5, <3>6, <3>7 DEF StoreIsASet, TypeOK
  <2> QED  BY <2>4, <2>5
<1> QED  BY <1>2, <1>3

(* The strengthened invariant holds at first and is kept by every step.    *)
LEMMA InitIInv == Init => IInv
<1> SUFFICES ASSUME Init PROVE IInv
  OBVIOUS
<1> USE LimitsAssumption
<1>1. <<>> \in Seq(Messages) /\ <<>> \in Seq(Messages \ Oversize) /\ Len(<<>>) = 0
  OBVIOUS
<1>2. Range(<<>>) = {} /\ IsInjective(<<>>)
  BY DEF Range, IsInjective
<1>3. peers \in [DOMAIN peers -> [delivered : 0..version, failures : 0..MaxFailures]]
      /\ DOMAIN peers = {}
  BY DEF Init
<1>4. NewStay \in [all : SUBSET Messages, last : Messages \cup {NoMessage}]
  BY DEF NewStay
<1>5. TypeOK
  <2>1. version \in Nat /\ batchVersion \in 0..version /\ nextIndex \in Nat
        /\ got \in [Peers -> [all : SUBSET Messages, last : Messages \cup {NoMessage}]]
        /\ tried \in [Peers -> 0..version]
    BY <1>4 DEF Init
  <2>2. cbpc \in [Callbacks -> {"idle", "arrived", "encoded"}]
        /\ holding \in [Callbacks -> Messages \cup {NoMessage}]
    BY DEF Init
  <2> QED  BY <1>1, <1>3, <2>1, <2>2 DEF Init, TypeOK
<1>6. CallbackInv /\ RoundInv
  BY DEF Init, CallbackInv, RoundInv, Pushing
<1>7. StoreIsASet
  BY <1>1, <1>2 DEF Init, StoreIsASet
<1> QED  BY <1>5, <1>6, <1>7 DEF IInv, StoreInv

LEMMA NextIInv == ASSUME IInv, [Next]_vars PROVE IInv'
<1> USE LimitsAssumption
<1> USE DEF IInv, StoreInv
<1> DEFINE Peer(v) == [delivered : 0..v, failures : 0..MaxFailures]
<1>1. ASSUME NEW p \in Peers, Join(p) \/ Leave(p) \/ Outage \/ Recovery PROVE IInv'
  <2>1. /\ got' \in [Peers -> [all : SUBSET Messages, last : Messages \cup {NoMessage}]]
        /\ tried' \in [Peers -> 0..version]
        /\ available' \in BOOLEAN /\ present' \subseteq Peers
    <3>1. NewStay \in [all : SUBSET Messages, last : Messages \cup {NoMessage}]
          /\ 0 \in 0..version
      BY DEF NewStay, TypeOK
    <3>2. CASE Join(p)             BY <3>1, <3>2 DEF Join, TypeOK
    <3>3. CASE Leave(p)            BY <3>3 DEF Leave, TypeOK
    <3>4. CASE Outage \/ Recovery  BY <3>4 DEF Outage, Recovery, TypeOK
    <3> QED  BY <1>1, <3>2, <3>3, <3>4
  <2>3. UNCHANGED <<callbackVars, storeVars, peers, wpc, pushVars, stop>>
    BY <1>1 DEF Join, Leave, Outage, Recovery, RoomOnly
  <2>4. TypeOK'
    BY <2>1, <2>3 DEF TypeOK, callbackVars, storeVars, pushVars
  <2>2. CallbackInv' /\ StoreIsASet' /\ RoundInv'
    BY <2>3 DEF CallbackInv, StoreIsASet, RoundInv, callbackVars, storeVars, pushVars
  <2> QED  BY <2>2, <2>4
<1>2. ASSUME NEW c \in Callbacks, NEW m \in Messages, Take(c, m) PROVE IInv'
  <2>1. TypeOK'
    BY <1>2 DEF TypeOK, Take, Goto, CallbackOnly, roomVars, storeVars, pushVars
  <2>2. CallbackInv' /\ StoreIsASet' /\ RoundInv'
    BY <1>2 DEF TypeOK, CallbackInv, StoreIsASet, RoundInv, Take, Goto, CallbackOnly,
                roomVars, storeVars, pushVars
  <2> QED  BY <2>1, <2>2
<1>3. ASSUME NEW c \in Callbacks, Encode(c) PROVE IInv'
  <2>1. TypeOK'
    BY <1>3 DEF TypeOK, Encode, Goto, CallbackOnly, roomVars, storeVars, pushVars
  <2>2. CallbackInv' /\ StoreIsASet' /\ RoundInv'
    BY <1>3 DEF TypeOK, CallbackInv, StoreIsASet, RoundInv, Encode, Goto, CallbackOnly,
                roomVars, storeVars, pushVars
  <2> QED  BY <2>1, <2>2
<1>4. ASSUME NEW c \in Callbacks, Store(c) PROVE IInv'
  <2>1. /\ messages' \in Seq(Messages \ Oversize)
        /\ hashes' \subseteq Messages \ Oversize
        /\ StoreIsASet'
        /\ \/ UNCHANGED <<messages, hashes, version, peers>>
           \/ version' = version + 1 /\ messages' # <<>> /\ peers' = Rearmed
    BY <1>4, StoreStep
  <2>2. /\ cbpc' = [cbpc EXCEPT ![c] = "idle"]
        /\ UNCHANGED <<roomVars, wpc, pushVars, stop, tried, taken, holding>>
    BY <1>4 DEF Store, Goto, CallbackOnly
  <2>3. CASE UNCHANGED <<messages, hashes, version, peers>>
    BY <2>1, <2>2, <2>3 DEF TypeOK, CallbackInv, RoundInv, roomVars, pushVars
  <2>4. CASE version' = version + 1 /\ messages' # <<>> /\ peers' = Rearmed
    <3>1. DOMAIN peers' = DOMAIN peers
          /\ \A p \in DOMAIN peers :
               peers'[p] = [peers[p] EXCEPT !.failures = 0]
      BY <2>4 DEF Rearmed
    <3>2. \A p \in DOMAIN peers : peers[p] \in Peer(version)
      BY DEF TypeOK
    <3>3. peers' \in [DOMAIN peers' -> Peer(version')]
      <4>1. \A p \in DOMAIN peers : [peers[p] EXCEPT !.failures = 0] \in Peer(version')
        <5> SUFFICES ASSUME NEW p \in DOMAIN peers
                     PROVE  [peers[p] EXCEPT !.failures = 0] \in Peer(version')
          OBVIOUS
        <5>1. peers[p] \in [delivered : 0..version, failures : 0..MaxFailures]
              /\ version \in Nat /\ version' = version + 1
          BY <2>4, <3>2 DEF TypeOK
        <5> QED  BY <5>1
      <4> QED  BY <2>4, <4>1 DEF Rearmed
    <3>4. tried \in [Peers -> 0..version'] /\ batchVersion \in 0..version'
          /\ version' \in Nat
      BY <2>4 DEF TypeOK
    <3>5. TypeOK'
      BY <2>1, <2>2, <3>1, <3>3, <3>4 DEF TypeOK, roomVars, pushVars
    <3>6. \A p \in targets : peers'[p].failures = 0
      BY <3>1, <3>2 DEF TypeOK
    <3>7. RoundInv'
      BY <2>2, <2>4, <3>6 DEF RoundInv, TypeOK, pushVars
    <3>8. CallbackInv'
      BY <2>2 DEF CallbackInv, TypeOK
    <3> QED  BY <2>1, <3>5, <3>7, <3>8
  <2> QED  BY <2>1, <2>3, <2>4
<1>5. ASSUME Wake \/ List PROVE IInv'
  <2>1. TypeOK'
    BY <1>5 DEF TypeOK, Wake, List, WorkerOnly, callbackVars, storeVars, pushVars
  <2>2. CallbackInv' /\ StoreIsASet' /\ RoundInv'
    BY <1>5 DEF CallbackInv, StoreIsASet, RoundInv, Wake, List, WorkerOnly, callbackVars,
                storeVars, pushVars, Pushing
  <2> QED  BY <2>1, <2>2
<1>6. CASE Plan
  <2>1. UNCHANGED <<available, present, callbackVars, storeVars, stop, got, tried>>
        /\ targets = {}
    BY <1>6 DEF Plan, WorkerOnly, RoundInv, Pushing
  <2>2. /\ DOMAIN peers' = roster
        /\ peers' \in [roster -> Peer(version)]
    <3>1. NewPeer \in Peer(version)
      BY DEF NewPeer, TypeOK
    <3>2. \A p \in roster : (IF p \in DOMAIN peers THEN peers[p] ELSE NewPeer) \in Peer(version)
      BY <3>1 DEF TypeOK
    <3> QED  BY <1>6, <3>2 DEF Plan, ReconciledRoster
  <2>3. CASE messages = <<>>
    <3>1. wpc' = "sleep" /\ UNCHANGED pushVars
      BY <1>6, <2>3 DEF Plan
    <3>2. TypeOK'
      BY <2>1, <2>2, <3>1 DEF TypeOK, callbackVars, storeVars, pushVars
    <3>3. CallbackInv' /\ StoreIsASet' /\ RoundInv'
      BY <2>1, <3>1 DEF CallbackInv, StoreIsASet, RoundInv, callbackVars, storeVars,
                        pushVars, Pushing
    <3> QED  BY <3>2, <3>3
  <2>4. CASE messages # <<>>
    <3>1. /\ wpc' = "pick" /\ batch' = messages /\ batchVersion' = version
          /\ targets' = {p \in DOMAIN peers' : Due(peers'[p])}
          /\ UNCHANGED <<roster, target, nextIndex>>
      BY <1>6, <2>4 DEF Plan
    <3>2. TypeOK'
      BY <2>1, <2>2, <3>1 DEF TypeOK, callbackVars, storeVars
    <3>3. CallbackInv' /\ StoreIsASet'
      BY <2>1 DEF CallbackInv, StoreIsASet, callbackVars, storeVars
    <3>4. RoundInv'
      BY <2>1, <2>4, <3>1 DEF RoundInv, Due, Pushing, storeVars, TypeOK
    <3> QED  BY <3>2, <3>3, <3>4
  <2> QED  BY <2>3, <2>4
<1>7. CASE Pick
  <2>1. batch # <<>> => 1 \in DOMAIN batch
    <3>1. batch \in Seq(Messages \ Oversize)
      BY DEF TypeOK
    <3> QED  BY <3>1
  <2>2. TypeOK'
    BY <1>7, <2>1 DEF TypeOK, Pick, RoundInv, Pushing, WorkerOnly, callbackVars, storeVars
  <2>3. CallbackInv' /\ StoreIsASet' /\ RoundInv'
    BY <1>7 DEF CallbackInv, StoreIsASet, RoundInv, Pick, WorkerOnly, callbackVars,
                storeVars, Pushing
  <2> QED  BY <2>2, <2>3
<1>8. ASSUME RpcSucceeds \/ RpcFails PROVE IInv'
  <2>1. wpc = "push" /\ nextIndex \in 1..Len(batch) /\ batch[nextIndex] \in Messages
        /\ target \in Peers /\ nextIndex \in Nat /\ Len(batch) \in Nat
        /\ DOMAIN batch = 1..Len(batch)
    BY <1>8 DEF RpcSucceeds, RpcFails, TypeOK
  <2>2. got' \in [Peers -> [all : SUBSET Messages, last : Messages \cup {NoMessage}]]
    <3>1. CASE UNCHANGED got
      BY <3>1 DEF TypeOK
    <3>2. CASE Receives(target, Payload)
      <4> DEFINE r == [all |-> got[target].all \cup {batch[nextIndex]},
                       last |-> batch[nextIndex]]
      <4>1. got[target] \in [all : SUBSET Messages, last : Messages \cup {NoMessage}]
        BY <2>1 DEF TypeOK
      <4>2. r \in [all : SUBSET Messages, last : Messages \cup {NoMessage}]
        BY <2>1, <4>1
      <4>3. got' = [got EXCEPT ![target] = r]
        BY <3>2 DEF Receives, Payload
      <4> HIDE DEF r
      <4> QED  BY <4>2, <4>3 DEF TypeOK
    <3> QED  BY <1>8, <3>1, <3>2 DEF RpcSucceeds, RpcFails
  <2>3. TypeOK'
    BY <1>8, <2>1, <2>2 DEF TypeOK, RpcSucceeds, RpcFails, WorkerOnly, callbackVars,
                            storeVars, pushVars
  <2>4. CallbackInv' /\ StoreIsASet' /\ RoundInv'
    BY <1>8 DEF CallbackInv, StoreIsASet, RoundInv, RpcSucceeds, RpcFails, WorkerOnly,
                callbackVars, storeVars, pushVars, Pushing
  <2> QED  BY <2>3, <2>4
<1>9. ASSUME SettleAcked \/ SettleFailed PROVE IInv'
  <2>1. /\ target \in targets /\ target \in DOMAIN peers /\ target \in Peers
        /\ peers[target] \in Peer(version) /\ batchVersion \in 0..version
        /\ version \in Nat /\ peers[target].failures < MaxFailures
    BY <1>9 DEF SettleAcked, SettleFailed, TypeOK, RoundInv
  <2>2. PICK record \in Peer(version) : Settled(target, record)
    <3>1. [delivered |-> batchVersion, failures |-> 0] \in Peer(version)
      BY <2>1
    <3>2. [peers[target] EXCEPT !.failures = @ + 1] \in Peer(version)
      BY <2>1
    <3> QED  BY <1>9, <3>1, <3>2 DEF SettleAcked, SettleFailed
  <2>3. TypeOK'
    BY <2>1, <2>2 DEF TypeOK, Settled, WorkerOnly, callbackVars, storeVars
  <2>4. CallbackInv' /\ StoreIsASet'
    BY <2>2 DEF CallbackInv, StoreIsASet, Settled, WorkerOnly, callbackVars, storeVars
  <2>5. wpc \in Pushing
    BY <1>9 DEF SettleAcked, SettleFailed, Pushing
  <2>6. RoundInv'
    BY <2>1, <2>2, <2>5 DEF RoundInv, Settled, WorkerOnly, storeVars, TypeOK, Pushing
  <2> QED  BY <2>3, <2>4, <2>6
<1>10. CASE Destroy
  <2>1. TypeOK'
    BY <1>10 DEF TypeOK, Destroy, roomVars, callbackVars, storeVars, pushVars
  <2>2. CallbackInv' /\ StoreIsASet' /\ RoundInv'
    BY <1>10 DEF CallbackInv, StoreIsASet, RoundInv, Destroy, callbackVars, storeVars,
                 pushVars
  <2> QED  BY <2>1, <2>2
<1>11. CASE UNCHANGED vars
  <2>1. TypeOK'
    BY <1>11 DEF TypeOK, vars, roomVars, callbackVars, storeVars, pushVars
  <2>2. CallbackInv' /\ StoreIsASet' /\ RoundInv'
    BY <1>11 DEF CallbackInv, StoreIsASet, RoundInv, vars, roomVars, callbackVars,
                 storeVars, pushVars
  <2> QED  BY <2>1, <2>2
<1>12. CASE Outage \/ Recovery
  BY <1>12, <1>1 DEF TypeOK
<1> QED
  BY <1>1, <1>2, <1>3, <1>4, <1>5, <1>6, <1>7, <1>8, <1>9, <1>10, <1>11, <1>12
     DEF Next, CallbackStep, WorkerStep, Terminated

-----------------------------------------------------------------------------
(* Every variable of LatchedDelivery keeps its type: no peer is ever       *)
(* credited with a version that does not exist or failed beyond the cap.   *)
THEOREM TypeCorrect == Spec => []TypeOK
<1>1. Init => IInv
  BY InitIInv
<1>2. IInv /\ [Next]_vars => IInv'
  BY NextIInv
<1>3. IInv => TypeOK
  BY DEF IInv, StoreInv
<1> QED  BY <1>1, <1>2, <1>3, PTL DEF Spec

(* However many callbacks race through storeOutboundMessage(), with equal  *)
(* or different contents, the store and its hash index stay one bounded    *)
(* set.                                                                    *)
THEOREM StoreConsistent == Spec => []StoreIsASet
<1>1. Init => IInv
  BY InitIInv
<1>2. IInv /\ [Next]_vars => IInv'
  BY NextIInv
<1>3. IInv => StoreIsASet
  BY DEF IInv, StoreInv
<1> QED  BY <1>1, <1>2, <1>3, PTL DEF Spec

-----------------------------------------------------------------------------
(* A round never loses what it or an earlier round has achieved, provided  *)
(* that no peer rejoins unnoticed.                                         *)
LEMMA NextPeerInv ==
  ASSUME ~QuickRejoin, PeerInv, IInv', [Next]_vars
  PROVE  (HeldInv /\ TriedInv)'
<1> USE DEF PeerInv
<1>0. TypeOK /\ RoundInv /\ TypeOK' /\ version \in Nat /\ targets \subseteq DOMAIN peers
  BY DEF IInv, StoreInv, TypeOK
<1>1. ASSUME NEW p \in Peers, Join(p) PROVE (HeldInv /\ TriedInv)'
  <2>1. p \notin DOMAIN peers /\ present' = present \cup {p}
        /\ \A q \in Peers \ {p} : got'[q] = got[q] /\ tried'[q] = tried[q]
    BY <1>0, <1>1 DEF Join, TypeOK
  <2>2. UNCHANGED <<storeVars, peers, wpc, pushVars>>
    BY <1>1 DEF Join, RoomOnly
  <2>3. /\ present \subseteq Peers
        /\ wpc \in {"push", "acked", "failed"} => target \in DOMAIN peers /\ target \in Peers
    BY <1>0 DEF TypeOK
  <2>4. DeliveredIsHeld'
    BY <2>1, <2>2, <2>3 DEF HeldInv, DeliveredIsHeld, UpToDate, storeVars
  <2>5. HeldInv'
    BY <2>1, <2>2, <2>3, <2>4 DEF HeldInv, pushVars
  <2>6. TriedInv'
    BY <2>1, <2>2, <2>3 DEF TriedInv, storeVars
  <2> QED  BY <2>5, <2>6
<1>2. ASSUME NEW p \in Peers, Leave(p) PROVE (HeldInv /\ TriedInv)'
  BY <1>2 DEF Leave, RoomOnly, HeldInv, DeliveredIsHeld, UpToDate, TriedInv, storeVars,
              pushVars
<1>3. CASE Outage \/ Recovery
  BY <1>3 DEF Outage, Recovery, RoomOnly, HeldInv, DeliveredIsHeld, UpToDate, TriedInv,
              storeVars, pushVars
<1>4. ASSUME NEW c \in Callbacks, Encode(c) \/ \E m \in Messages : Take(c, m)
      PROVE (HeldInv /\ TriedInv)'
  <2>1. UNCHANGED <<roomVars, storeVars, peers, wpc, pushVars, tried>>
    BY <1>4 DEF Encode, Take, CallbackOnly
  <2> QED  BY <2>1 DEF HeldInv, DeliveredIsHeld, UpToDate, TriedInv, storeVars, pushVars,
                       roomVars
<1>5. ASSUME NEW c \in Callbacks, Store(c) PROVE (HeldInv /\ TriedInv)'
  <2>1. /\ UNCHANGED <<roomVars, wpc, pushVars, tried>>
        /\ \/ UNCHANGED <<messages, hashes, version, peers>>
           \/ version' = version + 1 /\ messages' # <<>> /\ peers' = Rearmed
    BY <1>5, StoreStep DEF Store, CallbackOnly, IInv, StoreInv
  <2>2. CASE UNCHANGED <<messages, hashes, version, peers>>
    BY <2>1, <2>2 DEF HeldInv, DeliveredIsHeld, UpToDate, TriedInv, pushVars, roomVars
  <2>3. CASE version' = version + 1 /\ peers' = Rearmed
    <3>1. DOMAIN peers' = DOMAIN peers
      BY <2>3 DEF Rearmed
    <3>2. ASSUME NEW p \in DOMAIN peers
          PROVE  peers'[p].failures = 0 /\ peers'[p].delivered # version'
      <4>1. peers'[p] = [peers[p] EXCEPT !.failures = 0]
        BY <2>3, <3>2 DEF Rearmed
      <4>2. peers[p] \in [delivered : 0..version, failures : 0..MaxFailures]
        BY <1>0, <3>2 DEF TypeOK
      <4>3. peers'[p].failures = 0 /\ peers'[p].delivered = peers[p].delivered
            /\ peers[p].delivered \in 0..version
        BY <4>1, <4>2
      <4> QED  BY <1>0, <2>3, <4>3
    <3>3. DeliveredIsHeld' /\ TriedInv'
      BY <3>1, <3>2 DEF DeliveredIsHeld, UpToDate, TriedInv
    <3> QED  BY <2>1, <3>3 DEF HeldInv, pushVars, roomVars
  <2> QED  BY <2>1, <2>2, <2>3
<1>6. CASE Wake \/ List
  <2>1. UNCHANGED <<present, got, storeVars, peers, tried>>
        /\ wpc' \notin {"push", "acked"}
    BY <1>6 DEF Wake, List, WorkerOnly
  <2> QED  BY <2>1 DEF HeldInv, DeliveredIsHeld, UpToDate, TriedInv, storeVars
<1>7. CASE Plan
  <2>1. UNCHANGED <<present, got, storeVars, tried>>
        /\ wpc' \notin {"push", "acked"} /\ DOMAIN peers' = roster
        /\ \A p \in roster : peers'[p] = IF p \in DOMAIN peers THEN peers[p] ELSE NewPeer
    BY <1>7 DEF Plan, WorkerOnly, ReconciledRoster
  <2>2. NewPeer.delivered = 0 /\ NewPeer.failures = 0
    BY DEF NewPeer
  <2>3. DeliveredIsHeld'
    BY <2>1, <2>2 DEF HeldInv, DeliveredIsHeld, UpToDate, storeVars
  <2>4. TriedInv'
    BY <2>1, <2>2 DEF TriedInv, storeVars
  <2> QED  BY <2>1, <2>3, <2>4 DEF HeldInv
<1>8. CASE Pick
  <2>1. /\ UNCHANGED <<present, got, storeVars, peers, tried>>
        /\ wpc' # "acked" /\ (wpc' = "push" => nextIndex' = 1)
    BY <1>8 DEF Pick, WorkerOnly
  <2> QED  BY <2>1 DEF HeldInv, DeliveredIsHeld, UpToDate, TriedInv, storeVars
<1>9. CASE RpcSucceeds
  <2>1. /\ UNCHANGED <<present, storeVars, peers, tried, batch, target>>
        /\ wpc = "push" /\ target \in present
        /\ got' = [got EXCEPT ![target] = [all |-> got[target].all \cup {batch[nextIndex]},
                                           last |-> batch[nextIndex]]]
    BY <1>9 DEF RpcSucceeds, WorkerOnly, Receives, Payload
  <2>2. /\ \A p \in Peers : got[p].all \subseteq got'[p].all
        /\ batch[nextIndex] \in got'[target].all
    BY <1>0, <2>1 DEF TypeOK
  <2>3. DeliveredIsHeld' /\ TriedInv'
    BY <1>0, <2>1, <2>2 DEF HeldInv, DeliveredIsHeld, UpToDate, TriedInv, storeVars, TypeOK
  <2>4. /\ nextIndex \in 1..Len(batch) /\ Len(batch) \in Nat /\ DOMAIN batch = 1..Len(batch)
        /\ target \in Peers
    BY <1>0, <2>1 DEF TypeOK
  <2>5. \A i \in 1..nextIndex : batch[i] \in got'[target].all
    <3>1. \A i \in 1..(nextIndex - 1) : batch[i] \in got[target].all
      BY <2>1 DEF HeldInv
    <3> QED  BY <2>2, <2>4, <3>1
  <2>6. CASE nextIndex = Len(batch) /\ wpc' = "acked"
    <3>1. Range(batch) \subseteq got'[target].all
      BY <2>4, <2>5, <2>6 DEF Range
    <3> QED  BY <2>1, <2>3, <2>6, <3>1 DEF HeldInv
  <2>7. CASE nextIndex' = nextIndex + 1 /\ wpc' = "push"
    <3>1. \A i \in 1..(nextIndex' - 1) : batch[i] \in got'[target].all
      BY <2>4, <2>5, <2>7
    <3> QED  BY <2>1, <2>3, <2>7, <3>1 DEF HeldInv
  <2> QED  BY <1>9, <2>1, <2>6, <2>7 DEF RpcSucceeds
<1>10. CASE RpcFails
  <2>1. UNCHANGED <<present, storeVars, peers, tried>> /\ wpc' = "failed"
    BY <1>10 DEF RpcFails, WorkerOnly
  <2>2. \A p \in Peers : got[p].all \subseteq got'[p].all
    <3>1. CASE got' = got
      BY <3>1
    <3>2. CASE Receives(target, Payload)
      BY <1>0, <3>2 DEF Receives, TypeOK
    <3> QED  BY <1>10, <3>1, <3>2 DEF RpcFails
  <2> QED
    BY <1>0, <2>1, <2>2 DEF HeldInv, DeliveredIsHeld, UpToDate, TriedInv, storeVars, TypeOK
<1>11. CASE SettleAcked
  <2>1. /\ UNCHANGED <<present, got, storeVars, batch, batchVersion>>
        /\ wpc = "acked" /\ wpc' = "pick"
        /\ DOMAIN peers' = DOMAIN peers
        /\ \A p \in DOMAIN peers \ {target} :
             peers'[p] = peers[p] /\ tried'[p] = tried[p]
    BY <1>0, <1>11 DEF SettleAcked, Settled, WorkerOnly, TypeOK
  <2>2. target \in DOMAIN peers
        /\ peers'[target].delivered = batchVersion /\ peers'[target].failures = 0
    BY <1>0, <1>11 DEF SettleAcked, Settled, TypeOK
  <2>3. target \in present /\ batchVersion = version => Range(messages) \subseteq got[target].all
    BY <1>0, <2>1 DEF HeldInv, RoundInv, Pushing
  <2>4. DeliveredIsHeld'
    BY <2>1, <2>2, <2>3 DEF HeldInv, DeliveredIsHeld, UpToDate, storeVars
  <2>5. TriedInv'
    BY <2>1, <2>2 DEF TriedInv, storeVars
  <2> QED  BY <2>1, <2>4, <2>5 DEF HeldInv
<1>12. CASE SettleFailed
  <2>1. /\ UNCHANGED <<present, got, storeVars, batch, batchVersion>>
        /\ wpc = "failed" /\ wpc' = "pick"
        /\ DOMAIN peers' = DOMAIN peers
        /\ \A p \in DOMAIN peers \ {target} :
             peers'[p] = peers[p] /\ tried'[p] = tried[p]
    BY <1>0, <1>12 DEF SettleFailed, Settled, WorkerOnly, TypeOK
  <2>2. /\ target \in targets /\ target \in DOMAIN peers /\ target \in Peers
        /\ peers[target] \in [delivered : 0..version, failures : 0..MaxFailures]
        /\ peers' = [peers EXCEPT ![target] = [peers[target] EXCEPT !.failures = @ + 1]]
        /\ tried'[target] = batchVersion
    BY <1>0, <1>12 DEF SettleFailed, Settled, TypeOK
  <2>3. peers'[target].delivered = peers[target].delivered
        /\ peers'[target].failures = peers[target].failures + 1
    BY <2>2
  <2>4. DeliveredIsHeld'
    BY <2>1, <2>2, <2>3 DEF HeldInv, DeliveredIsHeld, UpToDate, storeVars
  <2>5. peers'[target].failures > 1 => tried'[target] = version
    <3>1. batchVersion < version => peers[target].failures = 0
      BY <1>0, <2>2 DEF RoundInv
    <3>2. batchVersion \in 0..version /\ peers[target].failures \in Nat
      BY <1>0, <2>2, LimitsAssumption DEF TypeOK
    <3> QED  BY <1>0, <2>2, <2>3, <3>1, <3>2
  <2>6. TriedInv'
    BY <2>1, <2>2, <2>5 DEF TriedInv, storeVars
  <2> QED  BY <2>1, <2>4, <2>6 DEF HeldInv
<1>13. CASE Destroy
  BY <1>13 DEF Destroy, HeldInv, DeliveredIsHeld, UpToDate, TriedInv, storeVars, pushVars,
               roomVars
<1>14. CASE UNCHANGED vars
  BY <1>14 DEF vars, HeldInv, DeliveredIsHeld, UpToDate, TriedInv, storeVars, pushVars,
               roomVars
<1> QED
  BY <1>1, <1>2, <1>3, <1>4, <1>5, <1>6, <1>7, <1>8, <1>9, <1>10, <1>11, <1>12, <1>13, <1>14
     DEF Next, CallbackStep, WorkerStep, Terminated

(* If no peer leaves and rejoins between two looks at the roster, a peer   *)
(* that the bookkeeping calls up to date holds every retained message.     *)
THEOREM CreditedIsHeld ==
  ASSUME ~QuickRejoin
  PROVE  Spec => []DeliveredIsHeld
<1>1. Init => PeerInv
  <2> SUFFICES ASSUME Init PROVE PeerInv
    OBVIOUS
  <2>1. IInv
    BY InitIInv
  <2>2. HeldInv /\ TriedInv
    BY DEF Init, HeldInv, DeliveredIsHeld, TriedInv
  <2> QED  BY <2>1, <2>2 DEF PeerInv
<1>2. PeerInv /\ [Next]_vars => PeerInv'
  BY NextIInv, NextPeerInv DEF PeerInv
<1>3. PeerInv => DeliveredIsHeld
  BY DEF PeerInv, HeldInv
<1> QED  BY <1>1, <1>2, <1>3, PTL DEF Spec

(* ... and a peer is given up on only after a push of the newest state:    *)
(* the re-arming in storeOutboundMessage() and the bookkeeping of a round  *)
(* that was already under way combine to at most one stale failure.        *)
THEOREM GivenUpAfterTry ==
  ASSUME ~QuickRejoin, MaxFailures > 1
  PROVE  Spec => []GivenUpWasTried
<1>1. Init => PeerInv
  <2> SUFFICES ASSUME Init PROVE PeerInv
    OBVIOUS
  <2>1. IInv
    BY InitIInv
  <2>2. HeldInv /\ TriedInv
    BY DEF Init, HeldInv, DeliveredIsHeld, TriedInv
  <2> QED  BY <2>1, <2>2 DEF PeerInv
<1>2. PeerInv /\ [Next]_vars => PeerInv'
  BY NextIInv, NextPeerInv DEF PeerInv
<1>3. PeerInv => GivenUpWasTried
  BY DEF PeerInv, TriedInv, GivenUpWasTried
<1> QED  BY <1>1, <1>2, <1>3, PTL DEF Spec

-----------------------------------------------------------------------------
(* The order of messages                                                   *)

Latest(s) == s[Len(s)]

(* A peer is pushed to only while it is behind, to the end of the copy. *)
LastInv ==
  /\ messages # <<>> => version > 0
  /\ \A p \in targets : peers[p].delivered < version
  /\ wpc = "acked" /\ target \in present => got[target].last = Latest(batch)
  /\ \A p \in present : messages # <<>> /\ UpToDate(p) => got[p].last = Latest(messages)

LEMMA AppendLatest ==
  ASSUME NEW S, NEW s \in Seq(S), NEW e \in S
  PROVE  Append(s, e) \in Seq(S) /\ Append(s, e) # <<>> /\ Latest(Append(s, e)) = e
<1>1. Append(s, e) \in Seq(S) /\ Len(Append(s, e)) = Len(s) + 1 /\ Append(s, e)[Len(s) + 1] = e
  OBVIOUS
<1>2. Append(s, e) # <<>>
  BY <1>1, AppendRange
<1> QED  BY <1>1, <1>2 DEF Latest

(* A message that is stored becomes the newest of the store. *)
LEMMA StoreLatest ==
  ASSUME TypeOK, CallbackInv, StoreIsASet, NEW c \in Callbacks, Store(c),
         holding[c] \notin hashes
  PROVE  /\ messages' # <<>> /\ Latest(messages') = holding[c]
         /\ version' = version + 1 /\ peers' = Rearmed
         /\ hashes' \subseteq hashes \cup {holding[c]}
<1>1. holding[c] \in Messages \ Oversize
  BY DEF CallbackInv, Store
<1>2. /\ messages' = IF Len(messages) < MaxStored THEN Append(messages, holding[c])
                     ELSE Append(Tail(messages), holding[c])
      /\ hashes' \subseteq hashes \cup {holding[c]}
      /\ version' = version + 1 /\ peers' = Rearmed
  BY DEF Store
<1>3. messages \in Seq(Messages \ Oversize)
  BY DEF TypeOK
<1>4. CASE Len(messages) < MaxStored
  BY <1>1, <1>2, <1>3, <1>4, AppendLatest
<1>5. CASE ~(Len(messages) < MaxStored)
  <2>1. Len(messages) \in Nat \ {0}
    BY <1>3, <1>5, LimitsAssumption
  <2>2. messages # <<>>
    BY <2>1
  <2>3. Tail(messages) \in Seq(Messages \ Oversize)
    BY <1>3, <2>2
  <2>4. /\ Append(Tail(messages), holding[c]) # <<>>
        /\ Latest(Append(Tail(messages), holding[c])) = holding[c]
    <3> DEFINE S == Messages \ Oversize
    <3>1. Tail(messages) \in Seq(S) /\ holding[c] \in S
      BY <1>1, <2>3
    <3> HIDE DEF S
    <3> QED  BY <3>1, AppendLatest
  <2> QED  BY <1>2, <1>5, <2>4
<1> QED  BY <1>4, <1>5

LEMMA LastKept ==
  ASSUME ~QuickRejoin, IInv, LastInv, [Next]_vars
  PROVE  LastInv'
<1>0. TypeOK /\ CallbackInv /\ StoreIsASet /\ RoundInv /\ version \in Nat /\ targets \subseteq DOMAIN peers
  BY DEF IInv, StoreInv, TypeOK
<1>1. ASSUME UNCHANGED <<messages, version, targets, peers, wpc, target, present, got, batch>>
      PROVE  LastInv'
  BY <1>1 DEF LastInv, UpToDate
<1>2. ASSUME NEW p \in Peers, Join(p) PROVE LastInv'
  <2>1. p \notin DOMAIN peers /\ present' = present \cup {p}
        /\ \A q \in Peers \ {p} : got'[q] = got[q]
    BY <1>0, <1>2 DEF Join, TypeOK
  <2>2. UNCHANGED <<storeVars, peers, wpc, pushVars>>
    BY <1>2 DEF Join, RoomOnly
  <2>3. present \subseteq Peers /\ (wpc = "acked" => target \in DOMAIN peers /\ target \in Peers)
    BY <1>0 DEF TypeOK
  <2>4. target' \in present' /\ wpc' = "acked" => target \in present /\ target # p
    BY <2>1, <2>2, <2>3 DEF pushVars
  <2>5. ASSUME NEW q \in present', UpToDate(q)'
        PROVE  q \in present /\ UpToDate(q) /\ got'[q] = got[q]
    BY <2>1, <2>2, <2>3, <2>5 DEF UpToDate, storeVars
  <2> QED  BY <2>1, <2>2, <2>3, <2>4, <2>5 DEF LastInv, storeVars, pushVars
<1>3. ASSUME NEW p \in Peers, Leave(p) PROVE LastInv'
  BY <1>3 DEF Leave, RoomOnly, LastInv, UpToDate, storeVars, pushVars
<1>4. CASE Outage \/ Recovery
  BY <1>1, <1>4 DEF Outage, Recovery, RoomOnly, storeVars, pushVars
<1>5. ASSUME NEW c \in Callbacks, Encode(c) \/ \E m \in Messages : Take(c, m) PROVE LastInv'
  BY <1>1, <1>5 DEF Encode, Take, CallbackOnly, roomVars, storeVars, pushVars
<1>15. ASSUME NEW c \in Callbacks, Store(c), holding[c] \in hashes PROVE LastInv'
  BY <1>1, <1>15 DEF Store, CallbackOnly, roomVars, storeVars, pushVars
<1>6. ASSUME NEW c \in Callbacks, Store(c), holding[c] \notin hashes PROVE LastInv'
  <2>1. UNCHANGED <<roomVars, wpc, pushVars>> /\ cbpc[c] = "encoded"
    BY <1>6 DEF Store, CallbackOnly
  <2>2. messages' # <<>> /\ version' = version + 1 /\ peers' = Rearmed
    BY <1>0, <1>6, StoreLatest
  <2>3. DOMAIN peers' = DOMAIN peers
    BY <2>2 DEF Rearmed
  <2>4. ASSUME NEW p \in DOMAIN peers PROVE peers'[p].delivered < version'
    <3>1. peers'[p] = [peers[p] EXCEPT !.failures = 0]
      BY <2>2 DEF Rearmed
    <3>2. peers[p] \in [delivered : 0..version, failures : 0..MaxFailures]
      BY <1>0 DEF TypeOK
    <3>3. peers'[p].delivered = peers[p].delivered /\ peers[p].delivered \in 0..version
      BY <3>1, <3>2
    <3> QED  BY <1>0, <2>2, <3>3
  <2>5. \A p : ~UpToDate(p)'
    <3>1. \A p \in DOMAIN peers : peers'[p].delivered # version'
      <4>1. version' \in Nat
        BY <1>0, <2>2
      <4> QED  BY <2>4, <4>1
    <3> QED  BY <2>3, <3>1 DEF UpToDate
  <2> QED  BY <1>0, <2>1, <2>2, <2>3, <2>4, <2>5 DEF LastInv, roomVars, pushVars
<1>7. CASE Wake \/ List
  <2>1. UNCHANGED <<present, got, storeVars, peers, targets>> /\ wpc' # "acked"
    BY <1>7 DEF Wake, List, WorkerOnly, pushVars
  <2> QED  BY <2>1 DEF LastInv, UpToDate, storeVars
<1>8. CASE Plan
  <2>1. UNCHANGED <<present, got, storeVars>>
        /\ wpc' # "acked" /\ DOMAIN peers' = roster
        /\ \A p \in roster : peers'[p] = IF p \in DOMAIN peers THEN peers[p] ELSE NewPeer
    BY <1>8 DEF Plan, WorkerOnly, ReconciledRoster
  <2>2. NewPeer.delivered = 0
    BY DEF NewPeer
  <2>3. \A p \in targets' : peers'[p].delivered < version'
    <3>1. targets = {}
      BY <1>0, <1>8 DEF Plan, RoundInv, Pushing
    <3> QED  BY <1>8, <2>1, <3>1 DEF Plan, Due, storeVars, pushVars
  <2>4. ASSUME NEW p \in present', messages' # <<>>, UpToDate(p)' PROVE UpToDate(p)
    BY <1>0, <2>1, <2>2, <2>4 DEF LastInv, UpToDate, storeVars
  <2> QED  BY <2>1, <2>3, <2>4 DEF LastInv, storeVars
<1>9. CASE Pick
  <2>1. UNCHANGED <<present, got, storeVars, peers, targets>> /\ wpc' # "acked"
    BY <1>9 DEF Pick, WorkerOnly
  <2> QED  BY <2>1 DEF LastInv, UpToDate, storeVars
<1>10. ASSUME wpc = "push" PROVE target \in targets /\ ~UpToDate(target)
  <2>1. target \in targets /\ peers[target].delivered < version
    BY <1>0, <1>10 DEF TypeOK, LastInv
  <2> QED  BY <1>0, <2>1 DEF UpToDate
<1>11. CASE RpcSucceeds
  <2>1. /\ UNCHANGED <<present, storeVars, peers, batch, targets, target>> /\ wpc = "push"
        /\ got' = [got EXCEPT ![target] = [all |-> got[target].all \cup {batch[nextIndex]},
                                           last |-> batch[nextIndex]]]
        /\ wpc' = "acked" => nextIndex = Len(batch)
    BY <1>11 DEF RpcSucceeds, WorkerOnly, Receives, Payload
  <2>2. target \in Peers /\ present \subseteq Peers
    BY <1>0 DEF TypeOK
  <2>3. got'[target].last = batch[nextIndex] /\ \A p \in present : p # target => got'[p] = got[p]
    BY <1>0, <2>1, <2>2 DEF TypeOK
  <2>4. \A p \in present : UpToDate(p) => p # target
    BY <1>10, <2>1
  <2> QED  BY <2>1, <2>3, <2>4 DEF LastInv, UpToDate, Latest, storeVars
<1>12. CASE RpcFails
  <2>1. /\ UNCHANGED <<present, storeVars, peers, targets>> /\ wpc' = "failed" /\ wpc = "push"
        /\ UNCHANGED got \/ Receives(target, Payload)
    BY <1>12 DEF RpcFails, WorkerOnly, pushVars
  <2>2. target \in Peers /\ present \subseteq Peers
    BY <1>0 DEF TypeOK
  <2>3. \A p \in present : p # target => got'[p] = got[p]
    BY <1>0, <2>1, <2>2 DEF TypeOK, Receives, Payload
  <2>4. \A p \in present : UpToDate(p) => p # target
    BY <1>10, <2>1
  <2> QED  BY <2>1, <2>3, <2>4 DEF LastInv, UpToDate, storeVars
<1>13. CASE SettleAcked \/ SettleFailed
  <2>1. /\ UNCHANGED <<present, got, storeVars, batch>>
        /\ wpc' = "pick" /\ targets' = targets \ {target}
        /\ DOMAIN peers' = DOMAIN peers
        /\ \A p \in DOMAIN peers \ {target} : peers'[p] = peers[p]
    BY <1>0, <1>13 DEF SettleAcked, SettleFailed, Settled, WorkerOnly, TypeOK
  <2>2. target \in targets /\ target \in DOMAIN peers
        /\ peers[target] \in [delivered : 0..version, failures : 0..MaxFailures]
    BY <1>0, <1>13 DEF SettleAcked, SettleFailed, TypeOK
  <2>3. target \in present /\ messages # <<>> /\ peers'[target].delivered = version =>
          got[target].last = Latest(messages)
    <3>1. CASE SettleAcked
      <4>1. peers'[target].delivered = batchVersion /\ wpc = "acked"
        BY <1>0, <2>2, <3>1 DEF SettleAcked, Settled, TypeOK
      <4>2. batchVersion = version => batch = messages
        BY <1>0, <4>1 DEF RoundInv, Pushing
      <4> QED  BY <4>1, <4>2 DEF LastInv
    <3>2. CASE SettleFailed
      <4>1. peers' = [peers EXCEPT ![target] = [peers[target] EXCEPT !.failures = @ + 1]]
        BY <3>2 DEF SettleFailed, Settled
      <4>2. peers'[target].delivered = peers[target].delivered
        BY <1>0, <2>2, <4>1 DEF TypeOK
      <4>3. peers[target].delivered < version /\ peers[target].delivered \in Nat
        BY <2>2 DEF LastInv
      <4> QED  BY <1>0, <4>2, <4>3
    <3> QED  BY <1>13, <3>1, <3>2
  <2>4. \A p \in targets' : peers'[p].delivered < version'
    BY <1>0, <2>1 DEF LastInv, storeVars
  <2>5. ASSUME NEW p \in present', messages' # <<>>, UpToDate(p)'
        PROVE  got'[p].last = Latest(messages')
    <3>1. p \in present /\ messages # <<>> /\ p \in DOMAIN peers /\ peers'[p].delivered = version
          /\ got' = got /\ messages' = messages
      BY <2>1, <2>5 DEF UpToDate, storeVars
    <3>2. CASE p = target
      BY <2>3, <3>1, <3>2
    <3>3. CASE p # target
      BY <2>1, <3>1, <3>3 DEF LastInv, UpToDate
    <3> QED  BY <3>2, <3>3
  <2> QED  BY <2>1, <2>4, <2>5 DEF LastInv, storeVars
<1>14. CASE Destroy \/ UNCHANGED vars
  BY <1>1, <1>14 DEF Destroy, roomVars, storeVars, pushVars, vars
<1> QED
  BY <1>2, <1>3, <1>4, <1>5, <1>6, <1>7, <1>8, <1>9, <1>11, <1>12, <1>13, <1>14, <1>15
     DEF Next, CallbackStep, WorkerStep, Terminated

(* What was stored last is what a peer that is up to date received last,   *)
(* however many callbacks store and evict while the pushes of the worker   *)
(* fail, are repeated, or meet an outage; unless it rejoined unnoticed.    *)
THEOREM NewestArrives ==
  ASSUME ~QuickRejoin
  PROVE  Spec => []NewestIsLast
<1>1. Init => IInv /\ LastInv
  <2> SUFFICES ASSUME Init PROVE IInv /\ LastInv
    OBVIOUS
  <2>1. LastInv
    BY DEF Init, LastInv
  <2> QED  BY <2>1, InitIInv
<1>2. IInv /\ LastInv /\ [Next]_vars => IInv' /\ LastInv'
  BY NextIInv, LastKept
<1>3. LastInv => NewestIsLast
  BY DEF LastInv, NewestIsLast, Latest
<1> QED  BY <1>1, <1>2, <1>3, PTL DEF Spec
==============================================================================
