------------------------------- MODULE TopicRules -------------------------------
(***************************************************************************)
(* What the configuration says about an outbound topic: the functions of   *)
(* utils/ros_utils.cpp and utils/config_mapping.cpp, pattern matching, and *)
(* the QoS profile that TopicForwarder::determineQoS() subscribes with.    *)
(*                                                                         *)
(* A pattern is known by the topics it matches; one that does not compile  *)
(* matches none.  A literal name is a pattern that matches itself.         *)
(***************************************************************************)
EXTENDS Integers, Sequences, FiniteSets, FiniteSetsExt, Functions

CONSTANTS Topics,
          Patterns,      \* what may stand as the topic of an entry
          Denotes,       \* the topics each pattern matches
          BufferTopics,  \* the rmw's own topics
          MaxPeriod, MinDepth, MaxDepth

Encodings == {"ros2msg", "ros2idl", "jsonschema"}
Entry == [topic : Patterns, direction : {"in", "out", "bidirectional"}, latched : BOOLEAN,
          period : 0..MaxPeriod,  \* of max_rate_hz; 0: no positive rate is set
          encoding : Encodings]

ASSUME TopicsAssumption ==
  /\ Topics \subseteq Patterns /\ BufferTopics \subseteq Topics
  /\ Denotes \in [Patterns -> SUBSET Topics]
  /\ \A t \in Topics : t \in Denotes[t]
ASSUME DepthsAssumption ==
  MaxPeriod \in Nat /\ MinDepth \in Nat /\ MaxDepth \in Nat

-----------------------------------------------------------------------------
IsOutbound(entry) == entry.direction \in {"out", "bidirectional"}
MatchesAny(t, patterns) == \E p \in patterns : t \in Denotes[p]

(* entries that go to the data tracks; the others are latched *)
OutgoingPatterns(config) ==
  {config[i].topic : i \in {j \in DOMAIN config : IsOutbound(config[j]) /\ ~config[j].latched}}
LatchedTopics(config) ==
  {config[i].topic : i \in {j \in DOMAIN config : IsOutbound(config[j]) /\ config[j].latched}}

IsForwarded(config, t) == MatchesAny(t, OutgoingPatterns(config)) /\ t \notin BufferTopics

(* Rates and encodings are found by the literal name; the first entry that *)
(* sets one counts.                                                        *)
Named(config, t) == {i \in DOMAIN config : config[i].topic = t /\ IsOutbound(config[i])}
RateLimits(config, t) ==
  LET capped == {i \in Named(config, t) : config[i].period > 0}
  IN IF capped = {} THEN 0 ELSE config[Min(capped)].period
OutboundEncoding(config, t) ==
  IF Named(config, t) = {} THEN "ros2msg" ELSE config[Min(Named(config, t))].encoding

-----------------------------------------------------------------------------
Profile == [reliable : BOOLEAN, transient : BOOLEAN, depth : Nat]

(* the history has room for what every publisher keeps, within bounds *)
Depth(pubs) ==
  LET kept == SumFunction([i \in DOMAIN pubs |-> Max({1, pubs[i].depth})])
  IN Min({MaxDepth, Max({MinDepth, kept})})

(* mutant: one publisher that offers more is enough *)
DetermineQoSForSome(pubs, bestEffort) ==
  [reliable |-> ~bestEffort /\ \E i \in DOMAIN pubs : pubs[i].reliable,
   transient |-> \E i \in DOMAIN pubs : pubs[i].transient,
   depth |-> Depth(pubs)]

DetermineQoS(pubs, bestEffort) ==
  [reliable |-> ~bestEffort /\ pubs # <<>> /\ \A i \in DOMAIN pubs : pubs[i].reliable,
   transient |-> pubs # <<>> /\ \A i \in DOMAIN pubs : pubs[i].transient,
   depth |-> Depth(pubs)]
==============================================================================
