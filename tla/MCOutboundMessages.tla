--------------------------- MODULE MCOutboundMessages ---------------------------
(* OutboundMessages on one topic of each kind. *)
EXTENDS OutboundMessages, TLC

CONSTANTS imu, raw, jpg, buf, all, bad, c1, c2, s1, s2, s3

FourTopics == {imu, raw, jpg, buf}
SomePatterns == FourTopics \cup {all, bad}
Matched ==
  [p \in SomePatterns |-> CASE p = all -> FourTopics [] p = bad -> {} [] OTHER -> {p}]
RmwTopics == {buf}
TwoCallbacks == {c1, c2}
ThreeStates == {s1, s2, s3}
Pictures == {raw, jpg}
Jpegs == {jpg}
AllFaults == {"create", "publish", "unavailable"}

Out(p, latched, period, enc) ==
  [topic |-> p, direction |-> "out", latched |-> latched, period |-> period, encoding |-> enc]
In(p) ==
  [topic |-> p, direction |-> "in", latched |-> FALSE, period |-> 2, encoding |-> "ros2idl"]

Pub(reliable, transient, depth) ==
  [reliable |-> reliable, transient |-> transient, depth |-> depth]
Plain == Pub(FALSE, FALSE, 1)
OnlyOn(t, crowds) == [u \in FourTopics |-> IF u = t THEN crowds ELSE {<<>>}]

Picture(w, h, len) == [size |-> <<w, h>>, bpp |-> 1, step |-> w, len |-> len]
Pictured == {Picture(1, 1, 1), Picture(2, 1, 2), Picture(1, 2, 1), Picture(0, 1, 0)}

(* every pair of publishers *)
Profiles == {Pub(r, t, d) : r, t \in BOOLEAN, d \in {0, 2}}
Crowds == {<<p>> : p \in Profiles} \cup {<<p, q>> : p, q \in Profiles}
Quality ==
  {[config |-> <<Out(all, FALSE, 0, "ros2msg")>>, bestEffort |-> b, heard |-> {imu},
    crowds |-> OnlyOn(imu, {<<>>, crowd}), samples |-> {}, until |-> 0] :
     crowd \in Crowds, b \in {{}, {all}, {bad}}}

(* the cap, by its literal name or by a pattern *)
Rates ==
  {[config |-> cfg, bestEffort |-> {}, heard |-> {}, crowds |-> OnlyOn(imu, {<<>>, <<Plain>>}),
    samples |-> {Message}, until |-> MaxNow] :
     cfg \in {<<In(imu), Out(bad, FALSE, 1, "ros2msg"), Out(imu, FALSE, 2, "jsonschema")>>,
              <<Out(all, FALSE, 2, "ros2idl"), Out(imu, TRUE, 1, "ros2msg")>>}}

Videos ==
  {[config |-> <<Out(t, FALSE, 0, "ros2msg"), Out(buf, FALSE, 0, "ros2msg")>>,
    bestEffort |-> {}, heard |-> {}, crowds |-> OnlyOn(t, {<<>>, <<Plain>>}), samples |-> Pictured,
    until |-> 0] :
     t \in {raw, jpg}}

(* states of images are alike, and so are callbacks *)
Alike == Permutations(ThreeStates) \cup Permutations(TwoCallbacks)

Settings == Quality \cup Rates \cup Videos
==============================================================================
