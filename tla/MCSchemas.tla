------------------------------- MODULE MCSchemas -------------------------------
(* Schemas: every dependency graph of a few types for one caller, and      *)
(* several callers that meet at one type.                                  *)
EXTENDS Schemas, TLC

CONSTANTS c1, c2, c3

ThreeCallers == {c1, c2, c3}
ThreeTypes == 0..2
Faulty == {"refuse", "replace", "fetch"}

Def(deps, rev) == [deps |-> deps, rev |-> rev]
None == <<>>
Flat(rev) == 0 :> Def({}, rev)
Installed(msg, idl) == [ros2msg |-> msg, ros2idl |-> idl, jsonschema |-> Flat(0)]

Out(enc) == [side |-> "out", type |-> 0, enc |-> enc]
In(graph, enc, name, frame) ==
  [side |-> "in", graph |-> graph, name |-> name, enc |-> enc, frame |-> frame]
Asks(a, b, c) == (c1 :> a) @@ (c2 :> b) @@ (c3 :> c)

(* Every graph of three types, complete or not, as .msg or as .idl files,  *)
(* rendered for one outbound track; as .msg files a circle of the three is *)
(* too deep.  The inbound tracks are malformed, and nothing is replaced.   *)
Graphs ==
  UNION {[D -> {Def(deps, 1) : deps \in SUBSET ThreeTypes}] : D \in SUBSET ThreeTypes}
AnyGraph ==
  {[install |-> [out |-> o, in |-> Installed(None, None)],
    req |-> Asks(Out("ros2msg"), In(<<>>, "jsonschema", 0, "cdr"), In(<<0>>, "none", 0, "json"))] :
     o \in UNION {{Installed(g, None), Installed(None, g)} : g \in Graphs}}

(* a type and its one dependency, the other portal of either revision *)
Pair(rev) == (0 :> Def({1}, 0)) @@ (1 :> Def({0}, rev))
AtPortals(out, in, reqs) ==
  {[install |-> [out |-> Installed(o, Pair(0)), in |-> i], req |-> r] :
     o \in out, i \in in, r \in reqs}
Meetings ==
  AtPortals(
    {Pair(0), None}, {Installed(None, None)},
    {Asks(Out("ros2msg"), Out("ros2msg"), Out("ros2msg")),
     Asks(Out("ros2msg"), Out("ros2idl"), Out("jsonschema"))})
  \cup AtPortals(
    {Pair(0), None},
    {Installed(Pair(0), None), Installed(Pair(1), None), Installed(None, Pair(0))},
    {Asks(Out("ros2msg"), Out("ros2msg"), In(<<1, 0>>, "ros2msg", 0, "cdr")),
     Asks(Out("jsonschema"), Out("ros2idl"), In(<<>>, "ros2idl", 0, "cdr")),
     Asks(In(<<>>, "jsonschema", 0, "json"), In(<<0>>, "ros2msg", 1, "cdr"), In(<<>>, "none", 0, "cdr"))})

Tried == AnyGraph \cup Meetings
==============================================================================
