----------------------------- MODULE MCRemoteCalls -----------------------------
(* RemoteCalls on a few calls of every kind. *)
EXTENDS RemoteCalls, TLC

CONSTANTS c1, c2, c3, s1, s2, t1, t2

TwoCalls == {c1, c2}
ThreeCalls == {c1, c2, c3}
TwoServices == {s1, s2}
TwoTopics == {t1, t2}
Call(kind, on, asked) == [kind |-> kind, on |-> on, asked |-> asked]

Forward == Call("forward", s1, 0)
Short == Call("service_call", s1, 0)
Long == Call("service_call", s1, MaxTimeout)
Other == Call("service_call", s2, 0)
Pub(t) == Call("topic_pub", t, 0)
Listing == Call("list", "graph", 0)

(* the same client, two clients, the same topic, two topics, a listing *)
Pairs ==
  {(c1 :> p[1]) @@ (c2 :> p[2]) :
     p \in {<<Forward, Short>>, <<Forward, Long>>, <<Forward, Other>>,
           <<Pub(t1), Pub(t1)>>, <<Pub(t1), Pub(t2)>>, <<Listing, Short>>}}

NoFaults == {}
AllFaults == {"room", "lost", "rejected", "throw"}
==============================================================================
