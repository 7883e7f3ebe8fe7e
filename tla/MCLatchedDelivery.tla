--------------------------- MODULE MCLatchedDelivery ---------------------------
(* LatchedDelivery on small sets of callbacks, peers and messages. *)
EXTENDS LatchedDelivery, TLC

CONSTANTS c1, c2, p1, p2, a, b, d, big

OneCallback == {c1}
TwoCallbacks == {c1, c2}
OnePeer == {p1}
TwoPeers == {p1, p2}
SmallMessages == {a, b, d}
AllMessages == {a, b, d, big}
NoneOversize == {}
BigOversize == {big}

(* messages that fit are alike, and so are callbacks *)
Alike == Permutations(SmallMessages) \cup Permutations(TwoCallbacks)
==============================================================================
