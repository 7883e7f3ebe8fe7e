------------------------ MODULE MCConnectionHealth ------------------------
(* ConnectionHealth on two candidate pairs. *)
EXTENDS ConnectionHealth, TLC

CONSTANTS cp1, cp2

TwoPairs == {cp1, cp2}
Of(selected, usable, pairs, b1, b2) ==
  [selected |-> selected, usable |-> usable, pairs |-> pairs,
   bytes |-> (cp1 :> b1 @@ cp2 :> b2)]
SomeAnswers ==
  {Of({cp1}, {cp1, cp2}, <<cp1, cp2>>, 0, 2), Of({}, {cp1, cp2}, <<cp1, cp2>>, 2, 1),
   Of({cp2}, {}, <<cp1>>, 1, 0)}
===========================================================================
