--------------------------- MODULE MCGraphDiscovery ---------------------------
(* GraphDiscovery on one or two topics. *)
EXTENDS GraphDiscovery

CONSTANTS t1, t2

SecondTopic == {t2}
OneTopic == {t1}
TwoTopics == {t1, t2}
Nobody == {}
FirstHeard == {t1}

NoFaults == {}
AllFaults == {"recover", "end", "create", "start", "throw"}
SessionEnds == {"end"}
SdkRecovers == {"recover"}
EndsAndStartFails == {"end", "start"}
==============================================================================
