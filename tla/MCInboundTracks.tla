---------------------------- MODULE MCInboundTracks ----------------------------
(* InboundTracks with one track of each kind. *)
EXTENDS InboundTracks

CONSTANTS d1, v1

OneData == {d1}
OneVideo == {v1}
NoTracks == {}
OneTimer == {1}
NoTimers == {}
TwoTimers == {1, 2}

NoFaults == {}
LiveFaults == {"subscribe", "start", "enable"}
AllFaults == {"redeliver", "subscribe", "reader", "start", "enable"}
==============================================================================
