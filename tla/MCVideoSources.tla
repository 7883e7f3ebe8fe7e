------------------------- MODULE MCVideoSources -------------------------
(* VideoSources on two sources, of each type and with a bad configuration. *)
EXTENDS VideoSources

Src(type, fields, positive) == [type |-> type, fields |-> fields, positive |-> positive]
SomeSources ==
  {Src("pattern", {"pattern"}, TRUE), Src("clock", {}, TRUE),
   Src("gstreamer", {"pipeline", "codec", "resolution"}, TRUE),
   Src("clock", {"clock"}, FALSE), Src("pattern", {"clock"}, TRUE),
   Src("gstreamer", {"resolution"}, TRUE)}
AllFaults == {"create", "start", "join", "stop", "wait"}
=========================================================================
