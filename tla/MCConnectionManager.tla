------------------------- MODULE MCConnectionManager -------------------------
(* ConnectionManager on small thread sets. *)
EXTENDS ConnectionManager

CONSTANTS p1, p2, events, track1, track2, shutdown

(* supported layout: a single-threaded executor *)
OnePoller == {p1}
(* ros_threads > 1: overlapping runs of the reentrant timer *)
TwoPollers == {p1, p2}
(* track callbacks on threads of their own *)
OwnThreads == {track1, track2}
OneThread == {track1}
(* every room event on the SDK's event thread *)
SharedThread == {events}
==============================================================================
