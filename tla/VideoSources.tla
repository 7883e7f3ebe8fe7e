------------------------------ MODULE VideoSources ------------------------------
(***************************************************************************)
(* VideoSourceManager: the configured capture sources of a room session.   *)
(*                                                                         *)
(* The owner thread runs the constructor, which creates, publishes and     *)
(* starts one source after the other, and the destructor.  The diagnostics *)
(* updater runs the task of a source at any time in between, under the     *)
(* lock that adding and removing a task take as well.  The two share a     *)
(* CaptureCompletion: the future of the capture's result, read once.       *)
(*                                                                         *)
(* External: the SDK's capture of a source, which may fail to start or to  *)
(* stop, end by itself, or take longer to stop than is waited for.         *)
(*                                                                         *)
(* The names every specification has are prefixed, so that a module may    *)
(* extend this one beside another.                                         *)
(***************************************************************************)
EXTENDS Integers, FiniteSets

CONSTANTS Count,         \* sources configured
          Configured,    \* what may be configured for a source
          CaptureFaults  \* what may fail

Types == {"pattern", "clock", "gstreamer"}
GstreamerOnly == {"pipeline", "codec", "resolution", "rate_control"}
Source == [type : Types, fields : SUBSET (GstreamerOnly \cup {"clock", "pattern"}),
           positive : BOOLEAN]  \* the sizes and rates among its fields

ASSUME SourcesAssumption ==
  /\ Count \in Nat \ {0} /\ Configured \subseteq Source
  /\ CaptureFaults \subseteq {"create", "start", "join", "stop", "wait"}

VARIABLES
  source,      \* the configuration
  owner,       \* what the owner thread is at, and with which source
  session,     \* sources with a session
  kind,        \* VideoSourceState::kind
  tasks,       \* diagnostic tasks that are registered
  polling,     \* the task the updater runs, and the result it has got
  capture,     \* external: the SDK's capture
  completion,  \* CaptureCompletion::result_
  announced,   \* sources whose track was published
  asked,       \* how often each capture was asked to stop
  withdrawn    \* ... and its track unpublished

sourcesVars == <<source, owner, session, kind, tasks, polling, capture, completion,
                 announced, asked, withdrawn>>
tracks == <<announced, asked, withdrawn>>

Sources == 1..Count
Ended == {"end_of_stream", "stopped", "error"}
NoPoll == [of |-> 0, result |-> "none"]
At(step, s) == [at |-> step, of |-> s]

Building == {"create", "start", "cleanup", "add"}
Stopping == {"stop", "wait", "unpublish"}
Walking == Building \cup {"remove"} \cup Stopping
Owners == [at : Walking, of : Sources] \cup {At("running", 0), At("destroyed", 0)}

SourcesTypeOK ==
  /\ source \in [Sources -> Configured]
  /\ owner \in Owners
  /\ session \subseteq Sources /\ tasks \subseteq Sources
  /\ announced \subseteq Sources
  /\ kind \in [Sources -> {"starting", "running"} \cup Ended]
  /\ polling \in [of : Sources, result : {"none"} \cup Ended] \cup {NoPoll}
  /\ capture \in [Sources -> {"none", "idle", "capturing", "stopping"} \cup Ended]
  /\ completion \in [Sources -> {"empty", "pending"}]
  /\ asked \in [Sources -> Nat] /\ withdrawn \in [Sources -> Nat]

SourcesInit ==
  /\ source \in [Sources -> Configured]
  /\ owner = At("create", 1)
  /\ session = {} /\ tasks = {} /\ announced = {}
  /\ kind = [s \in Sources |-> "starting"]
  /\ polling = NoPoll
  /\ capture = [s \in Sources |-> "none"]
  /\ completion = [s \in Sources |-> "empty"]
  /\ asked = [s \in Sources |-> 0]
  /\ withdrawn = [s \in Sources |-> 0]

-----------------------------------------------------------------------------
(* Which configurations are converted for the SDK; others throw *)

ToGstreamerConfig(src) ==
  /\ src.fields \cap {"clock", "pattern"} = {} /\ "pipeline" \in src.fields
  /\ "resolution" \in src.fields => src.positive
ToPatternConfig(src) ==
  /\ src.fields \cap GstreamerOnly = {} /\ "clock" \notin src.fields
  /\ "pattern" \in src.fields => src.positive
ToClockConfig(src) ==
  /\ src.fields \cap GstreamerOnly = {} /\ "pattern" \notin src.fields
  /\ "clock" \in src.fields => src.positive

CreateCaptureSource(src) ==
  \/ src.type = "gstreamer" /\ ToGstreamerConfig(src)
  \/ src.type = "pattern" /\ ToPatternConfig(src)
  \/ src.type = "clock" /\ ToClockConfig(src)

-----------------------------------------------------------------------------
(* The constructor, for the source at hand *)

s0 == owner.of
MarkError == kind' = [kind EXCEPT ![s0] = "error"]

(* the room is gone, the configuration is refused, or the SDK fails *)
CreateFails ==
  /\ owner.at = "create"
  /\ "create" \in CaptureFaults \/ ~CreateCaptureSource(source[s0])
  /\ MarkError
  /\ owner' = At("add", s0)
  /\ UNCHANGED <<source, session, tasks, polling, capture, completion, tracks>>

CreateAndPublish ==
  /\ owner.at = "create"
  /\ CreateCaptureSource(source[s0])
  /\ session' = session \cup {s0}
  /\ announced' = announced \cup {s0}
  /\ capture' = [capture EXCEPT ![s0] = "idle"]
  /\ kind' = [kind EXCEPT ![s0] = "running"]
  /\ owner' = At("start", s0)
  /\ UNCHANGED <<source, tasks, polling, completion, asked, withdrawn>>

(* the result is asked for after the start, which may throw *)
Start ==
  /\ owner.at = "start"
  /\ capture' = [capture EXCEPT ![s0] = "capturing"]
  /\ \/ /\ completion' = [completion EXCEPT ![s0] = "pending"]
        /\ owner' = At("add", s0)
     \/ /\ "join" \in CaptureFaults
        /\ owner' = At("cleanup", s0)
        /\ UNCHANGED completion
  /\ UNCHANGED <<source, session, kind, tasks, polling, tracks>>

StartFails ==
  /\ owner.at = "start" /\ "start" \in CaptureFaults
  /\ owner' = At("cleanup", s0)
  /\ UNCHANGED <<source, session, kind, tasks, polling, capture, completion, tracks>>

(* CaptureSource::stop(), which may be refused *)
Answers == IF "stop" \in CaptureFaults THEN {"accepted", "refused"} ELSE {"accepted"}
Told(state) ==
  IF state = "capturing" THEN "stopping" ELSE IF state = "idle" THEN "stopped" ELSE state
AskToStop(answer) ==
  /\ asked' = [asked EXCEPT ![s0] = @ + 1]
  /\ capture' = IF answer = "accepted" THEN [capture EXCEPT ![s0] = Told(@)] ELSE capture

(* may throw, and is not tried again *)
Unpublish == withdrawn' = [withdrawn EXCEPT ![s0] = @ + 1]

(* mutant: a capture that cannot be stopped is left on the room *)
CleanupFailedSessionInOneTry ==
  /\ owner.at = "cleanup"
  /\ \E answer \in Answers :
       /\ AskToStop(answer)
       /\ IF answer = "accepted" THEN Unpublish ELSE UNCHANGED withdrawn
  /\ session' = session \ {s0}
  /\ MarkError
  /\ owner' = At("add", s0)
  /\ UNCHANGED <<source, tasks, polling, completion, announced>>

(* Both are tried, whichever throws; there is no result to wait for. *)
CleanupFailedSession ==
  /\ owner.at = "cleanup"
  /\ (\E answer \in Answers : AskToStop(answer)) /\ Unpublish
  /\ session' = session \ {s0}
  /\ MarkError
  /\ owner' = At("add", s0)
  /\ UNCHANGED <<source, tasks, polling, completion, announced>>

AddTask ==
  /\ owner.at = "add" /\ polling = NoPoll
  /\ tasks' = tasks \cup {s0}
  /\ owner' = IF s0 < Count THEN At("create", s0 + 1) ELSE At("running", 0)
  /\ UNCHANGED <<source, session, kind, polling, capture, completion, tracks>>

-----------------------------------------------------------------------------
(* The capture, and the task that reports it *)

CaptureEnds(s) ==
  /\ capture[s] \in {"capturing", "stopping"}
  /\ \E how \in IF capture[s] = "stopping" THEN {"stopped", "error"} ELSE {"end_of_stream", "error"} :
       capture' = [capture EXCEPT ![s] = how]
  /\ UNCHANGED <<source, owner, session, kind, tasks, polling, completion, tracks>>

(* mutant: the result is taken whether it is there or not *)
PollResultTakes(s) ==
  /\ s \in tasks /\ polling = NoPoll
  /\ polling' = [of |-> s, result |-> IF capture[s] \in Ended /\ completion[s] = "pending"
                                      THEN capture[s] ELSE "none"]
  /\ completion' = [completion EXCEPT ![s] = "empty"]
  /\ UNCHANGED <<source, owner, session, kind, tasks, capture, tracks>>

(* CaptureCompletion::poll() *)
PollResult(s) ==
  /\ s \in tasks /\ polling = NoPoll
  /\ LET ready == s \in session /\ completion[s] = "pending" /\ capture[s] \in Ended
     IN /\ polling' = [of |-> s, result |-> IF ready THEN capture[s] ELSE "none"]
        /\ completion' = [completion EXCEPT ![s] = IF ready THEN "empty" ELSE @]
  /\ UNCHANGED <<source, owner, session, kind, tasks, capture, tracks>>

RecordFinished ==
  /\ polling # NoPoll
  /\ kind' = IF polling.result = "none" THEN kind
             ELSE [kind EXCEPT ![polling.of] = polling.result]
  /\ polling' = NoPoll
  /\ UNCHANGED <<source, owner, session, tasks, capture, completion, tracks>>

-----------------------------------------------------------------------------
(* The destructor: the tasks go first, then the sources in reverse *)

Destroy ==
  /\ owner.at = "running"
  /\ owner' = At("remove", 1)
  /\ UNCHANGED <<source, session, kind, tasks, polling, capture, completion, tracks>>

RemoveTask ==
  /\ owner.at = "remove" /\ polling = NoPoll
  /\ tasks' = tasks \ {s0}
  /\ owner' = IF s0 < Count THEN At("remove", s0 + 1) ELSE At("stop", Count)
  /\ UNCHANGED <<source, session, kind, polling, capture, completion, tracks>>

NextStop(s) == IF s > 1 THEN At("stop", s - 1) ELSE At("destroyed", 0)

(* a source that never had, or lost, its session is passed over *)
Stop ==
  /\ owner.at = "stop"
  /\ \/ s0 \notin session /\ owner' = NextStop(s0) /\ UNCHANGED <<capture, asked>>
     \/ /\ s0 \in session
        /\ \E answer \in Answers :
             /\ AskToStop(answer)
             /\ owner' = At(IF answer = "accepted" THEN "wait" ELSE "unpublish", s0)
  /\ UNCHANGED <<source, session, kind, tasks, polling, completion, announced, withdrawn>>

(* CaptureCompletion::wait(), up to five seconds *)
Wait ==
  /\ owner.at = "wait"
  /\ completion[s0] = "empty" \/ capture[s0] \in Ended \/ "wait" \in CaptureFaults
  /\ completion' = [completion EXCEPT ![s0] = "empty"]
  /\ owner' = At("unpublish", s0)
  /\ UNCHANGED <<source, session, kind, tasks, polling, capture, tracks>>

UnpublishTrack ==
  /\ owner.at = "unpublish"
  /\ Unpublish
  /\ owner' = NextStop(s0)
  /\ UNCHANGED <<source, session, kind, tasks, polling, capture, completion, announced, asked>>

Destroyed == owner.at = "destroyed" /\ UNCHANGED sourcesVars

-----------------------------------------------------------------------------
OwnerStep ==
  \/ CreateFails \/ CreateAndPublish \/ Start \/ StartFails
  \/ CleanupFailedSession \/ AddTask
  \/ RemoveTask \/ Stop \/ Wait \/ UnpublishTrack

SourcesNext ==
  \/ OwnerStep \/ Destroy \/ Destroyed
  \/ \E s \in Sources : CaptureEnds(s) \/ PollResult(s)
  \/ RecordFinished

SourcesSpec == SourcesInit /\ [][SourcesNext]_sourcesVars

(* The owner returns from its calls, the updater keeps running every task, *)
(* a capture that is asked to stop ends.  Nobody has to destroy the        *)
(* manager, and a capture may go on for ever.                              *)
SourcesFairness ==
  /\ WF_sourcesVars(OwnerStep) /\ WF_sourcesVars(RecordFinished)
  /\ \A s \in Sources :
       SF_sourcesVars(PollResult(s)) /\ WF_sourcesVars(capture[s] = "stopping" /\ CaptureEnds(s))

SourcesFairSpec == SourcesSpec /\ SourcesFairness

-----------------------------------------------------------------------------
(* When the destructor has returned, every track that was published, also  *)
(* by a source that failed later, has been unpublished once, after its     *)
(* capture was asked to stop once, whatever failed on the way.             *)
TracksWithdrawn ==
  /\ \A s \in Sources : withdrawn[s] <= asked[s] /\ asked[s] <= 1
  /\ owner.at = "destroyed" =>
       \A s \in Sources : withdrawn[s] = IF s \in announced THEN 1 ELSE 0

(* A capture that ends while its manager is there is reported as it ended, *)
(* although its result can be read only once and its end may fall between  *)
(* any two steps of the constructor (video_source_manager.hpp, line 99:    *)
(* "Poll once without blocking; return no value [...] after its terminal   *)
(* result has been consumed").                                             *)
EndIsReported ==
  \A s \in Sources : \A how \in Ended :
    <>[](owner.at = "running" /\ s \in session /\ capture[s] = how) => <>[](kind[s] = how)
==============================================================================
