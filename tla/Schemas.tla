-------------------------------- MODULE Schemas --------------------------------
(***************************************************************************)
(* Message schemas: schema/renderer.cpp renders the definition of a ROS    *)
(* type with everything it depends on, and schema/manager.cpp defines it   *)
(* once per room for outbound tracks and compares it for inbound ones.     *)
(*                                                                         *)
(*   Callers  threads in ensureSchemaDefined() of the publishing portal or *)
(*            in validateInboundSchema() of the receiving one              *)
(*                                                                         *)
(* External: the installed definition files, which may be replaced while   *)
(* the portal runs, and the room that keeps the schemas.  A hash stands    *)
(* for the text it is taken of.                                            *)
(***************************************************************************)
EXTENDS Naturals, Sequences, FiniteSets, Functions, SequencesExt

CONSTANTS Callers,
          Types,      \* ROS types, numbered in the order of their names
          MaxDepth,   \* kMaxDefinitionDepth
          Scenarios,  \* [install, req]: the files of both portals, what is asked
          Faults      \* external: what may go wrong in a behaviour

Formats == {"ros2msg", "ros2idl"}
Encodings == Formats \cup {"jsonschema"}
Portals == {"out", "in"}

Files == UNION {[D -> [deps : SUBSET Types, rev : 0..1]] : D \in SUBSET Types}

(* A definition has the name it is referred to by: the caller, and an .idl *)
(* file that includes it, give it in full ("pkg/msg/T"), a field of a .msg *)
(* file in short ("pkg/T").                                                *)
Names == [type : Types, form : {"full", "short"}]
Root(t) == [type |-> t, form |-> "full"]
Reference(t, enc) == [type |-> t, form |-> IF enc = "ros2msg" THEN "short" ELSE "full"]

RequestType ==
  [side : {"out"}, type : Types, enc : Encodings] \cup
  [side : {"in"}, graph : BoundedSeq(Types, 2), name : Types,
   enc : Encodings \cup {"none"}, frame : {"cdr", "json", "none"}]

ASSUME TypesAssumption == Types \subseteq Nat /\ IsFiniteSet(Types) /\ MaxDepth \in Nat \ {0}
ASSUME ScenariosAssumption ==
  Scenarios \subseteq [install : [Portals -> [Encodings -> Files]], req : [Callers -> RequestType]]
ASSUME FaultsAssumption == Faults \subseteq {"refuse", "replace", "fetch"}

VARIABLES
  install,   \* external: definition files and type support of each portal
  req,       \* what each caller asks for
  pc,        \* what each caller does next
  walk,      \* the call stack of appendDefinition() and what it has seen
  local,     \* the schema a caller has rendered
  remote,    \* the schema a caller has fetched
  result,    \* what a caller returned
  defined,   \* defined_schemas_
  room       \* external: the schemas the room keeps

renderVars == <<walk, local>>
vars == <<install, req, pc, renderVars, remote, result, defined, room>>

Nothing == [enc |-> "none", parts |-> <<>>]
Schema == [enc : Encodings \cup {"none"}, parts : Seq(Names \X (0..1))]
Walk == [enc : Formats, todo : Seq([name : Names, depth : 0..MaxDepth]),
         seen : SUBSET Names, parts : Seq(Names \X (0..1))]

-----------------------------------------------------------------------------
TypeOK ==
  /\ install \in [Portals -> [Encodings -> Files]]
  /\ req \in [Callers -> RequestType]
  /\ pc \in [Callers -> {"render", "rendered", "enter", "waiting", "define", "accepted",
                         "refused", "check", "fetch", "done"}]
  /\ walk \in [Callers -> Walk]
  /\ local \in [Callers -> Schema] /\ remote \in [Callers -> Schema]
  /\ result \in [Callers -> {"none", "ok", "failed"}]
  /\ \A k \in DOMAIN defined : defined[k] \in [text : Schema, done : BOOLEAN]
  /\ \A k \in DOMAIN room : room[k] \in Schema

(* The type of an inbound track: what the topic carries here, the          *)
(* advertised type among several; the advertised one of an unknown topic.  *)
ResolveInboundRosTopicType(r) ==
  IF r.graph = <<>> \/ (r.enc # "none" /\ r.name \in ToSet(r.graph)) THEN r.name
  ELSE Head(r.graph)

Resolves(r) == r.graph # <<>> \/ r.enc # "none"
TopicType(c) == IF req[c].side = "out" THEN req[c].type ELSE ResolveInboundRosTopicType(req[c])

StartWalk(c, enc) ==
  [enc |-> enc, todo |-> <<[name |-> Root(TopicType(c)), depth |-> MaxDepth]>>,
   seen |-> {}, parts |-> <<>>]

Init ==
  /\ \E s \in Scenarios : install = s.install /\ req = s.req
  /\ pc = [c \in Callers |-> IF req[c].side = "out" THEN "render" ELSE "check"]
  /\ walk = [c \in Callers |-> StartWalk(c, "ros2msg")]
  /\ local = [c \in Callers |-> Nothing]
  /\ remote = [c \in Callers |-> Nothing]
  /\ result = [c \in Callers |-> "none"]
  /\ defined = <<>>
  /\ room = <<>>

Goes(c, step) == pc' = [pc EXCEPT ![c] = step] /\ UNCHANGED result
Returns(c, what) ==
  /\ pc' = [pc EXCEPT ![c] = "done"]
  /\ result' = [result EXCEPT ![c] = what]

(* external: a package is upgraded under the running portal *)
Replace(t) ==
  /\ "replace" \in Faults /\ t \in DOMAIN install["out"]["ros2msg"]
  /\ install["out"]["ros2msg"][t].rev = 0
  /\ install' = [install EXCEPT !["out"]["ros2msg"][t].rev = 1]
  /\ UNCHANGED <<req, pc, renderVars, remote, result, defined, room>>

-----------------------------------------------------------------------------
(* renderRosMessageSchema(), a file at a time; renderJsonSchema() *)

FilesOf(c) == install[req[c].side]
AsJson(c) == req[c].side = "out" /\ req[c].enc = "jsonschema"

Rendered(c, schema) ==
  /\ local' = [local EXCEPT ![c] = schema]
  /\ Goes(c, "rendered")

(* a JSON schema is made from the type support, which is complete *)
RenderJson(c) ==
  /\ pc[c] = "render" /\ AsJson(c)
  /\ LET types == FilesOf(c)["jsonschema"]
         t == TopicType(c)
     IN Rendered(c, IF t \in DOMAIN types
                    THEN [enc |-> "jsonschema", parts |-> <<<<Root(t), types[t].rev>>>>] ELSE Nothing)
  /\ UNCHANGED <<install, req, walk, remote, defined, room>>

(* the names of a set in their order *)
InOrder(S) ==
  CHOOSE s \in [1..Cardinality(S) -> S] : \A i, j \in DOMAIN s : i < j => s[i] < s[j]

(* mutant: what was seen is not remembered *)
AppendedUnseen(w, files) ==
  LET item == Head(w.todo)
      file == files[item.name.type]
      deps == InOrder(file.deps)
      calls == [i \in DOMAIN deps |->
                  [name |-> Reference(deps[i], w.enc), depth |-> item.depth - 1]]
  IN [w EXCEPT !.todo = calls \o Tail(@), !.parts = Append(@, <<item.name, file.rev>>)]

(* Depth first, dependencies in the order of their names.  What was seen   *)
(* are names: a .msg file that refers to the root has it appended again.   *)
Appended(w, files) ==
  LET item == Head(w.todo)
      file == files[item.name.type]
      deps == InOrder(file.deps)
      calls == [i \in DOMAIN deps |->
                  [name |-> Reference(deps[i], w.enc), depth |-> item.depth - 1]]
  IN [w EXCEPT !.seen = @ \cup {item.name},
               !.todo = calls \o Tail(@),
               !.parts = Append(@, <<item.name, file.rev>>)]

AppendDefinition(c) ==
  LET w == walk[c]
      item == Head(w.todo)
  IN /\ item.depth > 0 /\ item.name.type \in DOMAIN FilesOf(c)[w.enc]
     /\ walk' = [walk EXCEPT ![c] = Appended(w, FilesOf(c)[w.enc])]
     /\ UNCHANGED <<pc, result, local>>

(* an exception: from .msg to .idl files, and from these to the caller *)
DefinitionThrows(c) ==
  LET w == walk[c]
      item == Head(w.todo)
  IN /\ item.depth = 0 \/ item.name.type \notin DOMAIN FilesOf(c)[w.enc]
     /\ \/ /\ w.enc = "ros2msg"
           /\ walk' = [walk EXCEPT ![c] = StartWalk(c, "ros2idl")]
           /\ UNCHANGED <<pc, result, local>>
        \/ w.enc = "ros2idl" /\ Rendered(c, Nothing) /\ UNCHANGED walk

RenderDefinition(c) ==
  /\ pc[c] = "render" /\ ~AsJson(c)
  /\ IF walk[c].todo = <<>>
     THEN Rendered(c, [enc |-> walk[c].enc, parts |-> walk[c].parts]) /\ UNCHANGED walk
     ELSE IF Head(walk[c].todo).name \in walk[c].seen
     THEN walk' = [walk EXCEPT ![c].todo = Tail(@)] /\ UNCHANGED <<pc, result, local>>
     ELSE AppendDefinition(c) \/ DefinitionThrows(c)
  /\ UNCHANGED <<install, req, remote, defined, room>>

-----------------------------------------------------------------------------
(* ensureSchemaDefined() *)

Key(c) == <<local[c].enc, TopicType(c)>>

(* a ros2idl request must render as such, a ros2msg request takes either *)
Mismatched(c) == req[c].enc = "ros2idl" /\ local[c].enc # "ros2idl"

OutboundRendered(c) ==
  /\ pc[c] = "rendered" /\ req[c].side = "out"
  /\ IF local[c] = Nothing \/ Mismatched(c) THEN Returns(c, "failed") ELSE Goes(c, "enter")
  /\ UNCHANGED <<install, req, renderVars, remote, defined, room>>

With(map, key, value) == [k \in DOMAIN map \cup {key} |-> IF k = key THEN value ELSE map[k]]

(* under defined_schemas_mutex_; a caller that finds the same text being   *)
(* defined waits, and looks again when it is woken                         *)
Enter(c) ==
  /\ pc[c] = "enter"
  /\ \/ /\ Key(c) \notin DOMAIN defined
        /\ defined' = With(defined, Key(c), [text |-> local[c], done |-> FALSE])
        /\ Goes(c, "define")
     \/ /\ Key(c) \in DOMAIN defined
        /\ IF defined[Key(c)].text # local[c] THEN Returns(c, "failed")
           ELSE IF defined[Key(c)].done THEN Returns(c, "ok")
           ELSE Goes(c, "waiting")
        /\ UNCHANGED defined
  /\ UNCHANGED <<install, req, renderVars, remote, room>>

(* outside the lock: the room takes the schema, refuses it or throws *)
Define(c) ==
  /\ pc[c] = "define"
  /\ \/ room' = With(room, Key(c), local[c]) /\ Goes(c, "accepted")
     \/ "refuse" \in Faults /\ Goes(c, "refused") /\ UNCHANGED room
  /\ UNCHANGED <<install, req, renderVars, remote, defined>>

(* mutant: notify_all() forgotten *)
WakeNobody(p) == p

WakeAll(p) == [d \in Callers |-> IF p[d] = "waiting" THEN "enter" ELSE p[d]]

(* mutant: the entry of a refused schema stays *)
RefusedKeepsEntry(c) ==
  /\ pc[c] = "refused"
  /\ defined' = [defined EXCEPT ![Key(c)].done = TRUE]
  /\ pc' = WakeAll([pc EXCEPT ![c] = "done"])
  /\ result' = [result EXCEPT ![c] = "failed"]
  /\ UNCHANGED <<install, req, renderVars, remote, room>>

Accepted(c) ==
  /\ pc[c] = "accepted"
  /\ defined' = [defined EXCEPT ![Key(c)].done = TRUE]
  /\ pc' = WakeAll([pc EXCEPT ![c] = "done"])
  /\ result' = [result EXCEPT ![c] = "ok"]
  /\ UNCHANGED <<install, req, renderVars, remote, room>>

Refused(c) ==
  /\ pc[c] = "refused"
  /\ defined' = Restrict(defined, DOMAIN defined \ {Key(c)})
  /\ pc' = WakeAll([pc EXCEPT ![c] = "done"])
  /\ result' = [result EXCEPT ![c] = "failed"]
  /\ UNCHANGED <<install, req, renderVars, remote, room>>

-----------------------------------------------------------------------------
(* validateInboundSchema() *)

Id(c) == <<req[c].enc, req[c].name>>

WellFormed(c) ==
  /\ Resolves(req[c]) /\ req[c].frame # "none" /\ req[c].enc # "none"
  /\ req[c].name = TopicType(c)
  /\ req[c].enc = "jsonschema" => req[c].frame = "json"

(* a JSON track is not compared, but needs a definition to read it with *)
CheckTrack(c) ==
  /\ pc[c] = "check"
  /\ \/ ~WellFormed(c) /\ Returns(c, "failed")
     \/ WellFormed(c) /\ Goes(c, IF req[c].enc = "jsonschema" THEN "render" ELSE "fetch")
  /\ UNCHANGED <<install, req, renderVars, remote, defined, room>>

Fetch(c) ==
  /\ pc[c] = "fetch"
  /\ \/ /\ Id(c) \in DOMAIN room
        /\ remote' = [remote EXCEPT ![c] = room[Id(c)]]
        /\ Goes(c, "render")
     \/ /\ Id(c) \notin DOMAIN room \/ "fetch" \in Faults
        /\ Returns(c, "failed") /\ UNCHANGED remote
  /\ UNCHANGED <<install, req, renderVars, defined, room>>

(* mutant: definitions compared by their length *)
MatchesLength(c) ==
  local[c].enc = req[c].enc /\ Len(local[c].parts) = Len(remote[c].parts)

Matches(c) == local[c].enc = req[c].enc /\ local[c].parts = remote[c].parts

InboundRendered(c) ==
  /\ pc[c] = "rendered" /\ req[c].side = "in"
  /\ Returns(c, IF local[c] # Nothing /\ (req[c].enc = "jsonschema" \/ Matches(c))
                THEN "ok" ELSE "failed")
  /\ UNCHANGED <<install, req, renderVars, remote, defined, room>>

-----------------------------------------------------------------------------
Step(c) ==
  \/ RenderJson(c) \/ RenderDefinition(c) \/ OutboundRendered(c)
  \/ Enter(c) \/ Define(c) \/ Accepted(c) \/ Refused(c)
  \/ CheckTrack(c) \/ Fetch(c) \/ InboundRendered(c)

(* nobody can run: CallersReturn asks that nobody waits then *)
Idle == (\A c \in Callers : pc[c] \in {"waiting", "done"}) /\ UNCHANGED vars

Next ==
  \/ \E c \in Callers : Step(c)
  \/ \E t \in Types : Replace(t)
  \/ Idle

Spec == Init /\ [][Next]_vars

(* every caller runs on; the room answers every request it is sent *)
FairSpec == Spec /\ \A c \in Callers : WF_vars(Step(c))

-----------------------------------------------------------------------------
(* The types a type is made of: the least set with it that is closed.      *)
Closed(files, S) == \A u \in S \cap DOMAIN files : files[u].deps \subseteq S
Reachable(files, t) ==
  CHOOSE S \in {R \in SUBSET Types : t \in R /\ Closed(files, R)} :
    \A R \in SUBSET Types : t \in R /\ Closed(files, R) => S \subseteq R

(* What the definitions a type is made of refer to, the type itself if it  *)
(* is part of a circle; and the names all these definitions go by.         *)
Below(files, t) == UNION {files[u].deps : u \in Reachable(files, t) \cap DOMAIN files}
NamesOf(files, t, enc) == {Root(t)} \cup {Reference(u, enc) : u \in Below(files, t)}

(* renderRosMessageSchema() gives everything a type is made of, once by    *)
(* each name it goes by (so the root of a circle of .msg files twice),     *)
(* also when definitions refer to each other in a circle or are replaced   *)
(* while they are read; it gives up only when a definition is missing or   *)
(* the limit of the depth might be met.                                    *)
RenderIsClosure ==
  \A c \in Callers : pc[c] = "rendered" /\ ~AsJson(c) =>
    LET files(f) == FilesOf(c)[f]
        names(f) == NamesOf(files(f), TopicType(c), f)
        enc == local[c].enc
        parts == local[c].parts
    IN IF local[c] # Nothing
       THEN /\ {p[1] : p \in ToSet(parts)} = names(enc)
            /\ Len(parts) = Cardinality(names(enc))
            /\ \A p \in ToSet(parts) : p[2] <= files(enc)[p[1].type].rev
       ELSE \A f \in Formats :
              Reachable(files(f), TopicType(c)) \subseteq DOMAIN files(f) =>
                Cardinality(names(f)) > MaxDepth

(* Whoever gets an ID from ensureSchemaDefined() finds the very schema it  *)
(* rendered under it in the room, although another thread defined it, a    *)
(* first attempt failed or the files have changed since.                   *)
IdsAreDefined ==
  \A c \in Callers : req[c].side = "out" /\ result[c] = "ok" =>
    Key(c) \in DOMAIN room /\ room[Key(c)] = local[c]

(* An inbound track is taken only if both portals know the same definition *)
(* of its type and of everything it is made of, and if that is the type it *)
(* was announced with and one its topic carries.                           *)
AcceptedIsShared ==
  \A c \in Callers :
    req[c].side = "in" /\ result[c] = "ok" /\ req[c].enc \in Formats =>
      LET files == install["in"][req[c].enc]
          type == req[c].name
      IN /\ req[c].graph = <<>> \/ type \in ToSet(req[c].graph)
         /\ \E d \in Callers :
              /\ req[d].side = "out" /\ req[d].type = type
              /\ ToSet(local[d].parts) =
                   {<<n, files[n.type].rev>> : n \in NamesOf(files, type, req[c].enc)}

(* Nobody waits forever for a schema that another caller was defining.     *)
CallersReturn == \A c \in Callers : <>(pc[c] = "done")
==============================================================================
