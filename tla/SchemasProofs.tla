---------------------------- MODULE SchemasProofs ----------------------------
(***************************************************************************)
(* Machine-checked theorems about Schemas, for every set of callers and of *)
(* types, whatever is installed, every depth limit and all faults.         *)
(***************************************************************************)
EXTENDS Schemas, FiniteSetTheorems, SequenceTheorems, WellFoundedInduction, TLAPS

(* The parts of a rendering: each name that was seen once, its file of a   *)
(* revision that was installed; of the one that is installed if nothing    *)
(* replaces the files ("exact").                                           *)
PartsOf(files, exact, parts, seen) ==
  /\ Len(parts) = Cardinality(seen)
  /\ \A n \in seen : n.type \in DOMAIN files
  /\ \A i \in 1..Len(parts) : /\ parts[i][1] \in seen
                              /\ parts[i][2] \in 0..files[parts[i][1].type].rev
                              /\ exact => parts[i][2] = files[parts[i][1].type].rev
  /\ \A u \in seen : \E i \in 1..Len(parts) : parts[i][1] = u

(* A walk has seen, or has still to do, the name it started from and those *)
(* that the seen definitions refer to, and none that the type's            *)
(* definitions do not go by; how deep a call is, the number of seen names  *)
(* tells.                                                                  *)
TodoNames(w) == {w.todo[i].name : i \in 1..Len(w.todo)}
References(files, t, enc) == {Reference(u, enc) : u \in files[t].deps}

WalkOf(files, t, w) ==
  /\ Root(t) \in w.seen \cup TodoNames(w)
  /\ \A n \in w.seen : References(files, n.type, w.enc) \subseteq w.seen \cup TodoNames(w)
  /\ w.seen \cup TodoNames(w) \subseteq NamesOf(files, t, w.enc)
  /\ \A i \in 1..Len(w.todo) : Cardinality(w.seen) + w.todo[i].depth >= MaxDepth

GaveUp(files, t, enc) ==
  Reachable(files, t) \subseteq DOMAIN files => Cardinality(NamesOf(files, t, enc)) > MaxDepth

Exact(c) == req[c].side = "in"   \* only files of the publishing portal are replaced

WalkInv ==
  \A c \in Callers : pc[c] \in {"check", "fetch", "render"} /\ ~AsJson(c) =>
    LET w == walk[c]
        files == FilesOf(c)[w.enc]
    IN /\ WalkOf(files, TopicType(c), w)
       /\ PartsOf(files, Exact(c), w.parts, w.seen)
       /\ w.enc = "ros2idl" => GaveUp(FilesOf(c)["ros2msg"], TopicType(c), "ros2msg")

(* A rendered definition stays complete, also while files are replaced.    *)
LocalInv ==
  \A c \in Callers : ~AsJson(c) =>
    /\ local[c] # Nothing =>
         LET files == FilesOf(c)[local[c].enc]
         IN /\ local[c].enc \in Formats
            /\ PartsOf(files, Exact(c), local[c].parts,
                       NamesOf(files, TopicType(c), local[c].enc))
    /\ pc[c] = "rendered" /\ local[c] = Nothing =>
         \A f \in Formats : GaveUp(FilesOf(c)[f], TopicType(c), f)

(* An entry of defined_schemas_ that is done is in the room, one that is   *)
(* not done belongs to the caller that defines it, and nobody else defines *)
(* the same schema.                                                        *)
Defining == {"define", "accepted", "refused"}

DefinedInv ==
  /\ \A k \in DOMAIN defined : defined[k].done => k \in DOMAIN room /\ room[k] = defined[k].text
  /\ \A c \in Callers : pc[c] \in Defining =>
       Key(c) \in DOMAIN defined /\ defined[Key(c)].text = local[c] /\ ~defined[Key(c)].done
  /\ \A c, d \in Callers : pc[c] \in Defining /\ pc[d] \in Defining /\ Key(c) = Key(d) => c = d
  /\ \A c \in Callers : pc[c] = "accepted" => Key(c) \in DOMAIN room /\ room[Key(c)] = local[c]
  /\ \A c \in Callers : result[c] # "none" => pc[c] = "done"
  /\ \A c \in Callers : req[c].side = "out" /\ result[c] = "ok" =>
       Key(c) \in DOMAIN defined /\ defined[Key(c)].text = local[c] /\ defined[Key(c)].done

(* What the room keeps, and what an inbound track is compared with, a      *)
(* caller of the publishing portal has rendered for that very type.        *)
Renders(id, schema) ==
  \E d \in Callers : /\ req[d].side = "out" /\ pc[d] # "render"
                     /\ Key(d) = id /\ local[d] = schema

SideInv ==
  \A c \in Callers :
    /\ req[c].side = "out" => pc[c] \notin {"check", "fetch"}
    /\ req[c].side = "in" => pc[c] \notin {"enter", "waiting"} \cup Defining

RoomInv ==
  /\ \A k \in DOMAIN room : Renders(k, room[k])
  /\ \A c \in Callers : req[c].side = "in" /\ req[c].enc \in Formats =>
       /\ pc[c] \in {"fetch", "render", "rendered"} \/ result[c] = "ok" => WellFormed(c)
       /\ pc[c] \in {"render", "rendered"} \/ result[c] = "ok" => Renders(Id(c), remote[c])
       /\ result[c] = "ok" => local[c] # Nothing /\ Matches(c)

IInv == TypeOK /\ WalkInv /\ LocalInv /\ SideInv /\ DefinedInv /\ RoomInv

-----------------------------------------------------------------------------
(* A non-empty set of naturals has a least element.                        *)
LEMMA LeastNatural ==
  ASSUME NEW T, T \subseteq Nat, T # {}
  PROVE  \E m \in T : \A k \in T : m <= k
<1>1. \E m \in T : \A k \in T : ~(<<k, m>> \in OpToRel(<, Nat))
  BY NatLessThanWellFounded, WFMin, Zenon
<1>2. \E m \in T : \A k \in T : ~(k < m)
  BY <1>1, Zenon DEF OpToRel
<1> QED  BY <1>2

(* A set of types can be put in order: otherwise there is a least set that *)
(* cannot, and its least element precedes the ordered rest of it.          *)
Ordered(s, S) ==
  s \in [1..Cardinality(S) -> S] /\ \A i, j \in DOMAIN s : i < j => s[i] < s[j]

LEMMA OrderExists ==
  ASSUME NEW S \in SUBSET Types
  PROVE  \E s : Ordered(s, S)
<1> DEFINE Bad == {n \in Nat : \E U \in SUBSET Types : /\ Cardinality(U) = n
                                                       /\ ~\E s : Ordered(s, U)}
<1>0. \A U \in SUBSET Types : IsFiniteSet(U) /\ Cardinality(U) \in Nat /\ U \subseteq Nat
  BY TypesAssumption, FS_Subset, FS_CardinalityType
<1>1. Bad = {}
  <2> SUFFICES ASSUME Bad # {} PROVE FALSE
    OBVIOUS
  <2>1. PICK m \in Bad : \A k \in Bad : m <= k
    <3> HIDE DEF Bad
    <3>1. Bad \subseteq Nat
      BY DEF Bad
    <3> QED  BY <3>1, LeastNatural
  <2>2. PICK U \in SUBSET Types : Cardinality(U) = m /\ ~\E s : Ordered(s, U)
    BY <2>1
  <2>3. CASE U = {}
    <3>1. Cardinality(U) = 0
      BY <2>3, FS_EmptySet
    <3>2. Ordered([i \in 1..0 |-> i], U)
      BY <3>1 DEF Ordered
    <3> QED  BY <2>2, <3>2
  <2>4. CASE U # {}
    <3>1. PICK e \in U : \A k \in U : e <= k
      BY <1>0, <2>4, LeastNatural
    <3> DEFINE R == U \ {e}
    <3>2. /\ R \in SUBSET Types /\ m \in Nat /\ Cardinality(R) = m - 1 /\ m - 1 \in Nat
      <4>1. R \in SUBSET Types /\ Cardinality(R) \in Nat /\ IsFiniteSet(U)
        BY <1>0, <2>2
      <4>2. Cardinality(R) = Cardinality(U) - 1
        BY <4>1, <3>1, FS_RemoveElement
      <4>3. Cardinality(U) = m /\ Cardinality(U) \in Nat
        BY <1>0, <2>2
      <4> QED  BY <4>1, <4>2, <4>3
    <3>3. m - 1 \notin Bad
      BY <2>1, <3>2
    <3>4. PICK r : Ordered(r, R)
      BY <3>2, <3>3
    <3> DEFINE s == [i \in 1..m |-> IF i = 1 THEN e ELSE r[i - 1]]
    <3>5. DOMAIN r = 1..(m - 1) /\ \A i \in 1..(m - 1) : r[i] \in R
      BY <3>2, <3>4 DEF Ordered
    <3>6. s \in [1..m -> U]
      BY <3>1, <3>2, <3>5
    <3>7. ASSUME NEW i \in 1..m, NEW j \in 1..m, i < j PROVE s[i] < s[j]
      <4>1. j # 1 /\ j - 1 \in 1..(m - 1) /\ s[j] = r[j - 1] /\ r[j - 1] \in R
        BY <3>2, <3>5, <3>7
      <4>2. CASE i = 1
        <5>1. s[i] = e /\ e \in Nat /\ r[j - 1] \in Nat /\ e <= r[j - 1] /\ e # r[j - 1]
          BY <1>0, <3>1, <4>1, <4>2
        <5> QED  BY <4>1, <5>1
      <4>3. CASE i # 1
        <5>1. i - 1 \in 1..(m - 1) /\ i - 1 < j - 1 /\ s[i] = r[i - 1]
          BY <3>2, <3>7, <4>3
        <5> QED  BY <3>4, <3>5, <4>1, <5>1 DEF Ordered
      <4> QED  BY <4>2, <4>3
    <3>8. Ordered(s, U)
      BY <2>2, <3>6, <3>7 DEF Ordered
    <3> QED  BY <2>2, <3>8
  <2> QED  BY <2>3, <2>4
<1> QED  BY <1>0, <1>1

(* The dependencies of a file, in the order of their names, are all of     *)
(* them.                                                                   *)
LEMMA InOrderProperties ==
  ASSUME NEW S \in SUBSET Types
  PROVE  /\ Cardinality(S) \in Nat
         /\ InOrder(S) \in [1..Cardinality(S) -> S]
         /\ \A u \in S : \E i \in 1..Cardinality(S) : InOrder(S)[i] = u
<1> DEFINE n == Cardinality(S)  s == InOrder(S)
<1>1. IsFiniteSet(S) /\ n \in Nat /\ S \subseteq Nat
  BY TypesAssumption, FS_Subset, FS_CardinalityType
<1>2. Ordered(s, S)
  BY OrderExists DEF InOrder, Ordered
<1>3. s \in [1..n -> S] /\ \A i, j \in 1..n : i < j => s[i] < s[j]
  BY <1>2 DEF Ordered
<1> HIDE DEF s
<1>4. s \in Injection(1..n, S)
  <2>1. \A i, j \in 1..n : s[i] = s[j] => i = j
    <3> SUFFICES ASSUME NEW i \in 1..n, NEW j \in 1..n, i # j PROVE s[i] # s[j]
      OBVIOUS
    <3> HIDE DEF n
    <3>1. s[i] \in Nat /\ s[j] \in Nat /\ (i < j \/ j < i)
      <4>1. s[i] \in S /\ s[j] \in S /\ i \in Nat /\ j \in Nat
        BY <1>1, <1>3
      <4>2. s[i] \in Nat /\ s[j] \in Nat
        BY <1>1, <4>1
      <4>3. i < j \/ j < i
        BY <4>1
      <4> QED  BY <4>2, <4>3
    <3>2. s[i] < s[j] \/ s[j] < s[i]
      BY <1>3, <3>1
    <3> QED  BY <3>1, <3>2
  <2> QED  BY <1>3, <2>1 DEF Injection, IsInjective
<1>5. IsFiniteSet(1..n) /\ Cardinality(1..n) = n
  BY <1>1, FS_Interval
<1>6. s \in Surjection(1..n, S)
  BY <1>1, <1>4, <1>5, FS_Injection
<1> QED  BY <1>1, <1>3, <1>6 DEF Surjection, s

-----------------------------------------------------------------------------
(* What a type is made of exists: the intersection of all closed sets that *)
(* have the type is one of them.                                           *)
LEMMA ReachableIsLeast ==
  ASSUME NEW files \in Files, NEW t \in Types
  PROVE  /\ Reachable(files, t) \in SUBSET Types /\ t \in Reachable(files, t)
         /\ Closed(files, Reachable(files, t))
         /\ \A R \in SUBSET Types : t \in R /\ Closed(files, R) => Reachable(files, t) \subseteq R
<1> DEFINE Candidates == {R \in SUBSET Types : t \in R /\ Closed(files, R)}
           Least == {u \in Types : \A R \in Candidates : u \in R}
<1>1. \A u \in DOMAIN files : files[u].deps \subseteq Types
  BY DEF Files
<1>2. Closed(files, Least)
  BY <1>1 DEF Closed
<1>3. Least \in Candidates /\ \A R \in Candidates : Least \subseteq R
  BY <1>2
<1> HIDE DEF Least
<1>4. \E S \in Candidates : \A R \in SUBSET Types : t \in R /\ Closed(files, R) => S \subseteq R
  BY <1>3
<1> QED  BY <1>4 DEF Reachable

(* Whoever replaces files leaves their dependencies alone.                 *)
SameShape(old, new) ==
  /\ DOMAIN new = DOMAIN old
  /\ \A u \in DOMAIN old : new[u].deps = old[u].deps /\ old[u].rev <= new[u].rev

LEMMA ReachableSameShape ==
  ASSUME NEW old \in Files, NEW new \in Files, NEW t \in Types, SameShape(old, new)
  PROVE  /\ Reachable(new, t) = Reachable(old, t)
         /\ \A enc : NamesOf(new, t, enc) = NamesOf(old, t, enc)
<1>1. \A S : Closed(new, S) <=> Closed(old, S)
  BY DEF Closed, SameShape
<1>2. Reachable(new, t) = Reachable(old, t)
  BY <1>1, ReachableIsLeast
<1>3. Below(new, t) = Below(old, t)
  BY <1>2 DEF Below, SameShape
<1> QED  BY <1>2, <1>3 DEF NamesOf

(* There are as many names as types, twice.                                *)
LEMMA NamesFinite == IsFiniteSet(Names)
<1> DEFINE P == Types \X {"full", "short"}
           f == [p \in P |-> [type |-> p[1], form |-> p[2]]]
<1>1. IsFiniteSet(P)
  <2>1. IsFiniteSet({"full"} \cup {"short"})
    BY FS_Singleton, FS_Union
  <2>2. {"full", "short"} = {"full"} \cup {"short"}
    OBVIOUS
  <2> QED  BY <2>1, <2>2, TypesAssumption, FS_Product
<1>2. f \in Surjection(P, Names)
  <2>1. f \in [P -> Names]
    BY DEF Names
  <2>2. ASSUME NEW n \in Names PROVE \E p \in P : f[p] = n
    <3>1. <<n.type, n.form>> \in P /\ f[<<n.type, n.form>>] = n
      BY DEF Names
    <3> QED  BY <3>1
  <2> QED  BY <2>1, <2>2 DEF Surjection
<1> QED  BY <1>1, <1>2, FS_Surjection

(* The names of a type's definitions are those of types it is made of,     *)
(* and they have the names that these definitions refer to.                *)
LEMMA NamesOfFacts ==
  ASSUME NEW files \in Files, NEW t \in Types, NEW enc
  PROVE  LET names == NamesOf(files, t, enc)
         IN  /\ names \in SUBSET Names /\ IsFiniteSet(names) /\ Root(t) \in names
             /\ \A n \in names : n.type \in Reachable(files, t)
             /\ \A n \in names : n.type \in DOMAIN files =>
                                  References(files, n.type, enc) \subseteq names
<1> DEFINE names == NamesOf(files, t, enc)
<1>1. \A u \in DOMAIN files : files[u].deps \subseteq Types
  BY DEF Files
<1>2. Below(files, t) \subseteq Reachable(files, t) /\ Reachable(files, t) \subseteq Types
      /\ t \in Reachable(files, t)
  BY ReachableIsLeast DEF Below, Closed
<1>3. \A u \in Types : /\ Root(u) \in Names /\ Root(u).type = u
                       /\ Reference(u, enc) \in Names /\ Reference(u, enc).type = u
  BY DEF Names, Root, Reference
<1>4. names \in SUBSET Names
  BY <1>2, <1>3 DEF NamesOf
<1>5. IsFiniteSet(names)
  BY <1>4, NamesFinite, FS_Subset
<1>6. \A n \in names : n.type \in Reachable(files, t)
  BY <1>2, <1>3 DEF NamesOf
<1>7. \A u \in Reachable(files, t) \cap DOMAIN files : References(files, u, enc) \subseteq names
  BY DEF NamesOf, Below, References
<1> QED  BY <1>4, <1>5, <1>6, <1>7 DEF NamesOf

-----------------------------------------------------------------------------
(* A request is one of a portal, about a type.                             *)
LEMMA RequestFacts ==
  ASSUME TypeOK, NEW c \in Callers
  PROVE  /\ req[c].side \in Portals /\ TopicType(c) \in Types
         /\ \A e \in Encodings : FilesOf(c)[e] \in Files
         /\ req[c].side = "out" => req[c].enc \in Encodings
         /\ req[c].side = "in" => /\ req[c].graph \in Seq(Types) /\ req[c].name \in Types
                                  /\ req[c].enc \in Encodings \cup {"none"}
<1>1. req[c] \in RequestType
  BY DEF TypeOK
<1>2. CASE req[c] \in [side : {"out"}, type : Types, enc : Encodings]
  BY <1>2 DEF TypeOK, Portals, TopicType, FilesOf
<1>3. CASE req[c] \in [side : {"in"}, graph : BoundedSeq(Types, 2), name : Types,
                       enc : Encodings \cup {"none"}, frame : {"cdr", "json", "none"}]
  <2>1. /\ req[c].side = "in" /\ req[c].graph \in BoundedSeq(Types, 2) /\ req[c].name \in Types
        /\ req[c].enc \in Encodings \cup {"none"}
    BY <1>3
  <2>2. req[c].graph \in Seq(Types)
    <3>1. PICK m \in 0..2 : req[c].graph \in [1..m -> Types]
      BY <2>1 DEF BoundedSeq, SeqOf
    <3> QED  BY <3>1
  <2>3. TopicType(c) \in Types
    <3>1. req[c].graph # <<>> => Head(req[c].graph) \in Types
      BY <2>2, HeadTailProperties
    <3> QED  BY <2>1, <3>1 DEF TopicType, ResolveInboundRosTopicType
  <2> QED  BY <2>1, <2>2, <2>3 DEF TypeOK, Portals, FilesOf
<1> QED  BY <1>1, <1>2, <1>3 DEF RequestType

-----------------------------------------------------------------------------
(* A walk that has something to do does its first call, or drops it.       *)
Rest(w) == {w.todo[i].name : i \in 2..Len(w.todo)}

LEMMA TodoHead ==
  ASSUME NEW w \in Walk, w.todo # <<>>
  PROVE  /\ Head(w.todo) = w.todo[1] /\ Len(w.todo) \in Nat \ {0}
         /\ w.todo[1].name \in Names /\ w.todo[1].name.type \in Types
         /\ w.todo[1].depth \in 0..MaxDepth
         /\ Tail(w.todo) \in Seq([name : Names, depth : 0..MaxDepth])
         /\ Len(Tail(w.todo)) = Len(w.todo) - 1
         /\ \A i \in 1..(Len(w.todo) - 1) : Tail(w.todo)[i] = w.todo[i + 1]
         /\ TodoNames(w) = {w.todo[1].name} \cup Rest(w)
<1> DEFINE Call == [name : Names, depth : 0..MaxDepth]
<1>1. w.todo \in Seq(Call)
  BY DEF Walk
<1>2. Len(w.todo) \in Nat \ {0} /\ Head(w.todo) = w.todo[1] /\ w.todo[1] \in Call
  <2>1. Len(w.todo) \in Nat \ {0}
    BY <1>1, EmptySeq
  <2> HIDE DEF Call
  <2>2. w.todo[1] \in Call
    BY <1>1, <2>1, ElementOfSeq
  <2> QED  BY <1>1, <2>1, <2>2
<1>3. /\ Tail(w.todo) \in Seq(Call) /\ Len(Tail(w.todo)) = Len(w.todo) - 1
      /\ \A i \in 1..(Len(w.todo) - 1) : Tail(w.todo)[i] = w.todo[i + 1]
  BY <1>1, HeadTailProperties
<1>4. TodoNames(w) = {w.todo[1].name} \cup Rest(w)
  <2>1. \A i \in 1..Len(w.todo) : i = 1 \/ i \in 2..Len(w.todo)
    BY <1>2
  <2>2. 1 \in 1..Len(w.todo) /\ \A i \in 2..Len(w.todo) : i \in 1..Len(w.todo)
    BY <1>2
  <2> QED  BY <2>1, <2>2 DEF TodoNames, Rest
<1> QED  BY <1>2, <1>3, <1>4 DEF Names

LEMMA DroppedCall ==
  ASSUME NEW w \in Walk, w.todo # <<>>
  PROVE  LET v == [w EXCEPT !.todo = Tail(@)]
         IN  /\ v \in Walk /\ v.enc = w.enc /\ v.seen = w.seen /\ v.parts = w.parts
             /\ TodoNames(v) = Rest(w)
             /\ \A i \in 1..Len(v.todo) : \E j \in 1..Len(w.todo) : v.todo[i] = w.todo[j]
<1> DEFINE v == [w EXCEPT !.todo = Tail(@)]
<1>1. v \in Walk /\ v.todo = Tail(w.todo) /\ v.enc = w.enc /\ v.seen = w.seen /\ v.parts = w.parts
  BY TodoHead DEF Walk
<1>2. Len(v.todo) = Len(w.todo) - 1 /\ Len(w.todo) \in Nat \ {0}
      /\ \A i \in 1..Len(v.todo) : v.todo[i] = w.todo[i + 1]
  BY <1>1, TodoHead
<1>3. \A i \in 1..Len(v.todo) : i + 1 \in 2..Len(w.todo) /\ i + 1 \in 1..Len(w.todo)
  BY <1>2
<1>4. \A j \in 2..Len(w.todo) : j - 1 \in 1..Len(v.todo) /\ v.todo[j - 1] = w.todo[j]
  BY <1>2
<1>5. TodoNames(v) = Rest(w)
  BY <1>2, <1>3, <1>4 DEF TodoNames, Rest
<1> QED  BY <1>1, <1>2, <1>3, <1>5

(* The rendering v takes the first call of w, appends the file of its type *)
(* and calls itself for what the file includes, one level deeper.          *)
TakesFile(files, w, v) ==
  LET n == Head(w.todo).name
  IN  /\ v.seen = w.seen \cup {n}
      /\ Len(v.parts) = Len(w.parts) + 1 /\ Len(w.parts) \in Nat
      /\ \A i \in 1..Len(w.parts) : v.parts[i] = w.parts[i]
      /\ v.parts[Len(w.parts) + 1] = <<n, files[n.type].rev>>
      /\ TodoNames(v) = References(files, n.type, w.enc) \cup Rest(w)
      /\ \A i \in 1..Len(v.todo) :
           \/ v.todo[i].depth = Head(w.todo).depth - 1
           \/ \E j \in 1..Len(w.todo) : v.todo[i] = w.todo[j]

LEMMA AppendedCall ==
  ASSUME NEW files \in Files, NEW w \in Walk, w.todo # <<>>,
         Head(w.todo).depth > 0, Head(w.todo).name.type \in DOMAIN files,
         NEW v, v = Appended(w, files)
  PROVE  v \in Walk /\ v.enc = w.enc /\ TakesFile(files, w, v)
<1> DEFINE Call == [name : Names, depth : 0..MaxDepth]
           item == Head(w.todo)
           name == item.name
           t == name.type
           part == <<name, files[t].rev>>
           D == files[t].deps
           deps == InOrder(D)
           n == Cardinality(D)
           calls == [i \in DOMAIN deps |->
                       [name |-> Reference(deps[i], w.enc), depth |-> item.depth - 1]]
           rest == Tail(w.todo)
<1>1. t \in Types /\ name \in Names /\ item.depth \in 1..MaxDepth /\ D \in SUBSET Types /\ files[t].rev \in 0..1
  <2>1. PICK S \in SUBSET Types : files \in [S -> [deps : SUBSET Types, rev : 0..1]]
    BY DEF Files
  <2>2. files[t] \in [deps : SUBSET Types, rev : 0..1] /\ t \in Types
    BY <2>1
  <2>3. item.depth \in 0..MaxDepth /\ item.depth > 0
    BY TodoHead
  <2> QED  BY <2>2, <2>3, TodoHead, TypesAssumption
<1>2. /\ n \in Nat /\ deps \in [1..n -> D] /\ DOMAIN deps = 1..n
      /\ \A u \in D : \E i \in 1..n : deps[i] = u
  BY <1>1, InOrderProperties
<1>3. /\ calls \in Seq(Call) /\ Len(calls) = n
      /\ \A i \in 1..n : calls[i].name = Reference(deps[i], w.enc) /\ calls[i].depth = item.depth - 1
  <2>1. item.depth - 1 \in 0..MaxDepth /\ \A u \in Types : Reference(u, w.enc) \in Names
    BY <1>1, TypesAssumption DEF Reference, Names
  <2> HIDE DEF deps, item
  <2>2. calls \in [1..n -> Call]
    BY <1>1, <1>2, <2>1
  <2>3. \A i \in 1..n : calls[i] = [name |-> Reference(deps[i], w.enc), depth |-> item.depth - 1]
    BY <1>2
  <2> HIDE DEF calls, Call
  <2>4. calls \in Seq(Call) /\ Len(calls) = n
    BY <1>2, <2>2
  <2> QED  BY <2>3, <2>4
<1>4. rest \in Seq(Call) /\ Len(rest) = Len(w.todo) - 1 /\ Len(w.todo) \in Nat \ {0}
      /\ \A i \in 1..(Len(w.todo) - 1) : rest[i] = w.todo[i + 1]
  BY TodoHead
<1>5. /\ v.todo = calls \o rest /\ v.enc = w.enc /\ v.seen = w.seen \cup {name}
      /\ v.parts = Append(w.parts, part)
      /\ v = [w EXCEPT !.seen = v.seen, !.todo = v.todo, !.parts = v.parts]
  <2>1. v = [w EXCEPT !.seen = w.seen \cup {name}, !.todo = calls \o rest,
                      !.parts = Append(w.parts, part)]
    BY DEF Appended
  <2> HIDE DEF calls, rest, item, name, part
  <2> QED  BY <2>1 DEF Walk
<1> HIDE DEF calls, rest, item, deps, n, Call, name
<1>6. /\ v.todo \in Seq(Call) /\ Len(v.todo) = n + Len(rest)
      /\ \A i \in 1..(n + Len(rest)) :
           v.todo[i] = IF i <= n THEN calls[i] ELSE rest[i - n]
  <2>1. calls \in Seq(Call) /\ rest \in Seq(Call) /\ Len(calls) = n
    BY <1>3, <1>4 DEF Call
  <2>2. /\ calls \o rest \in Seq(Call) /\ Len(calls \o rest) = n + Len(rest)
        /\ \A i \in 1..(n + Len(rest)) :
             (calls \o rest)[i] = IF i <= n THEN calls[i] ELSE rest[i - n]
    BY <2>1, ConcatProperties
  <2> QED  BY <1>5, <2>2
<1>7. /\ v.parts \in Seq(Names \X (0..1))
      /\ Len(v.parts) = Len(w.parts) + 1 /\ Len(w.parts) \in Nat
      /\ \A i \in 1..Len(w.parts) : v.parts[i] = w.parts[i]
      /\ v.parts[Len(w.parts) + 1] = part
  <2>1. w.parts \in Seq(Names \X (0..1)) /\ part \in Names \X (0..1)
    BY <1>1 DEF Walk
  <2> DEFINE S == Names \X (0..1)
             e == part
  <2>2. w.parts \in Seq(S) /\ e \in S /\ v.parts = Append(w.parts, e)
    BY <1>5, <2>1
  <2> HIDE DEF S, e
  <2>3. /\ v.parts \in Seq(S) /\ Len(v.parts) = Len(w.parts) + 1
        /\ \A i \in 1..Len(w.parts) : v.parts[i] = w.parts[i]
        /\ v.parts[Len(w.parts) + 1] = e
    BY <2>2, AppendProperties
  <2> QED  BY <2>2, <2>3, LenProperties DEF S, e
<1>8. v \in Walk
  BY <1>1, <1>5, <1>6, <1>7 DEF Walk, Call
<1>9. ASSUME NEW i \in 1..Len(v.todo)
      PROVE  \/ /\ i \in 1..n /\ v.todo[i].name = Reference(deps[i], w.enc)
                /\ v.todo[i].depth = item.depth - 1
             \/ \E j \in 2..Len(w.todo) : v.todo[i] = w.todo[j]
  <2>1. CASE i <= n
    BY <2>1, <1>2, <1>3, <1>6
  <2>2. CASE ~(i <= n)
    <3>1. i - n \in 1..(Len(w.todo) - 1) /\ i - n + 1 \in 2..Len(w.todo)
      BY <2>2, <1>2, <1>4, <1>6
    <3> QED  BY <2>2, <3>1, <1>4, <1>6
  <2> QED  BY <2>1, <2>2
<1>10. \A u \in D : \E i \in 1..Len(v.todo) : v.todo[i].name = Reference(u, w.enc)
  <2> SUFFICES ASSUME NEW u \in D
               PROVE  \E i \in 1..Len(v.todo) : v.todo[i].name = Reference(u, w.enc)
    OBVIOUS
  <2>1. PICK i \in 1..n : deps[i] = u
    BY <1>2
  <2>2. i \in 1..Len(v.todo) /\ v.todo[i] = calls[i]
    BY <1>2, <1>4, <1>6
  <2> QED  BY <2>1, <2>2, <1>3
<1>11. \A j \in 2..Len(w.todo) : \E i \in 1..Len(v.todo) : v.todo[i] = w.todo[j]
  <2> SUFFICES ASSUME NEW j \in 2..Len(w.todo)
               PROVE  \E i \in 1..Len(v.todo) : v.todo[i] = w.todo[j]
    OBVIOUS
  <2>1. n + j - 1 \in 1..Len(v.todo) /\ ~(n + j - 1 <= n) /\ (n + j - 1) - n = j - 1
        /\ j - 1 \in 1..(Len(w.todo) - 1)
    <3>1. n \in Nat /\ Len(w.todo) \in Nat /\ Len(rest) = Len(w.todo) - 1
          /\ Len(v.todo) = n + Len(rest)
      BY <1>2, <1>4, <1>6
    <3> QED  BY <3>1
  <2>2. v.todo[n + j - 1] = rest[j - 1] /\ rest[j - 1] = w.todo[j]
    <3>1. Len(v.todo) = n + Len(rest)
      BY <1>6
    <3>2. v.todo[n + j - 1] = rest[(n + j - 1) - n]
      BY <2>1, <3>1, <1>6
    <3>3. rest[j - 1] = w.todo[(j - 1) + 1] /\ (j - 1) + 1 = j
      BY <2>1, <1>4
    <3> QED  BY <2>1, <3>2, <3>3
  <2> QED  BY <2>1, <2>2
<1>12. TodoNames(v) = References(files, t, w.enc) \cup Rest(w)
  <2>1. TodoNames(v) \subseteq References(files, t, w.enc) \cup Rest(w)
    <3> SUFFICES ASSUME NEW i \in 1..Len(v.todo)
                 PROVE  v.todo[i].name \in References(files, t, w.enc) \cup Rest(w)
      BY DEF TodoNames
    <3>1. CASE i \in 1..n /\ v.todo[i].name = Reference(deps[i], w.enc)
      BY <3>1, <1>2 DEF References
    <3>2. CASE \E j \in 2..Len(w.todo) : v.todo[i] = w.todo[j]
      BY <3>2 DEF Rest
    <3> QED  BY <3>1, <3>2, <1>9
  <2>2. References(files, t, w.enc) \subseteq TodoNames(v)
    BY <1>10 DEF TodoNames, References
  <2>3. Rest(w) \subseteq TodoNames(v)
    <3> SUFFICES ASSUME NEW j \in 2..Len(w.todo) PROVE w.todo[j].name \in TodoNames(v)
      BY DEF Rest
    <3>1. PICK i \in 1..Len(v.todo) : v.todo[i] = w.todo[j]
      BY <1>11
    <3> QED  BY <3>1 DEF TodoNames
  <2> QED  BY <2>1, <2>2, <2>3
<1>13. \A j \in 2..Len(w.todo) : j \in 1..Len(w.todo)
  BY <1>4
<1> QED  BY <1>5, <1>7, <1>8, <1>9, <1>12, <1>13 DEF item, name, TakesFile

-----------------------------------------------------------------------------
(* How the rendering of a definition goes on: it starts with the type,     *)
(* skips what was seen, appends a file, and ends or gives up.              *)
LEMMA WalkStarts ==
  ASSUME NEW files \in Files, NEW t \in Types, NEW enc \in Formats, NEW exact,
         NEW w, w = [enc |-> enc, todo |-> <<[name |-> Root(t), depth |-> MaxDepth]>>,
                     seen |-> {}, parts |-> <<>>]
  PROVE  w \in Walk /\ WalkOf(files, t, w) /\ PartsOf(files, exact, w.parts, w.seen)
<1>1. w.todo = <<[name |-> Root(t), depth |-> MaxDepth]>> /\ w.seen = {} /\ w.parts = <<>>
  OBVIOUS
<1>2. Len(w.todo) = 1 /\ w.todo[1].name = Root(t) /\ w.todo[1].depth = MaxDepth
  BY <1>1
<1>3. TodoNames(w) = {Root(t)}
  BY <1>2 DEF TodoNames
<1>4. MaxDepth \in 0..MaxDepth /\ MaxDepth \in Nat
  BY TypesAssumption
<1>5. w \in Walk
  <2>1. w.todo \in Seq([name : Names, depth : 0..MaxDepth])
    BY <1>1, <1>4 DEF Root, Names
  <2>2. <<>> \in Seq(Names \X (0..1))
    BY EmptySeq
  <2> QED  BY <2>1, <2>2 DEF Walk
<1>6. WalkOf(files, t, w)
  <2>1. Cardinality({}) = 0
    BY FS_EmptySet
  <2>2. \A i \in 1..Len(w.todo) : Cardinality(w.seen) + w.todo[i].depth >= MaxDepth
    BY <1>1, <1>2, <1>4, <2>1
  <2>3. w.seen \cup TodoNames(w) = {Root(t)}
    BY <1>1, <1>3
  <2>4. Root(t) \in NamesOf(files, t, w.enc)
    BY DEF NamesOf
  <2> QED  BY <1>1, <2>2, <2>3, <2>4 DEF WalkOf
<1>7. PartsOf(files, exact, w.parts, w.seen)
  <2>1. Len(w.parts) = 0 /\ Cardinality(w.seen) = 0
    BY <1>1, FS_EmptySet
  <2> QED  BY <1>1, <2>1 DEF PartsOf
<1> QED  BY <1>5, <1>6, <1>7

LEMMA WalkSkips ==
  ASSUME NEW files \in Files, NEW t \in Types, NEW w \in Walk, w.todo # <<>>,
         WalkOf(files, t, w), Head(w.todo).name \in w.seen
  PROVE  WalkOf(files, t, [w EXCEPT !.todo = Tail(@)])
<1> DEFINE v == [w EXCEPT !.todo = Tail(@)]
<1>1. /\ v.seen = w.seen /\ v.enc = w.enc /\ TodoNames(v) = Rest(w)
      /\ \A i \in 1..Len(v.todo) : \E j \in 1..Len(w.todo) : v.todo[i] = w.todo[j]
  BY DroppedCall
<1>2. v.seen \cup TodoNames(v) = w.seen \cup TodoNames(w)
  BY <1>1, TodoHead
<1> HIDE DEF v
<1>3. WalkOf(files, t, v)
  BY <1>1, <1>2 DEF WalkOf
<1> QED  BY <1>3 DEF v

LEMMA WalkAppends ==
  ASSUME NEW files \in Files, NEW t \in Types, NEW exact, NEW w \in Walk, w.todo # <<>>,
         WalkOf(files, t, w), PartsOf(files, exact, w.parts, w.seen),
         Head(w.todo).name \notin w.seen, Head(w.todo).depth > 0,
         Head(w.todo).name.type \in DOMAIN files,
         NEW v, v = Appended(w, files)
  PROVE  WalkOf(files, t, v) /\ PartsOf(files, exact, v.parts, v.seen)
<1> DEFINE n0 == Head(w.todo).name
           u == n0.type
           d == Head(w.todo).depth
<1>1. /\ v.seen = w.seen \cup {n0} /\ v.enc = w.enc
      /\ Len(v.parts) = Len(w.parts) + 1 /\ Len(w.parts) \in Nat
      /\ \A i \in 1..Len(w.parts) : v.parts[i] = w.parts[i]
      /\ v.parts[Len(w.parts) + 1] = <<n0, files[u].rev>>
      /\ TodoNames(v) = References(files, u, w.enc) \cup Rest(w)
      /\ \A i \in 1..Len(v.todo) :
           \/ v.todo[i].depth = d - 1
           \/ \E j \in 1..Len(w.todo) : v.todo[i] = w.todo[j]
  <2>1. TakesFile(files, w, v) /\ v.enc = w.enc
    BY AppendedCall
  <2> QED  BY <2>1 DEF TakesFile
<1>2. /\ TodoNames(w) = {n0} \cup Rest(w) /\ n0 \in Names /\ u \in Types /\ d \in 0..MaxDepth /\ MaxDepth \in Nat
      /\ \E j \in 1..Len(w.todo) : w.todo[j].depth = d
      /\ \A j \in 1..Len(w.todo) : w.todo[j].depth \in 0..MaxDepth
  <2>1. Head(w.todo) = w.todo[1] /\ 1 \in 1..Len(w.todo)
    BY TodoHead
  <2>2. \A j \in 1..Len(w.todo) : w.todo[j].depth \in 0..MaxDepth
    <3>1. w.todo \in Seq([name : Names, depth : 0..MaxDepth])
      BY DEF Walk
    <3>2. \A j \in 1..Len(w.todo) : w.todo[j] \in [name : Names, depth : 0..MaxDepth]
      BY <3>1, ElementOfSeq
    <3> QED  BY <3>2
  <2> QED  BY <2>1, <2>2, TodoHead, TypesAssumption
<1>0. n0 \notin w.seen /\ u \in DOMAIN files /\ u = n0.type
  OBVIOUS
<1> HIDE DEF n0, u, d
<1>3. /\ Cardinality(w.seen) \in Nat /\ Cardinality(v.seen) = Cardinality(w.seen) + 1
  <2>1. IsFiniteSet(w.seen)
    BY NamesFinite, FS_Subset DEF Walk
  <2>2. Cardinality(w.seen) \in Nat
    BY <2>1, FS_CardinalityType
  <2>3. Cardinality(w.seen \cup {n0}) = Cardinality(w.seen) + 1
    BY <1>0, <2>1, FS_AddElement
  <2> QED  BY <1>1, <2>2, <2>3
<1>4. WalkOf(files, t, v)
  <2>1. Root(t) \in v.seen \cup TodoNames(v)
    BY <1>1, <1>2 DEF WalkOf
  <2>2. \A n \in v.seen : References(files, n.type, v.enc) \subseteq v.seen \cup TodoNames(v)
    BY <1>0, <1>1, <1>2 DEF WalkOf
  <2>3. v.seen \cup TodoNames(v) \subseteq NamesOf(files, t, v.enc)
    <3>1. n0 \in NamesOf(files, t, w.enc)
      BY <1>2 DEF WalkOf
    <3>2. References(files, u, w.enc) \subseteq NamesOf(files, t, w.enc)
      BY <1>0, <3>1, NamesOfFacts
    <3> QED  BY <1>1, <1>2, <3>1, <3>2 DEF WalkOf
  <2>4. ASSUME NEW i \in 1..Len(v.todo)
        PROVE  Cardinality(v.seen) + v.todo[i].depth >= MaxDepth
    <3>1. Cardinality(w.seen) + d >= MaxDepth
      BY <1>2 DEF WalkOf
    <3>2. CASE v.todo[i].depth = d - 1
      BY <3>1, <3>2, <1>2, <1>3
    <3>3. CASE \E j \in 1..Len(w.todo) : v.todo[i] = w.todo[j]
      <4>1. PICK j \in 1..Len(w.todo) : v.todo[i] = w.todo[j]
        BY <3>3
      <4>2. Cardinality(w.seen) + w.todo[j].depth >= MaxDepth /\ w.todo[j].depth \in 0..MaxDepth
        BY <1>2 DEF WalkOf
      <4> QED  BY <4>1, <4>2, <1>2, <1>3
    <3> QED  BY <1>1, <3>2, <3>3
  <2> QED  BY <2>1, <2>2, <2>3, <2>4 DEF WalkOf
<1>5. PartsOf(files, exact, v.parts, v.seen)
  <2> DEFINE n == Len(w.parts)
  <2>1. Len(v.parts) = Cardinality(v.seen)
    BY <1>1, <1>3 DEF PartsOf
  <2>2. \A x \in v.seen : x.type \in DOMAIN files
    BY <1>0, <1>1 DEF PartsOf
  <2>3. \A i \in 1..(n + 1) : i \in 1..n \/ i = n + 1
    BY <1>1
  <2>4. files[u].rev \in Nat
    BY <1>0 DEF Files
  <2>5. \A i \in 1..Len(v.parts) : /\ v.parts[i][1] \in v.seen
                                   /\ v.parts[i][2] \in 0..files[v.parts[i][1].type].rev
                                   /\ exact => v.parts[i][2] = files[v.parts[i][1].type].rev
    <3> SUFFICES ASSUME NEW i \in 1..(n + 1)
                 PROVE  /\ v.parts[i][1] \in v.seen
                        /\ v.parts[i][2] \in 0..files[v.parts[i][1].type].rev
                        /\ exact => v.parts[i][2] = files[v.parts[i][1].type].rev
      BY <1>1
    <3>1. CASE i \in 1..n
      BY <3>1, <1>1 DEF PartsOf
    <3>2. CASE i = n + 1
      BY <3>2, <1>0, <1>1, <2>4
    <3> QED  BY <2>3, <3>1, <3>2
  <2>6. \A x \in v.seen : \E i \in 1..Len(v.parts) : v.parts[i][1] = x
    <3>1. n + 1 \in 1..Len(v.parts) /\ v.parts[n + 1][1] = n0
      BY <1>1
    <3>2. \A i \in 1..n : i \in 1..Len(v.parts)
      BY <1>1
    <3>3. \A x \in w.seen : \E i \in 1..n : w.parts[i][1] = x
      BY DEF PartsOf
    <3>4. \A i \in 1..n : v.parts[i] = w.parts[i]
      BY <1>1
    <3> HIDE DEF n
    <3>5. \A x \in w.seen : \E i \in 1..Len(v.parts) : v.parts[i][1] = x
      BY <3>2, <3>3, <3>4
    <3> QED  BY <3>1, <3>5, <1>1
  <2> QED  BY <2>1, <2>2, <2>5, <2>6 DEF PartsOf
<1> QED  BY <1>4, <1>5

LEMMA WalkGivesUp ==
  ASSUME NEW files \in Files, NEW t \in Types, NEW w \in Walk, w.todo # <<>>,
         WalkOf(files, t, w), Head(w.todo).name \notin w.seen,
         Head(w.todo).depth = 0 \/ Head(w.todo).name.type \notin DOMAIN files
  PROVE  GaveUp(files, t, w.enc)
<1> DEFINE n == Head(w.todo).name
           names == NamesOf(files, t, w.enc)
<1> SUFFICES ASSUME Reachable(files, t) \subseteq DOMAIN files
             PROVE  Cardinality(names) > MaxDepth
  BY DEF GaveUp
<1>1. n \in names /\ w.todo[1].name = n /\ w.todo[1].depth = Head(w.todo).depth
      /\ 1 \in 1..Len(w.todo)
  BY TodoHead DEF WalkOf
<1>2. Head(w.todo).depth = 0
  BY <1>1, NamesOfFacts
<1>3. IsFiniteSet(names) /\ IsFiniteSet(w.seen)
  BY NamesFinite, FS_Subset, NamesOfFacts DEF Walk
<1>4. Cardinality(w.seen) \in Nat /\ Cardinality(names) \in Nat /\ MaxDepth \in Nat
  BY <1>3, FS_CardinalityType, TypesAssumption
<1>5. Cardinality(w.seen) >= MaxDepth
  BY <1>1, <1>2, <1>4 DEF WalkOf
<1>6. Cardinality(w.seen \cup {n}) = Cardinality(w.seen) + 1
  BY <1>3, FS_AddElement
<1>7. w.seen \cup {n} \in SUBSET names
  BY <1>1 DEF WalkOf
<1> HIDE DEF n, names
<1>8. Cardinality(w.seen \cup {n}) <= Cardinality(names)
  BY <1>3, <1>7, FS_Subset
<1> QED  BY <1>4, <1>5, <1>6, <1>8

LEMMA WalkEnds ==
  ASSUME NEW files \in Files, NEW t \in Types, NEW w \in Walk, w.todo = <<>>, WalkOf(files, t, w)
  PROVE  w.seen = NamesOf(files, t, w.enc)
<1> DEFINE types == {n.type : n \in w.seen}
<1>1. TodoNames(w) = {}
  <2>1. Len(w.todo) = 0
    BY EmptySeq
  <2> QED  BY <2>1 DEF TodoNames
<1>2. /\ Root(t) \in w.seen /\ w.seen \subseteq NamesOf(files, t, w.enc)
      /\ \A n \in w.seen : \A u \in files[n.type].deps : Reference(u, w.enc) \in w.seen
  BY <1>1 DEF WalkOf, References
<1>3. Reachable(files, t) \subseteq types
  <2>1. types \in SUBSET Types
    BY DEF Walk, Names
  <2>2. t \in types
    BY <1>2 DEF Root
  <2>3. Closed(files, types)
    <3>1. \A u : Reference(u, w.enc).type = u
      BY DEF Reference
    <3> QED  BY <1>2, <3>1 DEF Closed
  <2> QED  BY <2>1, <2>2, <2>3, ReachableIsLeast
<1>4. ASSUME NEW u \in Below(files, t) PROVE Reference(u, w.enc) \in w.seen
  <2>1. PICK x \in Reachable(files, t) : u \in files[x].deps
    BY DEF Below
  <2>2. PICK n \in w.seen : n.type = x
    BY <1>3
  <2> QED  BY <1>2, <2>1, <2>2
<1> QED  BY <1>2, <1>4 DEF NamesOf

-----------------------------------------------------------------------------
LEMMA UpdateType ==
  ASSUME NEW S, NEW T, NEW f \in [S -> T], NEW c \in S, NEW v \in T
  PROVE  [f EXCEPT ![c] = v] \in [S -> T]
OBVIOUS

Steps == {"render", "rendered", "enter", "waiting", "define", "accepted", "refused", "check",
          "fetch", "done"}

LEMMA GoesType ==
  ASSUME TypeOK, NEW c \in Callers, NEW step \in Steps, Goes(c, step)
  PROVE  pc' \in [Callers -> Steps] /\ result' \in [Callers -> {"none", "ok", "failed"}]
BY DEF Goes, TypeOK, Steps

LEMMA ReturnsType ==
  ASSUME TypeOK, NEW c \in Callers, NEW what \in {"ok", "failed"}, Returns(c, what)
  PROVE  pc' \in [Callers -> Steps] /\ result' \in [Callers -> {"none", "ok", "failed"}]
<1>1. pc \in [Callers -> Steps] /\ result \in [Callers -> {"none", "ok", "failed"}]
  BY DEF TypeOK, Steps
<1>2. "done" \in Steps
  BY DEF Steps
<1> QED  BY <1>1, <1>2 DEF Returns

LEMMA WakeType ==
  ASSUME TypeOK, NEW c \in Callers, pc' = WakeAll([pc EXCEPT ![c] = "done"])
  PROVE  pc' \in [Callers -> Steps]
BY DEF TypeOK, WakeAll, Steps

(* The four ways a step of a rendering goes.                               *)
LEMMA Rendering ==
  ASSUME TypeOK, NEW c \in Callers, RenderDefinition(c)
  PROVE  LET w == walk[c]
             files == FilesOf(c)[w.enc]
             item == Head(w.todo)
             ends == /\ w.todo = <<>> /\ UNCHANGED walk
                     /\ Rendered(c, [enc |-> w.enc, parts |-> w.parts])
             skips == /\ w.todo # <<>> /\ item.name \in w.seen
                      /\ walk' = [walk EXCEPT ![c] = [w EXCEPT !.todo = Tail(@)]]
                      /\ UNCHANGED <<pc, result, local>>
             appends == /\ w.todo # <<>> /\ item.name \notin w.seen
                        /\ item.depth > 0 /\ item.name.type \in DOMAIN files
                        /\ walk' = [walk EXCEPT ![c] = Appended(w, files)]
                        /\ UNCHANGED <<pc, result, local>>
             throws == /\ w.todo # <<>> /\ item.name \notin w.seen
                       /\ item.depth = 0 \/ item.name.type \notin DOMAIN files
                       /\ \/ /\ w.enc = "ros2msg"
                             /\ walk' = [walk EXCEPT ![c] = StartWalk(c, "ros2idl")]
                             /\ UNCHANGED <<pc, result, local>>
                          \/ w.enc = "ros2idl" /\ Rendered(c, Nothing) /\ UNCHANGED walk
         IN  /\ pc[c] = "render" /\ ~AsJson(c) /\ w \in Walk /\ files \in Files
             /\ UNCHANGED <<install, req, remote, defined, room>>
             /\ ends \/ skips \/ appends \/ throws
<1>1. walk[c] \in Walk /\ walk[c].enc \in Formats
  BY DEF TypeOK, Walk
<1>2. FilesOf(c)[walk[c].enc] \in Files
  BY <1>1, RequestFacts DEF Encodings
<1>3. walk' = [walk EXCEPT ![c].todo = Tail(@)] =>
        walk' = [walk EXCEPT ![c] = [walk[c] EXCEPT !.todo = Tail(@)]]
  BY DEF TypeOK
<1> QED  BY <1>1, <1>2, <1>3 DEF RenderDefinition, AppendDefinition, DefinitionThrows

(* Replacing a file leaves all shapes, and the receiving portal, alone.    *)
LEMMA Replaced ==
  ASSUME TypeOK, NEW t \in Types, Replace(t)
  PROVE  /\ install' \in [Portals -> [Encodings -> Files]]
         /\ install'["in"] = install["in"]
         /\ \A s \in Portals, e \in Encodings : SameShape(install[s][e], install'[s][e])
<1> DEFINE old == install["out"]["ros2msg"]
           new == [old EXCEPT ![t].rev = 1]
<1>1. install \in [Portals -> [Encodings -> Files]] /\ "out" \in Portals /\ "in" \in Portals
      /\ "ros2msg" \in Encodings
  BY DEF TypeOK, Portals, Encodings, Formats
<1>2. old \in Files /\ t \in DOMAIN old /\ old[t].rev = 0
  BY <1>1 DEF Replace
<1>3. new \in Files /\ SameShape(old, new)
  <2>1. PICK D \in SUBSET Types : old \in [D -> [deps : SUBSET Types, rev : 0..1]]
    BY <1>2 DEF Files
  <2> DEFINE File == [deps : SUBSET Types, rev : 0..1]
  <2>2. new \in [D -> File]
    <3>1. D = DOMAIN old /\ old[t] \in File /\ new = [old EXCEPT ![t] = [old[t] EXCEPT !.rev = 1]]
      BY <1>2, <2>1
    <3>2. [old[t] EXCEPT !.rev = 1] \in File
      BY <3>1
    <3> HIDE DEF File, old
    <3> QED  BY <2>1, <3>1, <3>2 DEF File
  <2>3. SameShape(old, new)
    BY <2>1, <1>2 DEF SameShape
  <2> QED  BY <2>2, <2>3 DEF Files
<1>4. install' = [install EXCEPT !["out"] = [install["out"] EXCEPT !["ros2msg"] = new]]
  BY <1>1 DEF Replace
<1> HIDE DEF new
<1>5. install' \in [Portals -> [Encodings -> Files]]
  BY <1>1, <1>3, <1>4
<1>6. ASSUME NEW s \in Portals, NEW e \in Encodings, s # "out" \/ e # "ros2msg"
      PROVE  install'[s][e] = install[s][e]
  BY <1>1, <1>4, <1>6
<1>7. \A f \in Files : SameShape(f, f)
  BY DEF SameShape, Files
<1>8. install'["out"]["ros2msg"] = new
  BY <1>1, <1>4
<1>9. ASSUME NEW s \in Portals, NEW e \in Encodings PROVE SameShape(install[s][e], install'[s][e])
  BY <1>1, <1>3, <1>6, <1>7, <1>8
<1> QED  BY <1>1, <1>4, <1>5, <1>9

(* One step keeps the types.                                               *)
LEMMA TypeStep ==
  ASSUME TypeOK, [Next]_vars
  PROVE  TypeOK'
<1> SUFFICES ASSUME Next PROVE TypeOK'
  BY DEF TypeOK, vars, renderVars
<1>0. /\ pc \in [Callers -> Steps] /\ result \in [Callers -> {"none", "ok", "failed"}]
      /\ Nothing \in Schema
  BY EmptySeq DEF TypeOK, Steps, Nothing, Schema
<1>1. ASSUME NEW c \in Callers, RenderJson(c) PROVE TypeOK'
  <2> DEFINE types == FilesOf(c)["jsonschema"]
             t == TopicType(c)
             schema == IF t \in DOMAIN types
                       THEN [enc |-> "jsonschema", parts |-> <<<<Root(t), types[t].rev>>>>] ELSE Nothing
  <2>1. schema \in Schema
    <3>1. types \in Files
      BY RequestFacts DEF Encodings
    <3>2. CASE t \in DOMAIN types
      <4>1. types[t].rev \in 0..1 /\ Root(t) \in Names
        BY <3>1, <3>2 DEF Files, Root, Names
      <4>2. <<<<Root(t), types[t].rev>>>> \in Seq(Names \X (0..1))
        BY <4>1
      <4> QED  BY <3>2, <4>2 DEF Schema, Encodings
    <3> QED  BY <3>2, <1>0
  <2>2. local' \in [Callers -> Schema]
    BY <1>1, <2>1 DEF RenderJson, Rendered, TypeOK
  <2>3. pc' \in [Callers -> Steps] /\ result' \in [Callers -> {"none", "ok", "failed"}]
    BY <1>1, GoesType DEF RenderJson, Rendered, Steps
  <2> QED  BY <1>1, <2>2, <2>3 DEF RenderJson, TypeOK, Steps
<1>2. ASSUME NEW c \in Callers, RenderDefinition(c) PROVE TypeOK'
  <2>1. UNCHANGED <<install, req, remote, defined, room>>
    BY <1>2, Rendering
  <2>2. /\ walk' \in [Callers -> Walk] /\ local' \in [Callers -> Schema]
        /\ pc' \in [Callers -> Steps] /\ result' \in [Callers -> {"none", "ok", "failed"}]
    <3> DEFINE w == walk[c]
               files == FilesOf(c)[w.enc]
               Good == /\ walk' \in [Callers -> Walk] /\ local' \in [Callers -> Schema]
                       /\ pc' \in [Callers -> Steps]
                       /\ result' \in [Callers -> {"none", "ok", "failed"}]
    <3>1. w \in Walk /\ files \in Files /\ walk \in [Callers -> Walk] /\ local \in [Callers -> Schema]
      BY <1>2, Rendering DEF TypeOK
    <3>2. ASSUME NEW schema \in Schema, Rendered(c, schema), UNCHANGED walk PROVE Good
      <4>1. local' \in [Callers -> Schema]
        BY <3>1, <3>2 DEF Rendered
      <4>2. pc' \in [Callers -> Steps] /\ result' \in [Callers -> {"none", "ok", "failed"}]
        BY <3>2, GoesType DEF Rendered, Steps
      <4> QED  BY <3>1, <3>2, <4>1, <4>2
    <3>3. ASSUME NEW v \in Walk, walk' = [walk EXCEPT ![c] = v], UNCHANGED <<pc, result, local>>
          PROVE  Good
      <4>1. walk' \in [Callers -> Walk]
        BY <3>1, <3>3
      <4> QED  BY <1>0, <3>1, <3>3, <4>1
    <3>4. [enc |-> w.enc, parts |-> w.parts] \in Schema
      BY <3>1 DEF Walk, Schema, Encodings
    <3>5. w.todo # <<>> => [w EXCEPT !.todo = Tail(@)] \in Walk
      BY <3>1, DroppedCall
    <3>6. w.todo # <<>> /\ Head(w.todo).depth > 0 /\ Head(w.todo).name.type \in DOMAIN files =>
            Appended(w, files) \in Walk
      BY <3>1, AppendedCall
    <3>7. StartWalk(c, "ros2idl") \in Walk
      BY <3>1, WalkStarts, RequestFacts DEF StartWalk, Formats
    <3> HIDE DEF w, files, Good
    <3>8. \/ w.todo = <<>> /\ UNCHANGED walk /\ Rendered(c, [enc |-> w.enc, parts |-> w.parts])
          \/ Rendered(c, Nothing) /\ UNCHANGED walk
          \/ \E v \in Walk : walk' = [walk EXCEPT ![c] = v] /\ UNCHANGED <<pc, result, local>>
      BY <1>2, <3>5, <3>6, <3>7, Rendering DEF w, files
    <3>9. Good
      BY <1>0, <3>2, <3>3, <3>4, <3>8
    <3> QED  BY <3>9 DEF Good
  <2> QED  BY <2>1, <2>2 DEF TypeOK, Steps
<1>3. ASSUME NEW c \in Callers, OutboundRendered(c) PROVE TypeOK'
  <2>1. pc' \in [Callers -> Steps] /\ result' \in [Callers -> {"none", "ok", "failed"}]
    BY <1>3, GoesType, ReturnsType DEF OutboundRendered, Steps
  <2> QED  BY <1>3, <2>1 DEF OutboundRendered, TypeOK, renderVars, Steps
<1>4. ASSUME NEW c \in Callers, Enter(c) PROVE TypeOK'
  <2>1. pc' \in [Callers -> Steps] /\ result' \in [Callers -> {"none", "ok", "failed"}]
    BY <1>4, GoesType, ReturnsType DEF Enter, Steps
  <2>2. \A k \in DOMAIN defined' : defined'[k] \in [text : Schema, done : BOOLEAN]
    <3>1. [text |-> local[c], done |-> FALSE] \in [text : Schema, done : BOOLEAN]
      BY DEF TypeOK
    <3>2. defined' = With(defined, Key(c), [text |-> local[c], done |-> FALSE])
          \/ defined' = defined
      BY <1>4 DEF Enter
    <3>3. \A k \in DOMAIN defined : defined[k] \in [text : Schema, done : BOOLEAN]
      BY DEF TypeOK
    <3>4. \A key : \A k \in DOMAIN With(defined, key, [text |-> local[c], done |-> FALSE]) :
            With(defined, key, [text |-> local[c], done |-> FALSE])[k]
              \in [text : Schema, done : BOOLEAN]
      BY <3>1, <3>3, Zenon DEF With
    <3> QED  BY <3>2, <3>3, <3>4
  <2> QED  BY <1>4, <2>1, <2>2 DEF Enter, TypeOK, renderVars, Steps
<1>5. ASSUME NEW c \in Callers, Define(c) PROVE TypeOK'
  <2>1. pc' \in [Callers -> Steps] /\ result' \in [Callers -> {"none", "ok", "failed"}]
    BY <1>5, GoesType DEF Define, Steps
  <2>2. \A k \in DOMAIN room' : room'[k] \in Schema
    BY <1>5 DEF Define, With, TypeOK
  <2> QED  BY <1>5, <2>1, <2>2 DEF Define, TypeOK, renderVars, Steps
<1>6. ASSUME NEW c \in Callers, Accepted(c) PROVE TypeOK'
  <2>1. pc' \in [Callers -> Steps]
    BY <1>6, WakeType DEF Accepted
  <2>2. \A k \in DOMAIN defined' : defined'[k] \in [text : Schema, done : BOOLEAN]
    BY <1>6 DEF Accepted, TypeOK
  <2>3. result' \in [Callers -> {"none", "ok", "failed"}]
    BY <1>0, <1>6 DEF Accepted
  <2> QED  BY <1>6, <2>1, <2>2, <2>3 DEF Accepted, TypeOK, renderVars, Steps
<1>7. ASSUME NEW c \in Callers, Refused(c) PROVE TypeOK'
  <2>1. pc' \in [Callers -> Steps]
    BY <1>7, WakeType DEF Refused
  <2>2. \A k \in DOMAIN defined' : defined'[k] \in [text : Schema, done : BOOLEAN]
    BY <1>7 DEF Refused, TypeOK, Restrict
  <2>3. result' \in [Callers -> {"none", "ok", "failed"}]
    BY <1>0, <1>7 DEF Refused
  <2> QED  BY <1>7, <2>1, <2>2, <2>3 DEF Refused, TypeOK, renderVars, Steps
<1>8. ASSUME NEW c \in Callers, CheckTrack(c) PROVE TypeOK'
  <2>1. pc' \in [Callers -> Steps] /\ result' \in [Callers -> {"none", "ok", "failed"}]
    BY <1>8, GoesType, ReturnsType DEF CheckTrack, Steps
  <2> QED  BY <1>8, <2>1 DEF CheckTrack, TypeOK, renderVars, Steps
<1>9. ASSUME NEW c \in Callers, Fetch(c) PROVE TypeOK'
  <2>1. pc' \in [Callers -> Steps] /\ result' \in [Callers -> {"none", "ok", "failed"}]
    BY <1>9, GoesType, ReturnsType DEF Fetch, Steps
  <2>2. remote' \in [Callers -> Schema]
    BY <1>9 DEF Fetch, TypeOK
  <2> QED  BY <1>9, <2>1, <2>2 DEF Fetch, TypeOK, renderVars, Steps
<1>10. ASSUME NEW c \in Callers, InboundRendered(c) PROVE TypeOK'
  <2>1. pc' \in [Callers -> Steps] /\ result' \in [Callers -> {"none", "ok", "failed"}]
    BY <1>10, ReturnsType DEF InboundRendered, Steps
  <2> QED  BY <1>10, <2>1 DEF InboundRendered, TypeOK, renderVars, Steps
<1>11. ASSUME NEW t \in Types, Replace(t) PROVE TypeOK'
  BY <1>11, Replaced DEF Replace, TypeOK, renderVars
<1>12. CASE Idle
  BY <1>12 DEF Idle, TypeOK, vars, renderVars
<1> QED  BY <1>1, <1>2, <1>3, <1>4, <1>5, <1>6, <1>7, <1>8, <1>9, <1>10, <1>11, <1>12
         DEF Next, Step

-----------------------------------------------------------------------------
(* What was asked for stays, and so do the files of a portal unless one of *)
(* them is replaced.                                                       *)
LEMMA SameQuestion ==
  ASSUME req' = req, NEW c \in Callers
  PROVE  /\ AsJson(c)' <=> AsJson(c)
         /\ TopicType(c)' = TopicType(c)
         /\ Exact(c)' = Exact(c)
         /\ WellFormed(c)' <=> WellFormed(c)
         /\ Id(c)' = Id(c)
         /\ install' = install => FilesOf(c)' = FilesOf(c)
         /\ local'[c] = local[c] => Key(c)' = Key(c)
BY DEF AsJson, TopicType, Exact, WellFormed, Resolves, ResolveInboundRosTopicType, Id, FilesOf, Key

Asking(c) == \/ OutboundRendered(c) \/ Enter(c) \/ Define(c) \/ Accepted(c) \/ Refused(c)
             \/ CheckTrack(c) \/ Fetch(c) \/ InboundRendered(c)

(* The steps that do not render leave all renderings alone.                *)
LEMMA AskingLeaves ==
  ASSUME TypeOK, NEW c \in Callers, Asking(c)
  PROVE  /\ UNCHANGED <<install, req, walk, local>>
         /\ \A d \in Callers :
              /\ pc'[d] \in {"check", "fetch", "render"} => pc[d] \in {"check", "fetch", "render"}
              /\ pc'[d] = "rendered" => pc[d] = "rendered"
<1>0. pc \in [Callers -> Steps]
  BY DEF TypeOK, Steps
<1>1. CASE OutboundRendered(c)
  BY <1>0, <1>1 DEF OutboundRendered, Goes, Returns, renderVars
<1>2. CASE Enter(c)
  BY <1>0, <1>2 DEF Enter, Goes, Returns, renderVars
<1>3. CASE Define(c)
  BY <1>0, <1>3 DEF Define, Goes, Returns, renderVars
<1>4. CASE Accepted(c)
  BY <1>0, <1>4 DEF Accepted, WakeAll, renderVars
<1>5. CASE Refused(c)
  BY <1>0, <1>5 DEF Refused, WakeAll, renderVars
<1>6. CASE CheckTrack(c)
  BY <1>0, <1>6 DEF CheckTrack, Goes, Returns, renderVars
<1>7. CASE Fetch(c)
  BY <1>0, <1>7 DEF Fetch, Goes, Returns, renderVars
<1>8. CASE InboundRendered(c)
  BY <1>0, <1>8 DEF InboundRendered, Goes, Returns, renderVars
<1> QED  BY <1>1, <1>2, <1>3, <1>4, <1>5, <1>6, <1>7, <1>8 DEF Asking

LEMMA WalkAsking ==
  ASSUME TypeOK, WalkInv, LocalInv, NEW c \in Callers, Asking(c)
  PROVE  WalkInv' /\ LocalInv'
<1>1. /\ UNCHANGED <<install, req, walk, local>>
      /\ \A d \in Callers :
           /\ pc'[d] \in {"check", "fetch", "render"} => pc[d] \in {"check", "fetch", "render"}
           /\ pc'[d] = "rendered" => pc[d] = "rendered"
  BY AskingLeaves
<1>2. \A d \in Callers : /\ AsJson(d)' <=> AsJson(d)
                         /\ TopicType(d)' = TopicType(d)
                         /\ Exact(d)' = Exact(d)
                         /\ FilesOf(d)' = FilesOf(d)
  BY <1>1, SameQuestion
<1>3. WalkInv'
  BY <1>1, <1>2 DEF WalkInv
<1>4. LocalInv'
  BY <1>1, <1>2 DEF LocalInv
<1> QED  BY <1>3, <1>4

LEMMA WalkRenders ==
  ASSUME TypeOK, WalkInv, LocalInv, NEW c \in Callers, RenderJson(c) \/ RenderDefinition(c)
  PROVE  WalkInv' /\ LocalInv'
<1> DEFINE
      WalkOK(d) == pc'[d] \in {"check", "fetch", "render"} /\ ~AsJson(d) =>
        LET w == walk'[d]
            files == FilesOf(d)[w.enc]
        IN /\ WalkOf(files, TopicType(d), w)
           /\ PartsOf(files, Exact(d), w.parts, w.seen)
           /\ w.enc = "ros2idl" => GaveUp(FilesOf(d)["ros2msg"], TopicType(d), "ros2msg")
      LocalOK(d) == ~AsJson(d) =>
        /\ local'[d] # Nothing =>
             LET files == FilesOf(d)[local'[d].enc]
             IN /\ local'[d].enc \in Formats
                /\ PartsOf(files, Exact(d), local'[d].parts,
                           NamesOf(files, TopicType(d), local'[d].enc))
        /\ pc'[d] = "rendered" /\ local'[d] = Nothing =>
             \A f \in Formats : GaveUp(FilesOf(d)[f], TopicType(d), f)
<1>1. UNCHANGED <<install, req>>
  BY Rendering DEF RenderJson
<1>2. \A d \in Callers : /\ AsJson(d)' <=> AsJson(d)
                         /\ TopicType(d)' = TopicType(d)
                         /\ Exact(d)' = Exact(d)
                         /\ FilesOf(d)' = FilesOf(d)
  BY <1>1, SameQuestion
<1>3. SUFFICES ASSUME NEW d \in Callers PROVE WalkOK(d) /\ LocalOK(d)
  BY <1>2 DEF WalkInv, LocalInv
<1>4. CASE walk'[d] = walk[d] /\ local'[d] = local[d] /\ pc'[d] = pc[d]
  BY <1>4 DEF WalkInv, LocalInv
<1>5. CASE AsJson(d)
  BY <1>5
<1>6. CASE d = c /\ ~AsJson(c)
  <2> DEFINE w == walk[c]
             t == TopicType(c)
             files == FilesOf(c)[w.enc]
             item == Head(w.todo)
  <2>1. /\ pc[c] = "render" /\ w \in Walk /\ files \in Files /\ t \in Types
        /\ RenderDefinition(c) /\ w.enc \in Formats
    BY <1>6, Rendering, RequestFacts DEF RenderJson, Walk
  <2>2. /\ WalkOf(files, t, w) /\ PartsOf(files, Exact(c), w.parts, w.seen)
        /\ w.enc = "ros2idl" => GaveUp(FilesOf(c)["ros2msg"], t, "ros2msg")
    BY <1>6, <2>1 DEF WalkInv
  <2>3. /\ pc \in [Callers -> Steps] /\ walk \in [Callers -> Walk] /\ local \in [Callers -> Schema]
        /\ \A f \in Formats : FilesOf(c)[f] \in Files
    BY RequestFacts DEF TypeOK, Steps, Encodings
  <2>4. LocalOK(c) \/ pc'[c] = "rendered" \/ ~UNCHANGED local
    BY <1>6 DEF LocalInv
  <2>5. CASE /\ w.todo = <<>> /\ UNCHANGED walk
             /\ Rendered(c, [enc |-> w.enc, parts |-> w.parts])
    <3>1. local'[c] = [enc |-> w.enc, parts |-> w.parts] /\ pc'[c] = "rendered"
      BY <2>3, <2>5 DEF Rendered, Goes
    <3>2. w.seen = NamesOf(files, t, w.enc)
      BY <2>1, <2>2, <2>5, WalkEnds
    <3>3. local'[c] # Nothing
      BY <2>1, <3>1 DEF Nothing, Formats
    <3> QED  BY <1>6, <2>1, <2>2, <3>1, <3>2, <3>3
  <2>6. CASE /\ w.todo # <<>> /\ item.name \in w.seen
             /\ walk' = [walk EXCEPT ![c] = [w EXCEPT !.todo = Tail(@)]]
             /\ UNCHANGED <<pc, result, local>>
    <3> DEFINE v == [w EXCEPT !.todo = Tail(@)]
    <3>1. /\ v.enc = w.enc /\ v.seen = w.seen /\ v.parts = w.parts /\ WalkOf(files, t, v)
      BY <2>1, <2>2, <2>6, DroppedCall, WalkSkips
    <3>2. walk'[c] = v
      BY <2>3, <2>6
    <3> HIDE DEF v
    <3>3. WalkOK(c)
      BY <2>2, <3>1, <3>2
    <3> QED  BY <1>6, <2>1, <2>4, <2>6, <3>3
  <2>7. CASE /\ w.todo # <<>> /\ item.name \notin w.seen
             /\ item.depth > 0 /\ item.name.type \in DOMAIN files
             /\ walk' = [walk EXCEPT ![c] = Appended(w, files)]
             /\ UNCHANGED <<pc, result, local>>
    <3> DEFINE v == Appended(w, files)
    <3>1. v.enc = w.enc /\ WalkOf(files, t, v) /\ PartsOf(files, Exact(c), v.parts, v.seen)
      <4>1. v.enc = w.enc
        BY <2>1, <2>7, AppendedCall
      <4>2. WalkOf(files, t, v) /\ PartsOf(files, Exact(c), v.parts, v.seen)
        BY <2>1, <2>2, <2>7, WalkAppends
      <4> QED  BY <4>1, <4>2
    <3>2. walk'[c] = v
      BY <2>3, <2>7
    <3> HIDE DEF v
    <3>3. WalkOK(c)
      BY <2>2, <3>1, <3>2
    <3> QED  BY <1>6, <2>1, <2>4, <2>7, <3>3
  <2>8. CASE /\ w.todo # <<>> /\ item.name \notin w.seen
             /\ item.depth = 0 \/ item.name.type \notin DOMAIN files
             /\ \/ /\ w.enc = "ros2msg"
                   /\ walk' = [walk EXCEPT ![c] = StartWalk(c, "ros2idl")]
                   /\ UNCHANGED <<pc, result, local>>
                \/ w.enc = "ros2idl" /\ Rendered(c, Nothing) /\ UNCHANGED walk
    <3>1. GaveUp(files, t, w.enc)
      BY <2>1, <2>2, <2>8, WalkGivesUp
    <3>2. CASE /\ w.enc = "ros2msg"
               /\ walk' = [walk EXCEPT ![c] = StartWalk(c, "ros2idl")]
               /\ UNCHANGED <<pc, result, local>>
      <4> DEFINE v == StartWalk(c, "ros2idl")
                 idl == FilesOf(c)["ros2idl"]
      <4>1. idl \in Files /\ "ros2idl" \in Formats
        BY <2>3 DEF Formats
      <4>2. v.enc = "ros2idl" /\ WalkOf(idl, t, v) /\ PartsOf(idl, Exact(c), v.parts, v.seen)
        BY <2>1, <4>1, WalkStarts DEF StartWalk
      <4>3. walk'[c] = v
        BY <2>3, <3>2
      <4> HIDE DEF v
      <4>4. WalkOK(c)
        BY <3>1, <3>2, <4>2, <4>3
      <4> QED  BY <1>6, <2>1, <2>4, <3>2, <4>4
    <3>3. CASE w.enc = "ros2idl" /\ Rendered(c, Nothing) /\ UNCHANGED walk
      <4>1. local'[c] = Nothing /\ pc'[c] = "rendered"
        BY <2>3, <3>3 DEF Rendered, Goes
      <4>2. \A f \in Formats : GaveUp(FilesOf(c)[f], t, f)
        BY <2>2, <3>1, <3>3 DEF Formats
      <4> QED  BY <1>6, <4>1, <4>2
    <3> QED  BY <2>8, <3>2, <3>3
  <2> QED  BY <2>1, <2>5, <2>6, <2>7, <2>8, Rendering
<1>7. d # c => walk'[d] = walk[d] /\ local'[d] = local[d] /\ pc'[d] = pc[d]
  <2>1. CASE RenderJson(c)
    BY <2>1 DEF RenderJson, Rendered, Goes, TypeOK
  <2>2. CASE RenderDefinition(c)
    BY <2>2, Rendering DEF Rendered, Goes, TypeOK
  <2> QED  BY <2>1, <2>2
<1> QED  BY <1>4, <1>5, <1>6, <1>7

(* Neither does it matter when files are replaced under a rendering.       *)
LEMMA SameShapeFacts ==
  ASSUME NEW old \in Files, NEW new \in Files, NEW t \in Types, SameShape(old, new),
         NEW exact, exact => new = old
  PROVE  /\ \A enc : GaveUp(old, t, enc) => GaveUp(new, t, enc)
         /\ \A parts, seen : PartsOf(old, exact, parts, seen) => PartsOf(new, exact, parts, seen)
         /\ \A w : (\A n \in w.seen : n.type \in DOMAIN old) /\ WalkOf(old, t, w) =>
                     WalkOf(new, t, w)
<1>1. /\ Reachable(new, t) = Reachable(old, t) /\ DOMAIN new = DOMAIN old
      /\ \A enc : NamesOf(new, t, enc) = NamesOf(old, t, enc)
  BY ReachableSameShape DEF SameShape
<1>2. \A enc : GaveUp(old, t, enc) => GaveUp(new, t, enc)
  BY <1>1 DEF GaveUp
<1>3. ASSUME NEW parts, NEW seen, PartsOf(old, exact, parts, seen)
      PROVE  PartsOf(new, exact, parts, seen)
  <2>1. ASSUME NEW i \in 1..Len(parts)
        PROVE  /\ parts[i][2] \in 0..new[parts[i][1].type].rev
               /\ exact => parts[i][2] = new[parts[i][1].type].rev
    <3>1. CASE exact
      BY <1>3, <3>1 DEF PartsOf
    <3>2. CASE ~exact
      <4> DEFINE u == parts[i][1].type
      <4>1. u \in DOMAIN old /\ parts[i][2] \in 0..old[u].rev
        BY <1>3 DEF PartsOf
      <4>2. old[u].rev <= new[u].rev
        BY <4>1 DEF SameShape
      <4>3. old[u].rev \in 0..1 /\ new[u].rev \in 0..1
        BY <1>1, <4>1 DEF Files
      <4> QED  BY <3>2, <4>1, <4>2, <4>3
    <3> QED  BY <3>1, <3>2
  <2> QED  BY <1>1, <1>3, <2>1 DEF PartsOf
<1>4. ASSUME NEW w, \A n \in w.seen : n.type \in DOMAIN old, WalkOf(old, t, w)
      PROVE  WalkOf(new, t, w)
  <2>1. \A n \in w.seen : References(new, n.type, w.enc) = References(old, n.type, w.enc)
    BY <1>4 DEF References, SameShape
  <2> QED  BY <1>1, <1>4, <2>1 DEF WalkOf
<1> QED  BY <1>2, <1>3, <1>4

LEMMA WalkReplaced ==
  ASSUME TypeOK, TypeOK', WalkInv, LocalInv, NEW t \in Types, Replace(t)
  PROVE  WalkInv' /\ LocalInv'
<1>1. UNCHANGED <<req, pc, walk, local>>
  BY DEF Replace, renderVars
<1>2. ASSUME NEW c \in Callers, NEW e \in Encodings
      PROVE  LET old == FilesOf(c)[e]
                 new == FilesOf(c)'[e]
             IN  /\ old \in Files /\ new \in Files /\ TopicType(c) \in Types
                 /\ SameShape(old, new)
                 /\ Exact(c) => new = old
                 /\ \A enc : NamesOf(new, TopicType(c), enc) = NamesOf(old, TopicType(c), enc)
                 /\ \A enc : GaveUp(old, TopicType(c), enc) => GaveUp(new, TopicType(c), enc)
                 /\ \A parts, seen :
                      PartsOf(old, Exact(c), parts, seen) => PartsOf(new, Exact(c), parts, seen)
                 /\ \A w : (\A n \in w.seen : n.type \in DOMAIN old)
                              /\ WalkOf(old, TopicType(c), w) => WalkOf(new, TopicType(c), w)
  <2> DEFINE old == FilesOf(c)[e]
             new == FilesOf(c)'[e]
  <2>1. old \in Files /\ TopicType(c) \in Types /\ req[c].side \in Portals
    BY RequestFacts
  <2>2. new \in Files /\ SameShape(old, new) /\ (Exact(c) => new = old)
    BY <1>1, <2>1, Replaced DEF FilesOf, Exact
  <2> HIDE DEF old, new
  <2>3. \A enc : NamesOf(new, TopicType(c), enc) = NamesOf(old, TopicType(c), enc)
    BY <2>1, <2>2, ReachableSameShape
  <2>4. /\ \A enc : GaveUp(old, TopicType(c), enc) => GaveUp(new, TopicType(c), enc)
        /\ \A parts, seen :
             PartsOf(old, Exact(c), parts, seen) => PartsOf(new, Exact(c), parts, seen)
        /\ \A w : (\A n \in w.seen : n.type \in DOMAIN old) /\ WalkOf(old, TopicType(c), w) =>
                    WalkOf(new, TopicType(c), w)
    BY <2>1, <2>2, SameShapeFacts
  <2> QED  BY <2>1, <2>2, <2>3, <2>4 DEF old, new
<1>3. \A c \in Callers : /\ AsJson(c)' <=> AsJson(c)
                         /\ TopicType(c)' = TopicType(c)
                         /\ Exact(c)' = Exact(c)
  BY <1>1, SameQuestion
<1>4. WalkInv'
  <2> SUFFICES ASSUME NEW c \in Callers, pc[c] \in {"check", "fetch", "render"}, ~AsJson(c)
               PROVE  LET w == walk[c]
                          files == FilesOf(c)'[w.enc]
                      IN /\ WalkOf(files, TopicType(c), w)
                         /\ PartsOf(files, Exact(c), w.parts, w.seen)
                         /\ w.enc = "ros2idl" =>
                              GaveUp(FilesOf(c)'["ros2msg"], TopicType(c), "ros2msg")
    BY <1>1, <1>3 DEF WalkInv
  <2> DEFINE w == walk[c]
             old == FilesOf(c)[w.enc]
  <2>1. /\ WalkOf(old, TopicType(c), w) /\ PartsOf(old, Exact(c), w.parts, w.seen)
        /\ w.enc = "ros2idl" => GaveUp(FilesOf(c)["ros2msg"], TopicType(c), "ros2msg")
    BY DEF WalkInv
  <2>2. \A n \in w.seen : n.type \in DOMAIN old
    BY <2>1 DEF PartsOf
  <2>3. w.enc \in Encodings /\ "ros2msg" \in Encodings
    BY DEF TypeOK, Walk, Encodings, Formats
  <2> QED  BY <1>2, <2>1, <2>2, <2>3
<1>5. LocalInv'
  <2> SUFFICES ASSUME NEW c \in Callers, ~AsJson(c)
               PROVE  /\ local[c] # Nothing =>
                           LET files == FilesOf(c)'[local[c].enc]
                           IN /\ local[c].enc \in Formats
                              /\ PartsOf(files, Exact(c), local[c].parts,
                                         NamesOf(files, TopicType(c), local[c].enc))
                      /\ pc[c] = "rendered" /\ local[c] = Nothing =>
                           \A f \in Formats : GaveUp(FilesOf(c)'[f], TopicType(c), f)
    BY <1>1, <1>3 DEF LocalInv
  <2>1. \A f \in Formats : f \in Encodings
    BY DEF Encodings
  <2> QED  BY <1>2, <2>1 DEF LocalInv
<1> QED  BY <1>4, <1>5

-----------------------------------------------------------------------------
(* A caller's step changes what is the caller's, and wakes who waits.      *)
LEMMA StepEffect ==
  ASSUME TypeOK, NEW c \in Callers, Step(c)
  PROVE  /\ UNCHANGED <<install, req>>
         /\ \A d \in Callers : d # c =>
              /\ pc'[d] = pc[d] \/ (pc[d] = "waiting" /\ pc'[d] = "enter")
              /\ result'[d] = result[d] /\ local'[d] = local[d] /\ remote'[d] = remote[d]
         /\ pc[c] # "done"
         /\ pc[c] # "render" => local'[c] = local[c]
         /\ pc[c] # "fetch" => remote'[c] = remote[c]
         /\ result'[c] # result[c] => pc'[c] = "done"
<1>0. pc \in [Callers -> Steps] /\ result \in [Callers -> {"none", "ok", "failed"}]
      /\ local \in [Callers -> Schema] /\ remote \in [Callers -> Schema]
  BY DEF TypeOK, Steps
<1>1. CASE RenderJson(c)
  BY <1>0, <1>1 DEF RenderJson, Rendered, Goes
<1>2. CASE RenderDefinition(c)
  BY <1>0, <1>2, Rendering DEF Rendered, Goes
<1>3. CASE OutboundRendered(c)
  BY <1>0, <1>3 DEF OutboundRendered, Goes, Returns, renderVars
<1>4. CASE Enter(c)
  BY <1>0, <1>4 DEF Enter, Goes, Returns, renderVars
<1>5. CASE Define(c)
  BY <1>0, <1>5 DEF Define, Goes, Returns, renderVars
<1>6. CASE Accepted(c)
  BY <1>0, <1>6 DEF Accepted, WakeAll, renderVars
<1>7. CASE Refused(c)
  BY <1>0, <1>7 DEF Refused, WakeAll, renderVars
<1>8. CASE CheckTrack(c)
  BY <1>0, <1>8 DEF CheckTrack, Goes, Returns, renderVars
<1>9. CASE Fetch(c)
  BY <1>0, <1>9 DEF Fetch, Goes, Returns, renderVars
<1>10. CASE InboundRendered(c)
  BY <1>0, <1>10 DEF InboundRendered, Goes, Returns, renderVars
<1> QED  BY <1>1, <1>2, <1>3, <1>4, <1>5, <1>6, <1>7, <1>8, <1>9, <1>10 DEF Step

(* The two portals go separate ways.                                       *)
LEMMA SideStep ==
  ASSUME TypeOK, SideInv, NEW c \in Callers, Step(c)
  PROVE  SideInv'
<1>0. pc \in [Callers -> Steps]
  BY DEF TypeOK, Steps
<1>1. ASSUME NEW d \in Callers, d # c
      PROVE  /\ req'[d].side = "out" => pc'[d] \notin {"check", "fetch"}
             /\ req'[d].side = "in" => pc'[d] \notin {"enter", "waiting"} \cup Defining
  BY <1>1, StepEffect DEF SideInv
<1>2. /\ req'[c].side = "out" => pc'[c] \notin {"check", "fetch"}
      /\ req'[c].side = "in" => pc'[c] \notin {"enter", "waiting"} \cup Defining
  <2>1. /\ req' = req /\ req[c].side \in Portals
        /\ req[c].side = "out" => pc[c] \notin {"check", "fetch"}
        /\ req[c].side = "in" => pc[c] \notin {"enter", "waiting", "define", "accepted", "refused"}
    BY StepEffect, RequestFacts DEF SideInv, Defining
  <2>2. CASE RenderJson(c)
    BY <1>0, <2>1, <2>2 DEF RenderJson, Rendered, Goes, Defining
  <2>3. CASE RenderDefinition(c)
    BY <1>0, <2>1, <2>3, Rendering DEF Rendered, Goes, Defining
  <2>4. CASE OutboundRendered(c)
    BY <1>0, <2>1, <2>4 DEF OutboundRendered, Goes, Returns, Defining
  <2>5. CASE Enter(c)
    BY <1>0, <2>1, <2>5 DEF Enter, Goes, Returns, Defining, Portals
  <2>6. CASE Define(c)
    BY <1>0, <2>1, <2>6 DEF Define, Goes, Defining
  <2>7. CASE Accepted(c)
    BY <1>0, <2>1, <2>7 DEF Accepted, WakeAll, Defining
  <2>8. CASE Refused(c)
    BY <1>0, <2>1, <2>8 DEF Refused, WakeAll, Defining
  <2>9. CASE CheckTrack(c)
    BY <1>0, <2>1, <2>9 DEF CheckTrack, Goes, Returns, Defining, Portals
  <2>10. CASE Fetch(c)
    BY <1>0, <2>1, <2>10 DEF Fetch, Goes, Returns, Defining, Portals
  <2>11. CASE InboundRendered(c)
    BY <1>0, <2>1, <2>11 DEF InboundRendered, Returns, Defining
  <2> QED  BY <2>2, <2>3, <2>4, <2>5, <2>6, <2>7, <2>8, <2>9, <2>10, <2>11 DEF Step
<1> QED  BY <1>1, <1>2 DEF SideInv

(* A caller that defines a schema or has defined it keeps its rendering,   *)
(* and so does everybody else it shares defined_schemas_ with.             *)
LEMMA KeysStay ==
  ASSUME TypeOK, DefinedInv, NEW c \in Callers, Step(c)
  PROVE  /\ \A d \in Callers : pc[d] \in Defining \cup {"enter"} \/ result[d] # "none" =>
                                 local'[d] = local[d] /\ Key(d)' = Key(d)
         /\ \A d \in Callers : d # c /\ pc'[d] \in Defining => pc[d] \in Defining /\ pc'[d] = pc[d]
         /\ \A d \in Callers : d # c => result'[d] = result[d]
         /\ \A d \in Callers : result'[d] # "none" => pc'[d] = "done"
         /\ result[c] = "none"
<1>1. \A d \in Callers : pc[d] \in Defining \cup {"enter"} \/ result[d] # "none" =>
                           local'[d] = local[d]
  BY StepEffect DEF DefinedInv, Defining
<1>2. req' = req
  BY StepEffect
<1>3. \A d \in Callers : local'[d] = local[d] => Key(d)' = Key(d)
  BY <1>2, SameQuestion
<1>4. \A d \in Callers : d # c /\ pc'[d] \in Defining => pc[d] \in Defining /\ pc'[d] = pc[d]
  BY StepEffect DEF Defining
<1>5. result[c] = "none"
  BY StepEffect DEF DefinedInv
<1>6. \A d \in Callers : result'[d] # "none" => pc'[d] = "done"
  BY <1>5, StepEffect DEF DefinedInv
<1> QED  BY <1>1, <1>3, <1>4, <1>5, <1>6, StepEffect

LEMMA DefinedStep ==
  ASSUME TypeOK, SideInv, DefinedInv, NEW c \in Callers, Step(c)
  PROVE  DefinedInv'
<1>0. /\ pc \in [Callers -> Steps] /\ result \in [Callers -> {"none", "ok", "failed"}]
      /\ req' = req
  BY StepEffect DEF TypeOK, Steps
<1>1. \A d \in Callers : result'[d] # "none" => pc'[d] = "done"
  BY KeysStay
<1>2. CASE /\ UNCHANGED <<defined, room>>
           /\ pc'[c] \notin Defining
           /\ req[c].side = "out" /\ result'[c] = "ok" =>
                Key(c)' \in DOMAIN defined /\ defined[Key(c)'].text = local'[c] /\ defined[Key(c)'].done
  <2>1. \A d \in Callers : pc'[d] \in Defining =>
          pc[d] \in Defining /\ pc'[d] = pc[d] /\ local'[d] = local[d] /\ Key(d)' = Key(d)
    BY <1>2, KeysStay
  <2>2. \A d \in Callers : pc'[d] = "accepted" => pc'[d] \in Defining
    BY DEF Defining
  <2>3. \A d \in Callers : req[d].side = "out" /\ result'[d] = "ok" =>
          Key(d)' \in DOMAIN defined /\ defined[Key(d)'].text = local'[d] /\ defined[Key(d)'].done
    BY <1>2, KeysStay DEF DefinedInv
  <2> QED  BY <1>0, <1>1, <1>2, <2>1, <2>2, <2>3 DEF DefinedInv
<1>3. CASE RenderJson(c)
  <2>1. UNCHANGED <<defined, room, result>> /\ pc'[c] = "rendered" /\ result[c] = "none"
    BY <1>0, <1>3, KeysStay DEF RenderJson, Rendered, Goes
  <2> QED  BY <1>2, <2>1 DEF Defining
<1>4. CASE RenderDefinition(c)
  <2>1. UNCHANGED <<defined, room, result>> /\ pc'[c] \in {"render", "rendered"} /\ result[c] = "none"
    BY <1>0, <1>4, KeysStay, Rendering DEF Rendered, Goes
  <2> QED  BY <1>2, <2>1 DEF Defining
<1>5. CASE OutboundRendered(c) \/ CheckTrack(c) \/ Fetch(c)
  <2>1. UNCHANGED <<defined, room>> /\ pc'[c] \notin Defining /\ result'[c] # "ok"
    BY <1>0, <1>5, KeysStay DEF OutboundRendered, CheckTrack, Fetch, Goes, Returns, Defining
  <2> QED  BY <1>2, <2>1
<1>6. CASE InboundRendered(c)
  <2>1. UNCHANGED <<defined, room>> /\ pc'[c] = "done" /\ req[c].side # "out"
    BY <1>0, <1>6 DEF InboundRendered, Returns
  <2> QED  BY <1>2, <2>1 DEF Defining
<1>7. CASE Enter(c)
  <2>1. pc[c] = "enter" /\ local'[c] = local[c] /\ Key(c)' = Key(c) /\ UNCHANGED room
    BY <1>7, KeysStay DEF Enter
  <2>2. CASE /\ Key(c) \notin DOMAIN defined
             /\ defined' = With(defined, Key(c), [text |-> local[c], done |-> FALSE])
             /\ Goes(c, "define")
    <3>1. /\ Key(c) \in DOMAIN defined' /\ defined'[Key(c)] = [text |-> local[c], done |-> FALSE]
          /\ \A k \in DOMAIN defined : k # Key(c) /\ k \in DOMAIN defined' /\ defined'[k] = defined[k]
          /\ \A k \in DOMAIN defined' : k = Key(c) \/ k \in DOMAIN defined
      BY <2>2 DEF With
    <3>2. pc'[c] = "define" /\ result'[c] = "none"
      BY <1>0, <2>2, KeysStay DEF Goes
    <3>3. \A d \in Callers : d # c /\ pc'[d] \in Defining =>
            /\ pc[d] \in Defining /\ pc'[d] = pc[d] /\ local'[d] = local[d] /\ Key(d)' = Key(d)
            /\ Key(d) \in DOMAIN defined
      BY KeysStay DEF DefinedInv
    <3>4. \A d \in Callers : req[d].side = "out" /\ result'[d] = "ok" =>
            d # c /\ local'[d] = local[d] /\ Key(d)' = Key(d) /\ result[d] = "ok"
      BY <3>2, KeysStay
    <3>5. \A k \in DOMAIN defined' : defined'[k].done =>
            k \in DOMAIN room /\ room[k] = defined'[k].text
      BY <3>1 DEF DefinedInv
    <3>6. \A d \in Callers : pc'[d] \in Defining =>
            Key(d)' \in DOMAIN defined' /\ defined'[Key(d)'].text = local'[d] /\ ~defined'[Key(d)'].done
      BY <2>1, <3>1, <3>3 DEF DefinedInv
    <3>7. \A d, e \in Callers :
            pc'[d] \in Defining /\ pc'[e] \in Defining /\ Key(d)' = Key(e)' => d = e
      BY <2>1, <3>1, <3>3 DEF DefinedInv
    <3>8. \A d \in Callers : pc'[d] = "accepted" => Key(d)' \in DOMAIN room /\ room[Key(d)'] = local'[d]
      BY <3>2, <3>3 DEF DefinedInv, Defining
    <3>9. \A d \in Callers : req[d].side = "out" /\ result'[d] = "ok" =>
            Key(d)' \in DOMAIN defined' /\ defined'[Key(d)'].text = local'[d] /\ defined'[Key(d)'].done
      BY <3>1, <3>4 DEF DefinedInv
    <3> QED  BY <1>0, <1>1, <2>1, <3>5, <3>6, <3>7, <3>8, <3>9 DEF DefinedInv
  <2>3. CASE /\ Key(c) \in DOMAIN defined
             /\ IF defined[Key(c)].text # local[c] THEN Returns(c, "failed")
                ELSE IF defined[Key(c)].done THEN Returns(c, "ok")
                ELSE Goes(c, "waiting")
             /\ UNCHANGED defined
    <3>1. /\ pc'[c] \notin Defining
          /\ result'[c] = "ok" => defined[Key(c)].text = local[c] /\ defined[Key(c)].done
      BY <1>0, <2>3, KeysStay DEF Goes, Returns, Defining
    <3> QED  BY <1>2, <2>1, <2>3, <3>1
  <2> QED  BY <1>7, <2>2, <2>3 DEF Enter
<1>8. CASE Define(c)
  <2>1. /\ pc[c] \in Defining /\ local'[c] = local[c] /\ Key(c)' = Key(c) /\ UNCHANGED defined
        /\ result'[c] = "none"
    BY <1>8, KeysStay DEF Define, Goes, Defining
  <2>2. CASE room' = With(room, Key(c), local[c]) /\ Goes(c, "accepted")
    <3>1. /\ Key(c) \in DOMAIN room' /\ room'[Key(c)] = local[c]
          /\ \A k \in DOMAIN room : k # Key(c) => k \in DOMAIN room' /\ room'[k] = room[k]
      BY <2>2 DEF With
    <3>2. pc'[c] = "accepted"
      BY <1>0, <2>2 DEF Goes
    <3>3. \A d \in Callers : pc'[d] \in Defining =>
            /\ pc[d] \in Defining /\ local'[d] = local[d] /\ Key(d)' = Key(d)
            /\ d # c => pc'[d] = pc[d] /\ Key(d) # Key(c)
      BY <2>1, KeysStay DEF DefinedInv
    <3>4. \A k \in DOMAIN defined : defined[k].done =>
            k \in DOMAIN room' /\ room'[k] = defined[k].text
      BY <2>1, <3>1 DEF DefinedInv
    <3>5. \A d \in Callers : pc'[d] = "accepted" => Key(d)' \in DOMAIN room' /\ room'[Key(d)'] = local'[d]
      BY <2>1, <3>1, <3>3 DEF DefinedInv, Defining
    <3>6. \A d \in Callers : req[d].side = "out" /\ result'[d] = "ok" =>
            local'[d] = local[d] /\ Key(d)' = Key(d) /\ result[d] = "ok"
      BY <2>1, KeysStay
    <3> QED  BY <1>0, <1>1, <2>1, <3>3, <3>4, <3>5, <3>6 DEF DefinedInv
  <2>3. CASE Goes(c, "refused") /\ UNCHANGED room
    <3>1. pc'[c] = "refused"
      BY <1>0, <2>3 DEF Goes
    <3>2. \A d \in Callers : pc'[d] \in Defining =>
            /\ pc[d] \in Defining /\ local'[d] = local[d] /\ Key(d)' = Key(d)
            /\ d # c => pc'[d] = pc[d]
      BY <2>1, KeysStay
    <3>3. \A d \in Callers : pc'[d] = "accepted" => d # c /\ pc'[d] \in Defining
      BY <3>1 DEF Defining
    <3>4. \A d \in Callers : req[d].side = "out" /\ result'[d] = "ok" =>
            local'[d] = local[d] /\ Key(d)' = Key(d) /\ result[d] = "ok"
      BY <2>1, KeysStay
    <3>5. \A d \in Callers : pc'[d] = "accepted" => Key(d)' \in DOMAIN room /\ room[Key(d)'] = local'[d]
      BY <3>2, <3>3 DEF DefinedInv
    <3> QED  BY <1>0, <1>1, <2>1, <2>3, <3>2, <3>4, <3>5 DEF DefinedInv
  <2> QED  BY <1>8, <2>2, <2>3 DEF Define
<1>9. CASE Accepted(c)
  <2>1. /\ pc[c] \in Defining /\ local'[c] = local[c] /\ Key(c)' = Key(c) /\ UNCHANGED room
        /\ Key(c) \in DOMAIN defined /\ defined[Key(c)].text = local[c]
        /\ Key(c) \in DOMAIN room /\ room[Key(c)] = local[c]
        /\ defined[Key(c)] \in [text : Schema, done : BOOLEAN]
    BY <1>9, KeysStay DEF Accepted, Defining, DefinedInv, TypeOK
  <2>2. /\ DOMAIN defined' = DOMAIN defined
        /\ defined'[Key(c)].text = local[c] /\ defined'[Key(c)].done
        /\ \A k \in DOMAIN defined : k # Key(c) => defined'[k] = defined[k]
    BY <1>9, <2>1 DEF Accepted
  <2>3. pc'[c] = "done" /\ pc'[c] \notin Defining
    BY <1>0, <1>9 DEF Accepted, WakeAll, Defining
  <2>4. \A d \in Callers : pc'[d] \in Defining =>
          /\ d # c /\ pc[d] \in Defining /\ pc'[d] = pc[d] /\ local'[d] = local[d] /\ Key(d)' = Key(d)
          /\ Key(d) # Key(c)
    BY <2>1, <2>3, KeysStay DEF DefinedInv
  <2>5. \A k \in DOMAIN defined' : defined'[k].done =>
          k \in DOMAIN room /\ room[k] = defined'[k].text
    BY <2>1, <2>2 DEF DefinedInv
  <2>6. \A d \in Callers : pc'[d] \in Defining =>
          Key(d)' \in DOMAIN defined' /\ defined'[Key(d)'].text = local'[d] /\ ~defined'[Key(d)'].done
    BY <2>2, <2>4 DEF DefinedInv
  <2>7. \A d \in Callers : pc'[d] = "accepted" => Key(d)' \in DOMAIN room /\ room[Key(d)'] = local'[d]
    BY <2>4 DEF DefinedInv, Defining
  <2>8. \A d \in Callers : req[d].side = "out" /\ result'[d] = "ok" =>
          Key(d)' \in DOMAIN defined' /\ defined'[Key(d)'].text = local'[d] /\ defined'[Key(d)'].done
    BY <2>1, <2>2, KeysStay DEF DefinedInv
  <2> QED  BY <1>0, <1>1, <2>1, <2>4, <2>5, <2>6, <2>7, <2>8 DEF DefinedInv
<1>10. CASE Refused(c)
  <2>1. /\ pc[c] \in Defining /\ local'[c] = local[c] /\ Key(c)' = Key(c) /\ UNCHANGED room
        /\ Key(c) \in DOMAIN defined /\ ~defined[Key(c)].done
    BY <1>10, KeysStay DEF Refused, Defining, DefinedInv
  <2>2. /\ DOMAIN defined' = DOMAIN defined \ {Key(c)}
        /\ \A k \in DOMAIN defined : k # Key(c) => defined'[k] = defined[k]
    BY <1>10 DEF Refused, Restrict
  <2>3. pc'[c] = "done" /\ pc'[c] \notin Defining /\ result'[c] = "failed"
    BY <1>0, <1>10 DEF Refused, WakeAll, Defining
  <2>4. \A d \in Callers : pc'[d] \in Defining =>
          /\ d # c /\ pc[d] \in Defining /\ pc'[d] = pc[d] /\ local'[d] = local[d] /\ Key(d)' = Key(d)
          /\ Key(d) # Key(c)
    BY <2>1, <2>3, KeysStay DEF DefinedInv
  <2>5. \A k \in DOMAIN defined' : defined'[k].done =>
          k \in DOMAIN room /\ room[k] = defined'[k].text
    BY <2>2 DEF DefinedInv
  <2>6. \A d \in Callers : pc'[d] \in Defining =>
          Key(d)' \in DOMAIN defined' /\ defined'[Key(d)'].text = local'[d] /\ ~defined'[Key(d)'].done
    BY <2>2, <2>4 DEF DefinedInv
  <2>7. \A d \in Callers : pc'[d] = "accepted" => Key(d)' \in DOMAIN room /\ room[Key(d)'] = local'[d]
    BY <2>4 DEF DefinedInv, Defining
  <2>8. \A d \in Callers : req[d].side = "out" /\ result'[d] = "ok" =>
          Key(d)' \in DOMAIN defined' /\ defined'[Key(d)'].text = local'[d] /\ defined'[Key(d)'].done
    BY <2>1, <2>2, <2>3, KeysStay DEF DefinedInv
  <2> QED  BY <1>0, <1>1, <2>1, <2>4, <2>5, <2>6, <2>7, <2>8 DEF DefinedInv
<1> QED  BY <1>3, <1>4, <1>5, <1>6, <1>7, <1>8, <1>9, <1>10 DEF Step

(* A schema that a caller has rendered, it keeps.                          *)
StillRenders(id, schema) ==
  \E d \in Callers : /\ req'[d].side = "out" /\ pc'[d] # "render"
                     /\ Key(d)' = id /\ local'[d] = schema

LEMMA RendersStay ==
  ASSUME TypeOK, SideInv, NEW c \in Callers, Step(c)
  PROVE  \A id, schema : Renders(id, schema) => StillRenders(id, schema)
<1> SUFFICES ASSUME NEW id, NEW schema, NEW d \in Callers,
                    req[d].side = "out", pc[d] # "render", Key(d) = id, local[d] = schema
             PROVE  /\ req'[d].side = "out" /\ pc'[d] # "render"
                    /\ Key(d)' = id /\ local'[d] = schema
  BY DEF Renders, StillRenders
<1>1. req' = req /\ local'[d] = local[d]
  BY StepEffect
<1>2. pc'[d] # "render"
  <2>1. CASE d # c
    BY <2>1, StepEffect
  <2>2. CASE d = c
    <3>1. pc[c] \notin {"check", "fetch", "render"}
      BY <2>2 DEF SideInv
    <3>2. CASE RenderJson(c) \/ RenderDefinition(c)
      BY <3>1, <3>2, Rendering DEF RenderJson
    <3>3. CASE Asking(c)
      BY <2>2, <3>1, <3>3, AskingLeaves
    <3> QED  BY <3>2, <3>3 DEF Step, Asking
  <2> QED  BY <2>1, <2>2
<1> QED  BY <1>1, <1>2, SameQuestion

LEMMA RoomStep ==
  ASSUME TypeOK, SideInv, DefinedInv, RoomInv, NEW c \in Callers, Step(c)
  PROVE  RoomInv'
<1>0. /\ pc \in [Callers -> Steps] /\ result \in [Callers -> {"none", "ok", "failed"}]
      /\ local \in [Callers -> Schema] /\ remote \in [Callers -> Schema]
      /\ req' = req
  BY StepEffect DEF TypeOK, Steps
<1>1. \A id, schema : Renders(id, schema) => StillRenders(id, schema)
  BY RendersStay
<1>2. \A k \in DOMAIN room' : StillRenders(k, room'[k])
  <2>1. CASE room' = room
    BY <1>1, <2>1 DEF RoomInv
  <2>2. CASE Define(c) /\ room' = With(room, Key(c), local[c])
    <3>1. req[c].side = "out" /\ pc[c] # "render" /\ c \in Callers
      BY <2>2, RequestFacts DEF Define, SideInv, Defining, Portals
    <3>2. Renders(Key(c), local[c])
      BY <3>1 DEF Renders
    <3>3. \A k \in DOMAIN room' :
            (k = Key(c) /\ room'[k] = local[c]) \/ (k \in DOMAIN room /\ room'[k] = room[k])
      BY <2>2 DEF With
    <3> QED  BY <1>1, <3>2, <3>3 DEF RoomInv
  <2>3. RenderDefinition(c) => room' = room
    BY Rendering
  <2>4. room' = room \/ (Define(c) /\ room' = With(room, Key(c), local[c]))
    BY <2>3 DEF Step, RenderJson, OutboundRendered, Enter, Define, Accepted, Refused, CheckTrack,
                Fetch, InboundRendered
  <2> QED  BY <2>1, <2>2, <2>4
<1> DEFINE Fine(d) ==
      /\ pc'[d] \in {"fetch", "render", "rendered"} \/ result'[d] = "ok" => WellFormed(d)
      /\ pc'[d] \in {"render", "rendered"} \/ result'[d] = "ok" => StillRenders(Id(d), remote'[d])
      /\ result'[d] = "ok" => /\ local'[d] # Nothing
                              /\ local'[d].enc = req[d].enc /\ local'[d].parts = remote'[d].parts
<1>3. ASSUME NEW d \in Callers, req[d].side = "in", req[d].enc \in Formats PROVE Fine(d)
  <2>1. /\ pc[d] \in {"fetch", "render", "rendered"} \/ result[d] = "ok" => WellFormed(d)
        /\ pc[d] \in {"render", "rendered"} \/ result[d] = "ok" => Renders(Id(d), remote[d])
        /\ result[d] = "ok" => /\ local[d] # Nothing
                               /\ local[d].enc = req[d].enc /\ local[d].parts = remote[d].parts
        /\ result[d] # "none" => pc[d] = "done"
    BY <1>3 DEF RoomInv, Matches, DefinedInv
  <2>2. Id(d)' = Id(d) /\ \A id, schema : Renders(id, schema) => StillRenders(id, schema)
    BY <1>0, <1>1, SameQuestion
  <2>3. Renders(Id(d), remote[d]) /\ remote'[d] = remote[d] => StillRenders(Id(d), remote'[d])
    BY <2>2
  <2>4. CASE /\ pc'[d] \in {"fetch", "render", "rendered"} =>
                  pc[d] \in {"fetch", "render", "rendered"}
             /\ pc'[d] \in {"render", "rendered"} => pc[d] \in {"render", "rendered"}
             /\ result'[d] = "ok" => result[d] = "ok"
             /\ remote'[d] = remote[d]
             /\ result[d] # "none" => local'[d] = local[d]
    BY <2>1, <2>3, <2>4
  <2>5. CASE d # c
    BY <2>4, <2>5, StepEffect
  <2>6. CASE d = c
    <3>1. req[c].enc # "jsonschema" /\ req[c].side # "out" /\ result[c] = "none"
      BY <1>3, <2>6, KeysStay DEF Formats
    <3>2. CASE RenderJson(c) \/ RenderDefinition(c)
      <4>1. pc[c] = "render" /\ UNCHANGED <<result, remote>>
        BY <3>2, Rendering DEF RenderJson, Rendered, Goes
      <4> QED  BY <2>4, <2>6, <3>1, <4>1
    <3>3. CASE OutboundRendered(c) \/ Enter(c) \/ Define(c) \/ Accepted(c) \/ Refused(c)
      <4>1. pc[c] \in {"enter"} \cup Defining
        BY <3>1, <3>3 DEF OutboundRendered, Enter, Define, Accepted, Refused, Defining
      <4> QED  BY <1>3, <2>6, <4>1 DEF SideInv
    <3>4. CASE CheckTrack(c)
      <4>1. \/ pc'[c] = "done" /\ result'[c] = "failed"
            \/ pc'[c] = "fetch" /\ result'[c] = "none" /\ WellFormed(c)
        BY <1>0, <3>1, <3>4 DEF CheckTrack, Goes, Returns
      <4> QED  BY <2>6, <4>1
    <3>5. CASE Fetch(c)
      <4>1. pc[c] = "fetch" /\ WellFormed(c)
        BY <2>1, <2>6, <3>5 DEF Fetch
      <4>2. CASE pc'[c] = "done" /\ result'[c] = "failed"
        BY <2>6, <4>2
      <4>3. CASE /\ Id(c) \in DOMAIN room /\ remote'[c] = room[Id(c)]
                 /\ pc'[c] = "render" /\ result'[c] = "none"
        BY <2>2, <2>6, <4>1, <4>3 DEF RoomInv
      <4> QED  BY <1>0, <3>1, <3>5, <4>2, <4>3 DEF Fetch, Goes, Returns
    <3>6. CASE InboundRendered(c)
      <4>1. /\ pc[c] = "rendered" /\ pc'[c] = "done" /\ UNCHANGED <<local, remote>>
            /\ result'[c] = "ok" => local[c] # Nothing /\ Matches(c)
        BY <1>0, <3>1, <3>6 DEF InboundRendered, Returns, renderVars
      <4>2. WellFormed(c) /\ StillRenders(Id(c), remote'[c])
        BY <2>1, <2>3, <2>6, <4>1
      <4> QED  BY <2>6, <4>1, <4>2 DEF Matches
    <3> QED  BY <3>2, <3>3, <3>4, <3>5, <3>6 DEF Step
  <2> QED  BY <2>5, <2>6
<1>4. \A d \in Callers : (WellFormed(d)' <=> WellFormed(d)) /\ Id(d)' = Id(d)
  BY <1>0, SameQuestion
<1>5. \A d \in Callers : req[d].side = "in" /\ req[d].enc \in Formats =>
        /\ pc'[d] \in {"fetch", "render", "rendered"} \/ result'[d] = "ok" => WellFormed(d)'
        /\ pc'[d] \in {"render", "rendered"} \/ result'[d] = "ok" => StillRenders(Id(d)', remote'[d])
        /\ result'[d] = "ok" => local'[d] # Nothing /\ Matches(d)'
  BY <1>0, <1>3, <1>4 DEF Matches
<1> QED  BY <1>0, <1>2, <1>5 DEF RoomInv, Renders, StillRenders

-----------------------------------------------------------------------------
(* Replacing a file and idling change nothing of the rest.                 *)
LEMMA RestStays ==
  ASSUME SideInv, DefinedInv, RoomInv,
         UNCHANGED <<req, pc, local, remote, result, defined, room>>
  PROVE  SideInv' /\ DefinedInv' /\ RoomInv'
<1>1. \A c \in Callers : /\ Key(c)' = Key(c) /\ Id(c)' = Id(c)
                         /\ WellFormed(c)' <=> WellFormed(c)
                         /\ Matches(c)' <=> Matches(c)
  BY SameQuestion DEF Matches
<1>2. SideInv'
  BY DEF SideInv
<1>3. DefinedInv'
  BY <1>1 DEF DefinedInv
<1>4. RoomInv'
  BY <1>1 DEF RoomInv, Renders
<1> QED  BY <1>2, <1>3, <1>4

LEMMA InvInit == Init => IInv
<1> SUFFICES ASSUME Init PROVE IInv
  OBVIOUS
<1>1. /\ install \in [Portals -> [Encodings -> Files]] /\ req \in [Callers -> RequestType]
      /\ \A c \in Callers : /\ pc[c] = IF req[c].side = "out" THEN "render" ELSE "check"
                            /\ walk[c] = StartWalk(c, "ros2msg") /\ local[c] = Nothing
                            /\ remote[c] = Nothing /\ result[c] = "none"
      /\ DOMAIN defined = {} /\ DOMAIN room = {}
  BY ScenariosAssumption DEF Init
<1>2. \A c \in Callers : /\ TopicType(c) \in Types /\ \A e \in Encodings : FilesOf(c)[e] \in Files
  <2>1. \A c \in Callers : req[c] \in RequestType
    BY <1>1
  <2>2. ASSUME NEW c \in Callers PROVE TopicType(c) \in Types /\ req[c].side \in Portals
    <3>1. CASE req[c] \in [side : {"out"}, type : Types, enc : Encodings]
      BY <3>1 DEF Portals, TopicType
    <3>2. CASE req[c] \in [side : {"in"}, graph : BoundedSeq(Types, 2), name : Types,
                           enc : Encodings \cup {"none"}, frame : {"cdr", "json", "none"}]
      <4>1. PICK m \in 0..2 : req[c].graph \in [1..m -> Types]
        BY <3>2 DEF BoundedSeq, SeqOf
      <4>2. req[c].graph \in Seq(Types)
        BY <4>1
      <4>3. req[c].graph # <<>> => Head(req[c].graph) \in Types
        BY <4>2, HeadTailProperties
      <4> QED  BY <3>2, <4>3 DEF Portals, TopicType, ResolveInboundRosTopicType
    <3> QED  BY <2>1, <3>1, <3>2 DEF RequestType
  <2> QED  BY <1>1, <2>2 DEF FilesOf
<1>3. \A c \in Callers : LET w == walk[c]
                             files == FilesOf(c)["ros2msg"]
                         IN  /\ w \in Walk /\ w.enc = "ros2msg" /\ WalkOf(files, TopicType(c), w)
                             /\ PartsOf(files, Exact(c), w.parts, w.seen)
  <2> SUFFICES ASSUME NEW c \in Callers
               PROVE  LET w == walk[c]
                          files == FilesOf(c)["ros2msg"]
                      IN  /\ w \in Walk /\ w.enc = "ros2msg" /\ WalkOf(files, TopicType(c), w)
                          /\ PartsOf(files, Exact(c), w.parts, w.seen)
    OBVIOUS
  <2>1. "ros2msg" \in Formats /\ FilesOf(c)["ros2msg"] \in Files /\ TopicType(c) \in Types
    BY <1>2 DEF Formats, Encodings
  <2>2. /\ walk[c] = [enc |-> "ros2msg", todo |-> <<[name |-> Root(TopicType(c)), depth |-> MaxDepth]>>,
                      seen |-> {}, parts |-> <<>>]
        /\ walk[c].enc = "ros2msg"
    BY <1>1 DEF StartWalk
  <2> QED  BY <2>1, <2>2, WalkStarts
<1>4. TypeOK
  <2>1. walk \in [Callers -> Walk]
    BY <1>1, <1>3 DEF Init
  <2>2. Nothing \in Schema
    BY EmptySeq DEF Nothing, Schema
  <2> QED  BY <1>1, <2>1, <2>2 DEF TypeOK, Init
<1>5. WalkInv
  BY <1>3 DEF WalkInv
<1>6. LocalInv
  BY <1>1 DEF LocalInv
<1>7. SideInv
  BY <1>1 DEF SideInv, Defining
<1>8. DefinedInv
  BY <1>1 DEF DefinedInv, Defining
<1>9. RoomInv
  BY <1>1 DEF RoomInv
<1> QED  BY <1>4, <1>5, <1>6, <1>7, <1>8, <1>9 DEF IInv

LEMMA InvStep == IInv /\ [Next]_vars => IInv'
<1> SUFFICES ASSUME IInv, [Next]_vars PROVE IInv'
  OBVIOUS
<1>0. TypeOK /\ WalkInv /\ LocalInv /\ SideInv /\ DefinedInv /\ RoomInv /\ TypeOK'
  BY TypeStep DEF IInv
<1>1. ASSUME NEW c \in Callers, Step(c) PROVE IInv'
  <2>1. SideInv' /\ DefinedInv' /\ RoomInv'
    BY <1>0, <1>1, SideStep, DefinedStep, RoomStep
  <2>2. WalkInv' /\ LocalInv'
    BY <1>0, <1>1, WalkAsking, WalkRenders DEF Step, Asking
  <2> QED  BY <1>0, <2>1, <2>2 DEF IInv
<1>2. ASSUME NEW t \in Types, Replace(t) PROVE IInv'
  <2>1. SideInv' /\ DefinedInv' /\ RoomInv'
    BY <1>0, <1>2, RestStays DEF Replace, renderVars
  <2>2. WalkInv' /\ LocalInv'
    BY <1>0, <1>2, WalkReplaced
  <2> QED  BY <1>0, <2>1, <2>2 DEF IInv
<1>3. CASE UNCHANGED vars
  <2>1. SideInv' /\ DefinedInv' /\ RoomInv'
    BY <1>0, <1>3, RestStays DEF vars, renderVars
  <2>2. UNCHANGED <<install, req, pc, walk, local>>
    BY <1>3 DEF vars, renderVars
  <2>3. \A c \in Callers : /\ AsJson(c)' <=> AsJson(c)
                           /\ TopicType(c)' = TopicType(c)
                           /\ Exact(c)' = Exact(c)
                           /\ FilesOf(c)' = FilesOf(c)
    BY <2>2, SameQuestion
  <2>4. WalkInv' /\ LocalInv'
    BY <1>0, <2>2, <2>3 DEF WalkInv, LocalInv
  <2> QED  BY <1>0, <2>1, <2>4 DEF IInv
<1> QED  BY <1>1, <1>2, <1>3 DEF Next, Idle

-----------------------------------------------------------------------------
(* Every variable keeps its type, whatever is installed and asked for.     *)
THEOREM TypeCorrect == Spec => []TypeOK
<1>1. Init => TypeOK
  BY InvInit DEF IInv
<1>2. TypeOK /\ [Next]_vars => TypeOK'
  BY TypeStep
<1> QED  BY <1>1, <1>2, PTL DEF Spec

(* The walks, the renderings, defined_schemas_ and the room fit together   *)
(* in every state.                                                         *)
THEOREM Invariant == Spec => []IInv
BY InvInit, InvStep, PTL DEF Spec

(* renderRosMessageSchema() gives everything a type is made of, once by    *)
(* each name it goes by, for every graph of dependencies, and gives up     *)
(* only when something is missing or there are more names than the limit   *)
(* of the depth.                                                           *)
THEOREM RenderIsComplete == Spec => []RenderIsClosure
<1>1. IInv => RenderIsClosure
  <2> SUFFICES ASSUME IInv, NEW c \in Callers, pc[c] = "rendered", ~AsJson(c)
               PROVE  LET files(f) == FilesOf(c)[f]
                          names(f) == NamesOf(files(f), TopicType(c), f)
                          enc == local[c].enc
                          parts == local[c].parts
                      IN IF local[c] # Nothing
                         THEN /\ {p[1] : p \in ToSet(parts)} = names(enc)
                              /\ Len(parts) = Cardinality(names(enc))
                              /\ \A p \in ToSet(parts) : p[2] <= files(enc)[p[1].type].rev
                         ELSE \A f \in Formats :
                                Reachable(files(f), TopicType(c)) \subseteq DOMAIN files(f) =>
                                  Cardinality(names(f)) > MaxDepth
    BY DEF RenderIsClosure
  <2>1. TypeOK /\ LocalInv
    BY DEF IInv
  <2>2. CASE local[c] # Nothing
    <3> DEFINE enc == local[c].enc
               files == FilesOf(c)[enc]
               names == NamesOf(files, TopicType(c), enc)
               parts == local[c].parts
    <3>1. enc \in Formats /\ PartsOf(files, Exact(c), parts, names)
      BY <2>1, <2>2 DEF LocalInv
    <3>2. parts \in Seq(Names \X (0..1)) /\ files \in Files
      BY <2>1, <3>1, RequestFacts DEF TypeOK, Schema, Encodings
    <3>3. DOMAIN parts = 1..Len(parts) /\ \A i \in 1..Len(parts) : parts[i] \in Names \X (0..1)
      BY <3>2, ElementOfSeq, LenProperties
    <3> HIDE DEF parts, files, names
    <3>4. /\ \A i \in 1..Len(parts) : /\ parts[i][1] \in names
                                      /\ parts[i][2] \in 0..files[parts[i][1].type].rev
          /\ \A n \in names : \E i \in 1..Len(parts) : parts[i][1] = n
      BY <3>1, Zenon DEF PartsOf
    <3>5. ToSet(parts) = {parts[i] : i \in 1..Len(parts)}
      BY <3>3 DEF ToSet
    <3>6. {p[1] : p \in ToSet(parts)} = names
      BY <3>4, <3>5
    <3>7. \A p \in ToSet(parts) : p[2] <= files[p[1].type].rev
      BY <3>4, <3>5
    <3>8. Len(parts) = Cardinality(names)
      BY <3>1 DEF PartsOf
    <3> QED  BY <2>2, <3>6, <3>7, <3>8 DEF parts, files, names
  <2>3. CASE local[c] = Nothing
    BY <2>1, <2>3 DEF LocalInv, GaveUp
  <2> QED  BY <2>2, <2>3
<1> QED  BY <1>1, Invariant, PTL

(* Whoever gets an ID from ensureSchemaDefined() finds the schema it       *)
(* rendered under it, however many threads define however many schemas.    *)
THEOREM IdsMeanWhatTheySay == Spec => []IdsAreDefined
<1>1. IInv => IdsAreDefined
  BY DEF IInv, DefinedInv, IdsAreDefined
<1> QED  BY <1>1, Invariant, PTL

(* An inbound track is taken only with a definition that another portal    *)
(* rendered of the very files that are installed here.                     *)
THEOREM AcceptedTracksAreShared == Spec => []AcceptedIsShared
<1>1. IInv => AcceptedIsShared
  <2> SUFFICES ASSUME IInv, NEW c \in Callers, req[c].side = "in", result[c] = "ok",
                      req[c].enc \in Formats
               PROVE  LET files == install["in"][req[c].enc]
                          type == req[c].name
                      IN /\ req[c].graph = <<>> \/ type \in ToSet(req[c].graph)
                         /\ \E d \in Callers :
                              /\ req[d].side = "out" /\ req[d].type = type
                              /\ ToSet(local[d].parts) =
                                   {<<n, files[n.type].rev>> :
                                      n \in NamesOf(files, type, req[c].enc)}
    BY DEF AcceptedIsShared
  <2> DEFINE files == install["in"][req[c].enc]
             type == req[c].name
             parts == local[c].parts
             names == NamesOf(files, type, req[c].enc)
  <2>1. TypeOK /\ LocalInv /\ RoomInv
    BY DEF IInv
  <2>2. WellFormed(c) /\ Renders(Id(c), remote[c]) /\ local[c] # Nothing /\ Matches(c)
    BY <2>1 DEF RoomInv
  <2>3. type = ResolveInboundRosTopicType(req[c]) /\ type = TopicType(c)
    BY <2>2 DEF WellFormed, TopicType
  <2>4. req[c].graph = <<>> \/ type \in ToSet(req[c].graph)
    <3>1. req[c].graph # <<>> => Head(req[c].graph) \in ToSet(req[c].graph)
      <4> SUFFICES ASSUME req[c].graph # <<>> PROVE Head(req[c].graph) \in ToSet(req[c].graph)
        OBVIOUS
      <4>1. req[c].graph \in Seq(Types)
        BY <2>1, RequestFacts
      <4>2. Len(req[c].graph) \in Nat \ {0} /\ Head(req[c].graph) = req[c].graph[1]
            /\ DOMAIN req[c].graph = 1..Len(req[c].graph)
        BY <4>1, EmptySeq, LenProperties
      <4> QED  BY <4>2 DEF ToSet
    <3> QED  BY <2>3, <3>1 DEF ResolveInboundRosTopicType
  <2>5. PICK d \in Callers : /\ req[d].side = "out" /\ Key(d) = Id(c) /\ local[d] = remote[c]
    BY <2>2 DEF Renders
  <2>6. req[d].type = type /\ local[d].parts = parts /\ local[c].enc = req[c].enc
    BY <2>2, <2>5 DEF Key, Id, TopicType, Matches
  <2>7. PartsOf(files, TRUE, parts, names)
    <3>1. ~AsJson(c) /\ Exact(c) = TRUE /\ FilesOf(c) = install["in"]
      BY DEF AsJson, Exact, FilesOf
    <3> QED  BY <2>1, <2>2, <2>3, <2>6, <3>1 DEF LocalInv
  <2>8. parts \in Seq(Names \X (0..1))
    BY <2>1 DEF TypeOK, Schema
  <2>9. ToSet(parts) = {<<n, files[n.type].rev>> : n \in names}
    <3>1. DOMAIN parts = 1..Len(parts) /\ \A i \in 1..Len(parts) : parts[i] \in Names \X (0..1)
      BY <2>8, ElementOfSeq, LenProperties
    <3> HIDE DEF parts, files, names
    <3>2. \A i \in 1..Len(parts) :
            parts[i][1] \in names /\ parts[i][2] = files[parts[i][1].type].rev
      BY <2>7, Zenon DEF PartsOf
    <3>3. \A n \in names : \E i \in 1..Len(parts) : parts[i][1] = n
      BY <2>7, Zenon DEF PartsOf
    <3>4. \A i \in 1..Len(parts) : parts[i] = <<parts[i][1], files[parts[i][1].type].rev>>
      <4> SUFFICES ASSUME NEW i \in 1..Len(parts)
                   PROVE  parts[i] = <<parts[i][1], files[parts[i][1].type].rev>>
        OBVIOUS
      <4>1. parts[i] \in Names \X (0..1) /\ parts[i][2] = files[parts[i][1].type].rev
        BY <3>1, <3>2
      <4> QED  BY <4>1
    <3>5. ToSet(parts) = {parts[i] : i \in 1..Len(parts)}
      BY <3>1 DEF ToSet
    <3>6. \A n \in names : <<n, files[n.type].rev>> \in ToSet(parts)
      <4> SUFFICES ASSUME NEW n \in names PROVE <<n, files[n.type].rev>> \in ToSet(parts)
        OBVIOUS
      <4>1. PICK i \in 1..Len(parts) : parts[i][1] = n
        BY <3>3
      <4>2. parts[i] = <<n, files[n.type].rev>>
        BY <3>4, <4>1
      <4> QED  BY <3>5, <4>2
    <3>7. \A i \in 1..Len(parts) : \E n \in names : parts[i] = <<n, files[n.type].rev>>
      BY <3>2, <3>4, Zenon
    <3>8. ToSet(parts) \subseteq {<<n, files[n.type].rev>> : n \in names}
      BY <3>5, <3>7
    <3> QED  BY <3>6, <3>8
  <2> QED  BY <2>4, <2>5, <2>6, <2>9
<1> QED  BY <1>1, Invariant, PTL
==============================================================================
