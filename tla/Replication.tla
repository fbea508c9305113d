---------------------------- MODULE Replication ----------------------------
(***************************************************************************)
(* The replication protocol of one connection: Handle::updateState         *)
(* (server-tick.cpp) writes, at each net tick, what has happened to every  *)
(* entry of its cache, in the order of the cache, and what is new;         *)
(* BaseClient::onData (client-tick.cpp) applies that to its own array,     *)
(* entry by entry.  Nothing in a message names an object: the two arrays   *)
(* must stay in step.                                                      *)
(*                                                                         *)
(* An object is its own name here.  On the server cache_set and the mask   *)
(* bits find it by an id that is used again; GameServer shows that this    *)
(* comes to the same.  On the client it stands for the shape that came     *)
(* with it, which the client keeps.  Players are not in the cache (their   *)
(* id is 0).  A pose is one number.                                        *)
(***************************************************************************)
EXTENDS Integers, Sequences, FiniteSets, Functions

CONSTANTS
  Plane,    \* the object of initScene
  Cube,     \* the cubes that step creates, each at most once
  Batch,    \* how many a step creates at most
  Pos,      \* poses of bodies
  Held,     \* poses as the two ends know them, rounding errors included
  Grid,     \* Grid[p]: the pose a new object is sent with (vec3_48, quat_sm3)
  Quant,    \* Quant[d]: the difference that is sent for d (vec3_24_delta)
  Lossy,    \* whether StreamSend may fail on a stream that is up
  MaxWire   \* messages under way: a bound for model checking

ASSUME ReplicationAssumption ==
  /\ Plane \notin Cube
  /\ Batch \in Nat /\ MaxWire \in Nat
  /\ Pos \subseteq Held
  /\ \A p \in Pos : Grid[p] \in Held
  /\ \A p \in Pos, q \in Held : q + Quant[p - q] \in Held
  /\ Lossy \in BOOLEAN

Obj == Cube \cup {Plane}

VARIABLES
  phase,       \* what the tick does next
  objects,     \* World::objects without the players, in the vector's order
  released,    \* the objects released so far, gone or not
  asleep,      \* the dynamic bodies PhysX has put to sleep
  pos,         \* where the bodies are
  cache,       \* Handle::cache; slept is the bit OBJ_SLEEP of flags
  stream,      \* whether the stream takes messages
  wire,        \* messages MsQuic has not handed to the client yet
  data,        \* BaseClient::data
  client,      \* what has become of the client
  sameVersion  \* whether the client was built with the server's PROTO_VER

serverVars == <<phase, objects, released, asleep, pos, cache>>
clientVars == <<data, client, sameVersion>>
vars == <<serverVars, stream, wire, clientVars>>

Listed(o) == o \in Range(objects)

(* The entries of s at the places K, in their order: what is left of a     *)
(* vector when the others have been taken out.                             *)
Nth(K) ==
  CHOOSE f \in [1 .. Cardinality(K) -> K] :
    \A i, j \in 1 .. Cardinality(K) : i < j => f[i] < f[j]

Pick(s, K) == [k \in 1 .. Cardinality(K) |-> s[Nth(K)[k]]]

Dynamic == Range(objects) \ {Plane}

Init ==
  /\ phase = "step"
  /\ objects = <<Plane>> /\ released = {} /\ asleep = {}
  /\ \E p \in Pos : pos = [o \in {Plane} |-> p]
  /\ cache = <<>> /\ stream = FALSE /\ wire = <<>>
  /\ data = <<>> /\ client = "none" /\ sameVersion \in BOOLEAN

-----------------------------------------------------------------------------
(* The tick. *)

(* World::step: new cubes, then the release of those that sleep. *)
NewCubes ==
  {s \in UNION {[1 .. n -> Cube \ (Range(objects) \cup released)] :
                  n \in 0 .. Batch} :
     \A i, j \in DOMAIN s : s[i] = s[j] => i = j}

Sleeps(o) == o = Plane \/ o \in asleep

BugDying == {}              \* without obj->release()

BugDyingAny == {o \in Range(objects) : Sleeps(o)}  \* without if (!dynamic)

Dying == asleep

Step ==
  /\ phase = "step"
  /\ \E new \in NewCubes, at \in Pos :
       /\ objects' = objects \o new
       /\ pos' = [o \in Range(objects') |->
                    IF Listed(o) THEN pos[o] ELSE at]
  /\ released' = released \cup Dying
  /\ phase' \in {"net", "sync"}
  /\ UNCHANGED <<asleep, cache, stream, wire, clientVars>>

(* fetchResults: what PhysX made of the bodies.  A body that sleeps, and   *)
(* has slept before, has not moved.                                        *)
Fetch(left) ==
  \E s \in SUBSET Dynamic, p \in [Dynamic -> Pos] :
    /\ \A o \in s \cap asleep : p[o] = pos[o]
    /\ asleep' = s \cap left
    /\ pos' = [o \in left |-> IF o = Plane THEN pos[o] ELSE p[o]]

SyncSim ==
  /\ phase = "sync" /\ phase' = "step"
  /\ Fetch(Range(objects))
  /\ UNCHANGED <<objects, released, cache, stream, wire, clientVars>>

(* syncSim and gc, at the end of a net tick. *)
Surviving == {i \in DOMAIN objects : objects[i] \notin released}

SyncAndCollect ==
  /\ phase = "gc" /\ phase' = "step"
  /\ objects' = Pick(objects, Surviving)
  /\ Fetch(Range(objects'))
  /\ UNCHANGED <<released, cache, stream, wire, clientVars>>

-----------------------------------------------------------------------------
(***************************************************************************)
(* Handle::updateState.  What an entry of the cache becomes on the wire:   *)
(* the operation, the sleep bit, and what follows them, a pose to the last *)
(* bit, a difference, or nothing.                                          *)
(***************************************************************************)
Nothing == [kind |-> "none", value |-> 0]
Full(p) == [kind |-> "full", value |-> p]
Diff(d) == [kind |-> "delta", value |-> d]

Moved(e) == Quant[pos[e.obj] - e.pos]

Removal == [op |-> "remove", sleep |-> FALSE, body |-> Nothing]

BugAsleep(e) == [op |-> "state", sleep |-> TRUE, body |-> Full(pos[e.obj])]

Asleep(e) ==
  [op |-> "state", sleep |-> TRUE,
   body |-> IF e.slept THEN Nothing ELSE Full(pos[e.obj])]

Awake(e) ==
  [op |-> IF e.slept THEN "state" ELSE "update", sleep |-> FALSE,
   body |-> Diff(Moved(e))]

Token(e) ==
  CASE ~ Listed(e.obj)                     -> Removal
    [] Listed(e.obj) /\ Sleeps(e.obj)      -> Asleep(e)
    [] Listed(e.obj) /\ ~ Sleeps(e.obj)    -> Awake(e)

(* What the entry becomes in the cache: the pose as the client will have it. *)
BugWrittenBack(e) ==        \* prevPos = currPos
  IF Sleeps(e.obj) /\ e.slept THEN e.pos ELSE pos[e.obj]

WrittenBack(e) ==
  IF Sleeps(e.obj)
  THEN IF e.slept THEN e.pos ELSE pos[e.obj]
  ELSE e.pos + Moved(e)

Refreshed(e) ==
  [obj |-> e.obj, slept |-> Sleeps(e.obj), pos |-> WrittenBack(e)]

(* The entries that stay close ranks. *)
Staying == {i \in DOMAIN cache : Listed(cache[i].obj)}

Kept ==
  [k \in 1 .. Cardinality(Staying) |-> Refreshed(Pick(cache, Staying)[k])]

(* The objects cache_set does not have yet. *)
BugUncached == DOMAIN objects      \* without cache_set[obj->id]

BugUncachedAwake ==                \* none that sleep
  {i \in DOMAIN objects :
     /\ ~ Sleeps(objects[i])
     /\ \A j \in DOMAIN cache : cache[j].obj # objects[i]}

Uncached ==
  {i \in DOMAIN objects : \A j \in DOMAIN cache : cache[j].obj # objects[i]}

Added(o) == [obj |-> o, slept |-> FALSE, pos |-> Grid[pos[o]]]

Adds ==
  [k \in 1 .. Cardinality(Uncached) |-> Added(Pick(objects, Uncached)[k])]

NextCache == Kept \o Adds

(* after is no part of the message: it is what the client ought to have.   *)
Message ==
  [size   |-> Len(cache),
   tokens |-> [i \in 1 .. Len(cache) |-> Token(cache[i])],
   adds   |-> Adds,
   total  |-> Len(NextCache),
   after  |-> NextCache]

(* StreamSend takes the message, or fails and nobody hears of it. *)
UpdateState ==
  /\ phase = "net" /\ phase' = "gc"
  /\ client # "none"
  /\ cache' = NextCache
  /\ \/ stream /\ Len(wire) < MaxWire /\ wire' = Append(wire, Message)
     \/ (~ stream \/ Lossy) /\ UNCHANGED wire
  /\ UNCHANGED <<objects, released, asleep, pos, stream, clientVars>>

(* A net tick before the player is on the list. *)
NobodyThere ==
  /\ phase = "net" /\ phase' = "gc"
  /\ client = "none"
  /\ UNCHANGED <<objects, released, asleep, pos, cache, stream, wire,
                 clientVars>>

-----------------------------------------------------------------------------
(* The connection. *)

Connect ==
  /\ client = "none" /\ client' = "up" /\ stream' = TRUE
  /\ UNCHANGED <<serverVars, wire, data, sameVersion>>

(* Either end, or the network; what is under way is lost. *)
Disconnect ==
  /\ stream /\ stream' = FALSE
  /\ wire' = <<>>
  /\ client' = IF client = "up" THEN "left" ELSE client
  /\ UNCHANGED <<serverVars, data, sameVersion>>

-----------------------------------------------------------------------------
(* BaseClient::onData, under its mutex. *)

(* What it reads after the operation and the sleep bit. *)
Reads(d, t) ==
  CASE t.op = "remove"                               -> "none"
    [] t.op = "update"                               -> "delta"
    [] t.op = "state" /\ d.slept = t.sleep           -> "none"
    [] t.op = "state" /\ d.slept /\ ~ t.sleep        -> "delta"
    [] t.op = "state" /\ ~ d.slept /\ t.sleep        -> "full"

Applied(d, t) ==
  [obj   |-> d.obj,
   slept |-> IF t.op = "state" THEN t.sleep ELSE d.slept,
   pos   |-> CASE Reads(d, t) = "none"  -> d.pos
               [] Reads(d, t) = "delta" -> d.pos + t.body.value
               [] Reads(d, t) = "full"  -> t.body.value]

(* The entries that are not removed close ranks; the new ones follow. *)
Remaining(m) == {i \in DOMAIN m.tokens : m.tokens[i].op # "remove"}

BugUpdated(b, m) ==         \* without the memcpy to data[write_id]
  [k \in 1 .. Cardinality(Remaining(m)) |->
     Applied(b[k], m.tokens[Nth(Remaining(m))[k]])]

Updated(b, m) ==
  [k \in 1 .. Cardinality(Remaining(m)) |->
     Applied(b[Nth(Remaining(m))[k]], m.tokens[Nth(Remaining(m))[k]])]

NextData(b, m) == Updated(b, m) \o m.adds

(***************************************************************************)
(* With the array b a message is acceptable if it is for an array of that  *)
(* size, if its bytes are read as what they were written for, and if the   *)
(* array ends up with the size the message says.  Else the client exits;   *)
(* bytes that are read for what they are not may also make it go on with   *)
(* nonsense, which counts as "exited" here.                                *)
(***************************************************************************)
Understands(b, m) ==
  \A i \in DOMAIN m.tokens : Reads(b[i], m.tokens[i]) = m.tokens[i].body.kind

Accepts(b, m) ==
  /\ m.size = Len(b)
  /\ Understands(b, m)
  /\ Len(NextData(b, m)) = m.total

OnData ==
  /\ client = "up" /\ sameVersion /\ wire # <<>>
  /\ wire' = Tail(wire)
  /\ IF Accepts(data, Head(wire))
     THEN data' = NextData(data, Head(wire)) /\ UNCHANGED client
     ELSE client' = "exited" /\ UNCHANGED data
  /\ UNCHANGED <<serverVars, stream, sameVersion>>

VersionMismatch ==
  /\ client = "up" /\ ~ sameVersion /\ wire # <<>>
  /\ client' = "left" /\ wire' = <<>> /\ stream' = FALSE
  /\ UNCHANGED <<serverVars, data, sameVersion>>

-----------------------------------------------------------------------------
Tick == Step \/ SyncSim \/ UpdateState \/ NobodyThere \/ SyncAndCollect

Next == Tick \/ Connect \/ Disconnect \/ OnData \/ VersionMismatch

Spec == Init /\ [][Next]_vars

(***************************************************************************)
(* The timer starts itself again, and since last_net moves by whole        *)
(* intervals there is always another net tick; MsQuic delivers.            *)
(***************************************************************************)
FairSpec ==
  /\ Spec
  /\ WF_vars(Tick) /\ SF_vars(Step /\ phase' = "net")
  /\ WF_vars(OnData \/ VersionMismatch)

-----------------------------------------------------------------------------
(* Properties. *)

Entry == [obj : Obj, slept : BOOLEAN, pos : Held]

Value == Held \cup {0} \cup {Quant[p - q] : p \in Pos, q \in Held}

Body == [kind : {"none", "full", "delta"}, value : Value]

WireToken == [op : {"state", "update", "remove"}, sleep : BOOLEAN, body : Body]

WireMessage ==
  [size : Nat, tokens : Seq(WireToken), adds : Seq(Entry), total : Nat,
   after : Seq(Entry)]

ServerTypeOK ==
  /\ phase \in {"step", "sync", "net", "gc"}
  /\ objects \in Seq(Obj) /\ released \subseteq Cube /\ asleep \subseteq Cube
  /\ pos \in [Range(objects) -> Pos]
  /\ cache \in Seq(Entry)
  /\ wire \in Seq(WireMessage)

TypeOK ==
  /\ ServerTypeOK
  /\ data \in Seq(Entry)
  /\ stream \in BOOLEAN /\ sameVersion \in BOOLEAN
  /\ client \in {"none", "up", "left", "exited"}

(***************************************************************************)
(* The two ends never disagree on the size of the array, or on what bytes  *)
(* an entry takes in a message, as long as no message is lost: exit(1) in  *)
(* client-tick.cpp is not reached.                                         *)
(***************************************************************************)
ClientStays == client # "exited"

(***************************************************************************)
(* No sleeping object ever wakes up on the wire: what step finds asleep it *)
(* releases in the same tick, and gc takes it from the world before the    *)
(* next message.  The branch for waking up in updateState and onData,      *)
(* whose bytes depend on the order in which a compiler evaluates           *)
(* arguments, does not run.  (server-tick.cpp:99, client-tick.cpp:94)      *)
(***************************************************************************)
NeverWakes ==
  \A n \in DOMAIN wire : \A i \in DOMAIN wire[n].tokens :
    LET t == wire[n].tokens[i] IN t.op = "state" => t.sleep

(* An object the client shows is shown once.                               *)
ShownOnce == \A i, j \in DOMAIN data : data[i].obj = data[j].obj => i = j

(***************************************************************************)
(* A client that has been handed all messages has the cache of its Handle, *)
(* entry for entry and bit for bit.                                        *)
(***************************************************************************)
InStep ==
  client = "up" /\ sameVersion /\ wire = <<>> => data = cache

(***************************************************************************)
(* The client's data as a whole: well formed, nothing shown twice, and the *)
(* server's cache once all messages have come (server-tick.cpp:57-179,     *)
(* client-tick.cpp:59-176).                                                *)
(***************************************************************************)
EntriesAgree == TypeOK /\ ShownOnce /\ InStep

(***************************************************************************)
(* A message the client accepts leaves it with what the server meant it to *)
(* have (client-tick.cpp:180, "Strict integrity check").                   *)
(***************************************************************************)
StrictCheck ==
  [][client' = "up" /\ wire # <<>> /\ wire' = Tail(wire)
       => data' = Head(wire).after]_vars

(***************************************************************************)
(* The messages, which name no object and hold differences only, implement *)
(* WorldMirror.                                                            *)
(***************************************************************************)
Mirror == INSTANCE WorldMirror WITH
  world  <- Range(objects),
  coming <- [n \in DOMAIN wire |-> Range(wire[n].after)],
  shown  <- Range(data)

MirrorsWorld == Mirror!Spec

(***************************************************************************)
(* An object that is in the world but not shown, or shown but no longer in *)
(* the world, does not stay so, unless the client goes.                    *)
(***************************************************************************)
Shown(o) == \E i \in DOMAIN data : data[i].obj = o

Converges ==
  \A o \in Obj :
    client = "up" /\ Listed(o) # Shown(o)
      ~> client # "up" \/ Listed(o) = Shown(o)
=============================================================================
