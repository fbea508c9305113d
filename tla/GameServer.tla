----------------------------- MODULE GameServer -----------------------------
(***************************************************************************)
(* PhysXServer (server/game.cpp, server-tick.cpp): the libuv thread that   *)
(* ticks the world, and the MsQuic threads whose callbacks bring Handles   *)
(* into the world and take them out of it.  A Handle is a connection, a    *)
(* Player and the replication cache of one client.  Callbacks of one       *)
(* connection are serialised by MsQuic; those of different connections,    *)
(* and the tick, interleave between any two critical sections.             *)
(*                                                                         *)
(* A thread that dereferences a deleted Handle or a released actor crashes *)
(* the process: crashed is set and nothing happens any more.               *)
(***************************************************************************)
EXTENDS World

CONSTANT MaxSkips   \* net intervals: at most MaxSkips ticks between two nets

ASSUME ServerAssumption == MaxSkips \in Nat

VARIABLES
  phase,      \* what PhysXServer::tick does next, on the libuv thread
  skips,      \* ticks since the last one that ran updateNet
  stage,      \* stage[h]: how far the callbacks of connection h have come
  pid,        \* Player::pid, 0 until addHandle
  registered, \* the handles in PhysXServer::allHandles, each under its pid
  connections,\* QuicServer::connections
  cache,      \* Handle::cache, the objects the client has been told of
  cacheSet,   \* Handle::cache_set, the ids of those objects
  crashed     \* memory that is gone was used

serverVars == <<phase, skips, stage, pid, registered, connections, cache,
                cacheSet, crashed>>
vars == <<worldVars, serverVars>>

Phase == {"players", "add", "dead", "simulate", "net", "scan", "gc",
          "sync"}

Stage == {"none", "accepted", "rejected", "refused", "added", "hasActor",
          "inObjects", "inPlayers", "up", "unlisted", "removed", "released",
          "left", "closed"}

TypeOK ==
  /\ WorldTypeOK
  /\ phase \in Phase
  /\ skips \in 0 .. MaxSkips
  /\ stage \in [Handle -> Stage]
  /\ pid \in [Handle -> Nat]
  /\ registered \subseteq Handle
  /\ connections \subseteq Handle
  /\ cache \in [Handle -> SUBSET Obj]
  /\ cacheSet \in [Handle -> SUBSET Ids]
  /\ crashed \in BOOLEAN

Init ==
  /\ WorldInit
  /\ phase = "players"
  /\ skips = 0
  /\ stage = [h \in Handle |-> "none"]
  /\ pid = [h \in Handle |-> 0]
  /\ registered = {}
  /\ connections = {}
  /\ cache = [h \in Handle |-> {}]
  /\ cacheSet = [h \in Handle |-> {}]
  /\ crashed = FALSE

-----------------------------------------------------------------------------
(* The libuv thread: PhysXServer::tick, once per timer callback. *)

Goto(from, to) == phase = from /\ phase' = to

(* The thread that ran into freed memory takes the process down. *)
Fault ==
  /\ crashed' = TRUE
  /\ UNCHANGED <<worldVars, phase, skips, stage, pid, registered, connections,
                 cache, cacheSet>>

(***************************************************************************)
(* updatePlayers moves every controller, and with it the actor it was      *)
(* created with.  When gc has released the actor PhysX works on a body it  *)
(* has recycled, which may or may not end well; a deleted Player cannot.   *)
(***************************************************************************)
UpdatePlayers ==
  /\ players \subseteq heap
  /\ Goto("players", "add")
  /\ UNCHANGED <<worldVars, skips, stage, pid, registered, connections, cache,
                 cacheSet, crashed>>

StepAdd ==
  /\ Goto("add", "dead")
  /\ AddCubes
  /\ UNCHANGED <<skips, stage, pid, registered, connections, cache, cacheSet,
                 crashed>>

StepRemoveDead ==
  /\ Goto("dead", "simulate")
  /\ RemoveDead
  /\ UNCHANGED <<skips, stage, pid, registered, connections, cache, cacheSet,
                 crashed>>

(***************************************************************************)
(* scene->simulate, then the test `now > last_net + netIntervalNano`.      *)
(* Time is not modelled: a tick may or may not be a net tick, but no more  *)
(* than MaxSkips in a row are not.                                         *)
(***************************************************************************)
Simulate ==
  /\ \/ skips < MaxSkips /\ Goto("simulate", "sync") /\ skips' = skips + 1
     \/ Goto("simulate", "net") /\ skips' = 0
  /\ UNCHANGED <<worldVars, stage, pid, registered, connections, cache,
                 cacheSet, crashed>>

(* updateNet holds player_mutex from here to the end of the scan. *)
LockPlayers ==
  /\ Goto("net", "scan")
  /\ UNCHANGED <<worldVars, skips, stage, pid, registered, connections, cache,
                 cacheSet, crashed>>

(***************************************************************************)
(* Handle::updateState as far as the cache goes.  An entry whose id has    *)
(* lost its mask bit is dropped (the only use made of entry->obj is its id *)
(* and, when the bit is set, its actor); then every object that has an id  *)
(* which is not in cache_set is appended.                                  *)
(***************************************************************************)
Kept(h) == {o \in cache[h] : id[o] \in masks}

BugKeptIds(h) == cacheSet[h]  \* without cache_set[...] = 0

KeptIds(h) == cacheSet[h] \ IdsOf(cache[h] \ Kept(h))

Adding(h) == {o \in Listed : id[o] # NoId /\ id[o] \notin KeptIds(h)}

(* What updateState reads: the players, the objects they have cached, and  *)
(* the actors of those it keeps.                                           *)
CacheReadable(h) == cache[h] \subseteq heap /\ Kept(h) \subseteq actors

Readable == players \subseteq heap /\ \A h \in players : CacheReadable(h)

UpdateNet ==
  /\ Readable
  /\ Goto("scan", "gc")
  /\ cache' = [h \in Handle |-> IF h \in players
                                THEN Kept(h) \cup Adding(h)
                                ELSE cache[h]]
  /\ cacheSet' = [h \in Handle |->
                    IF h \in players
                    THEN KeptIds(h) \cup IdsOf(Adding(h))
                    ELSE cacheSet[h]]
  /\ UNCHANGED <<worldVars, skips, stage, pid, registered, connections,
                 crashed>>

(* What updatePlayers and updateState come to when they touch what is gone. *)
UvFault ==
  /\ \/ phase = "players" /\ ~ (players \subseteq heap \cap actors)
     \/ phase = "scan" /\ ~ Readable
  /\ Fault

(* The net tick ends with syncSim and gc, any other tick with syncSim. *)
SyncAndCollect ==
  /\ Goto("gc", "players")
  /\ GC
  /\ UNCHANGED <<skips, stage, pid, registered, connections, cache, cacheSet,
                 crashed>>

SyncSim ==
  /\ Goto("sync", "players")
  /\ UNCHANGED <<worldVars, skips, stage, pid, registered, connections, cache,
                 cacheSet, crashed>>

UvThread ==
  \/ UpdatePlayers
  \/ StepAdd
  \/ StepRemoveDead
  \/ Simulate
  \/ LockPlayers
  \/ UpdateNet
  \/ SyncAndCollect
  \/ SyncSim
  \/ UvFault

-----------------------------------------------------------------------------
(* The MsQuic threads. *)

Advance(h, from, to) ==
  /\ stage[h] \in from
  /\ stage' = [stage EXCEPT ![h] = to]

(***************************************************************************)
(* ServerListenerCallback: a new Handle for a new connection.  If          *)
(* ConnectionSetConfiguration fails MsQuic drops the connection and        *)
(* nobody owns the Handle.                                                 *)
(***************************************************************************)
NewConnection(h) ==
  /\ \/ Advance(h, {"none", "closed"}, "accepted")
     \/ Advance(h, {"none", "closed"}, "rejected")
  /\ AllocateHandle(h)
  /\ pid' = [pid EXCEPT ![h] = 0]
  /\ cache' = [cache EXCEPT ![h] = {}]
  /\ cacheSet' = [cacheSet EXCEPT ![h] = {}]
  /\ UNCHANGED <<phase, skips, registered, connections, crashed>>

(* CONNECTED, but StreamOpen or StreamStart failed: no onConnect. *)
StreamFailed(h) ==
  /\ Advance(h, {"accepted"}, "refused")
  /\ UNCHANGED <<worldVars, phase, skips, pid, registered, connections, cache,
                 cacheSet, crashed>>

(* CONNECTED, onConnect, addHandle: the smallest pid not in allHandles. *)
UsedPids == {pid[g] : g \in registered}

BugNextPid(i) == i = Cardinality(UsedPids) + 1   \* allHandles.size() + 1

NextPid(i) == i \notin UsedPids /\ \A j \in 1 .. i - 1 : j \in UsedPids

AddHandle(h) ==
  /\ Advance(h, {"accepted"}, "added")
  /\ \E i \in 1 .. Cardinality(Handle) :
       NextPid(i) /\ pid' = [pid EXCEPT ![h] = i]
  /\ registered' = registered \cup {h}
  /\ UNCHANGED <<worldVars, phase, skips, connections, cache, cacheSet,
                 crashed>>

(* onConnect goes on with World::spawn ... *)
OnConnectActor(h) ==
  /\ Advance(h, {"added"}, "hasActor")
  /\ SpawnActor(h)
  /\ UNCHANGED <<phase, skips, pid, registered, connections, cache, cacheSet,
                 crashed>>

OnConnectObject(h) ==
  /\ Advance(h, {"hasActor"}, "inObjects")
  /\ SpawnObject(h)
  /\ UNCHANGED <<phase, skips, pid, registered, connections, cache, cacheSet,
                 crashed>>

(***************************************************************************)
(* That push_back holds object_mutex, but updateState may be walking the   *)
(* vector without it: the walk survives unless the vector moves.           *)
(***************************************************************************)
ObjectsRace(h) ==
  /\ stage[h] = "hasActor" /\ phase = "scan" /\ players # {}
  /\ Fault

OnConnectPlayer(h) ==
  /\ phase # "scan"
  /\ Advance(h, {"inObjects"}, "inPlayers")
  /\ SpawnPlayer(h)
  /\ UNCHANGED <<phase, skips, pid, registered, connections, cache, cacheSet,
                 crashed>>

(* ... and the callback ends with connections.push_back. *)
PushConnection(h) ==
  /\ Advance(h, {"inPlayers"}, "up")
  /\ connections' = connections \cup {h}
  /\ UNCHANGED <<worldVars, phase, skips, pid, registered, cache, cacheSet,
                 crashed>>

(* SHUTDOWN_COMPLETE may come before CONNECTED: the handshake failed. *)
BugRemoveConnection(h) ==                  \* without connections.remove
  /\ Advance(h, {"accepted", "refused", "up"}, "unlisted")
  /\ UNCHANGED <<worldVars, phase, skips, pid, registered, connections, cache,
                 cacheSet, crashed>>

RemoveConnection(h) ==
  /\ Advance(h, {"accepted", "refused", "up"}, "unlisted")
  /\ connections' = connections \ {h}
  /\ UNCHANGED <<worldVars, phase, skips, pid, registered, cache, cacheSet,
                 crashed>>

(* onDisconnect: removeHandle erases the entry under this handle's pid. *)
RemoveHandle(h) ==
  /\ Advance(h, {"unlisted"}, "removed")
  /\ registered' = {g \in registered : pid[g] # pid[h]}
  /\ UNCHANGED <<worldVars, phase, skips, pid, connections, cache, cacheSet,
                 crashed>>

OnDisconnectRelease(h) ==
  /\ Advance(h, {"removed"}, "released")
  /\ DestroyRelease(h)
  /\ UNCHANGED <<phase, skips, pid, registered, connections, cache, cacheSet,
                 crashed>>

OnDisconnectRemove(h) ==
  /\ phase # "scan"
  /\ Advance(h, {"released"}, "left")
  /\ DestroyRemove(h)
  /\ UNCHANGED <<phase, skips, pid, registered, connections, cache, cacheSet,
                 crashed>>

(* onDisconnect ends by unlocking world_mutex, a member of the handle. *)
OnDisconnectUnlock(h) ==
  /\ Advance(h, {"left"}, "closed")
  /\ h \in heap
  /\ UNCHANGED <<worldVars, phase, skips, pid, registered, connections, cache,
                 cacheSet, crashed>>

UseAfterDelete(h) ==
  /\ stage[h] = "left" /\ h \notin heap
  /\ Fault

OnConnect(h) ==
  \/ AddHandle(h)
  \/ OnConnectActor(h)
  \/ OnConnectObject(h)
  \/ ObjectsRace(h)
  \/ OnConnectPlayer(h)
  \/ PushConnection(h)

OnDisconnect(h) ==
  \/ RemoveHandle(h)
  \/ OnDisconnectRelease(h)
  \/ OnDisconnectRemove(h)
  \/ OnDisconnectUnlock(h)
  \/ UseAfterDelete(h)

QuicThread(h) ==
  \/ NewConnection(h)
  \/ StreamFailed(h)
  \/ OnConnect(h)
  \/ RemoveConnection(h)
  \/ OnDisconnect(h)

-----------------------------------------------------------------------------
(* The process is gone: this is where the system may stop. *)
Halted == crashed /\ UNCHANGED vars

Next ==
  \/ /\ ~ crashed
     /\ \/ UvThread
        \/ \E h \in Handle : QuicThread(h)
  \/ Halted

(***************************************************************************)
(* Fairness: the timer callback starts the timer again before it returns,  *)
(* and a callback that has begun runs to its end.  Nobody has to connect   *)
(* or to disconnect.                                                       *)
(***************************************************************************)
Fairness ==
  /\ WF_vars(~ crashed /\ UvThread)
  /\ \A h \in Handle :
       WF_vars(~ crashed /\ stage[h] # "accepted"
                         /\ (OnConnect(h) \/ OnDisconnect(h)))

Spec == Init /\ [][Next]_vars

FairSpec == Spec /\ Fairness

-----------------------------------------------------------------------------
(* Properties. *)

(***************************************************************************)
(* Every object a listed player has cached is still allocated: the test of *)
(* used_obj_masks in updateState, which reads entry->obj->id first, never  *)
(* reads freed memory, and what it keeps still has its actor.              *)
(* (server-tick.cpp:68, world.cpp:320)                                     *)
(***************************************************************************)
CachedInMemory == \A h \in players : CacheReadable(h)

(***************************************************************************)
(* No id that assignID could hand out is still in the cache_set of a       *)
(* listed player, who would take the next owner for the last one.          *)
(* (world.cpp:323)                                                         *)
(***************************************************************************)
FreeIdsUncached == \A h \in players : cacheSet[h] \cap freeIds = {}

(***************************************************************************)
(* An id is either free or owned by one allocated object, never both and   *)
(* never two objects'; its mask bit is set exactly while the owner is in   *)
(* objects.  No id is lost between the free list, objects and the trash.   *)
(***************************************************************************)
IdsPartitioned ==
  /\ \A o \in Allocated : id[o] # NoId
  /\ \A o, p \in Allocated : id[o] = id[p] => o = p
  /\ freeIds = Ids \ IdsOf(Allocated)
  /\ masks = IdsOf(Listed)

(***************************************************************************)
(* cache and cache_set, which updateState changes at different places,     *)
(* stand for the same objects.                                             *)
(***************************************************************************)
CacheMirrors ==
  \A h \in players :
    /\ cacheSet[h] = IdsOf(cache[h])
    /\ \A o, p \in cache[h] : id[o] = id[p] => o = p

(***************************************************************************)
(* After updateNet every player's cache is the world's set of objects; the *)
(* cache of one who joined since is empty.  Nothing is sent twice, nothing *)
(* forgotten.                                                              *)
(***************************************************************************)
NetViewComplete ==
  phase = "gc" => \A h \in players : cache[h] \in {Listed, {}}

(***************************************************************************)
(* objCount is the number of cubes not yet released, plus the actors that  *)
(* never became cubes; it never wraps below zero and never exceeds         *)
(* TOTAL_OBJ by a whole batch.                                             *)
(***************************************************************************)
CountExact ==
  /\ objCount = Cardinality(Cubes \ released) + orphans
  /\ objCount < TotalObj + Batch

(***************************************************************************)
(* The scene holds the actors of the objects and no others, except those   *)
(* of players between createController and push_back, and the orphans.     *)
(***************************************************************************)
SceneMatches == actors = objects \cup {h \in Handle : stage[h] = "hasActor"}

(***************************************************************************)
(* A listed player whose connection is not being destroyed is allocated    *)
(* and has its actor, whatever gc does meanwhile.                          *)
(***************************************************************************)
ConnectedUsable ==
  \A h \in players : stage[h] # "released" => h \in heap \cap actors

(***************************************************************************)
(* A connection broadcast may reach is one whose Handle is allocated and   *)
(* not yet released to gc.                                                 *)
(***************************************************************************)
ConnectionsAlive == connections \subseteq heap \ released

(***************************************************************************)
(* Two listed players share a pid only while one of them is between        *)
(* removeHandle, which gives its pid back, and World::destroy.             *)
(***************************************************************************)
PidsDistinct ==
  \A g, h \in players :
    g # h /\ pid[g] = pid[h] =>
      \E l \in {g, h} : stage[l] \in {"removed", "released"}

(***************************************************************************)
(* Nothing refers to what is gone: not the caches of listed players, not   *)
(* the list of players, not connections, not the scene.                    *)
(***************************************************************************)
PointersValid == CachedInMemory /\ ConnectedUsable /\ ConnectionsAlive /\ SceneMatches

(***************************************************************************)
(* The five places that speak of ids agree: the free list, the objects,    *)
(* the mask bits, and each Handle's cache and cache_set.                   *)
(***************************************************************************)
IdsAgree == IdsPartitioned /\ FreeIdsUncached /\ CacheMirrors

(***************************************************************************)
(* Everything onTick reaches is still allocated, the "freed" objects       *)
(* included (world.cpp:320-321: "Actual deallocation happens 1 tick after  *)
(* gc, so player onTick function can still have access to the freed        *)
(* object").                                                               *)
(***************************************************************************)
OnTickAccess == phase \in {"players", "scan"} => players \subseteq heap

(***************************************************************************)
(* With this many ids addObject never fails, and no actor is orphaned:     *)
(* the plane, a full world, and two net intervals of cubes that sleep as   *)
(* soon as they are added.  65535 is far more than 5000 cubes need.        *)
(***************************************************************************)
IdsNeeded == TotalObj + Batch + Batch * (2 * MaxSkips + 1)

IdsSuffice == Cardinality(Ids) >= IdsNeeded => orphans = 0

(***************************************************************************)
(* What nobody needs any more is deleted in the end, unless the server     *)
(* dies first: a cube once it has slept, a player once its connection is   *)
(* closed.                                                                 *)
(***************************************************************************)
Unneeded(p) ==
  /\ p \in objects
  /\ p \in released \/ (p \in Handle /\ stage[p] = "closed")

Reclaimed == \A p \in Ptr : Unneeded(p) ~> p \notin heap \/ crashed

-----------------------------------------------------------------------------
(***************************************************************************)
(* The inductive invariant behind CachedInMemory, FreeIdsUncached,         *)
(* IdsPartitioned, CacheMirrors and NetViewComplete.                       *)
(***************************************************************************)

(* The allocated objects are those in objects and, apart, those in trashQ. *)
HeapInv ==
  /\ Allocated = Listed \cup Trashed
  /\ Listed \cap Trashed = {}
  /\ Listed \subseteq actors

(* A player is on the list only between spawn and destroy, and until it is *)
(* its cache is empty.                                                     *)
StageInv ==
  \A h \in Handle :
    /\ h \in players =>
         stage[h] \in {"inPlayers", "up", "unlisted", "removed", "released"}
    /\ stage[h] \in {"accepted", "added", "hasActor", "inObjects"} =>
         cache[h] = {} /\ cacheSet[h] = {}

(* What a listed player has cached is allocated at all times, and not in   *)
(* the trash when gc is about to delete it.                                *)
CacheInv ==
  \A h \in players :
    /\ cache[h] \subseteq Allocated
    /\ cacheSet[h] = IdsOf(cache[h])
    /\ phase = "gc" => cache[h] \in {Listed, {}}

IInv == TypeOK /\ HeapInv /\ IdsPartitioned /\ StageInv /\ CacheInv
=============================================================================
