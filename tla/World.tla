------------------------------- MODULE World -------------------------------
(***************************************************************************)
(* The world of world.hpp and world.cpp: the WorldObjects, the ids they    *)
(* are known by on the wire, the trash queue that delays their deletion,   *)
(* and the list of players.  A WorldObject is named by the heap address it *)
(* lives at, so that an address can be freed and allocated again.          *)
(*                                                                         *)
(* Every operator below is one critical section of the code (the text      *)
(* between taking and leaving object_mutex, player_mutex or the scene      *)
(* lock); GameServer puts them on the threads that run them.               *)
(***************************************************************************)
EXTENDS Integers, FiniteSets

CONSTANTS
  Obj,       \* heap addresses `new PrimitiveObject` may return
  Handle,    \* heap addresses `new Handle` (a Player) may return
  Ids,       \* the ids of free_object_ids: 1..65535, never 0
  TotalObj,  \* TOTAL_OBJ: 5000, or 10 in a debug build
  Batch      \* cubes added by one step: max(1, TOTAL_OBJ / 1000)

NoId == 0        \* Player() : WorldObject(0)
UINT16 == 65536  \* a uint16_t counts modulo this

(* TotalObj + Batch fits objCount, a uint16_t: 5000 + 5 in the code.       *)
(* Memory does not run out before the ids do.                              *)
ASSUME WorldAssumption ==
  /\ Obj \cap Handle = {}
  /\ IsFiniteSet(Obj) /\ IsFiniteSet(Handle) /\ IsFiniteSet(Ids)
  /\ Cardinality(Ids) <= Cardinality(Obj)
  /\ NoId \notin Ids
  /\ TotalObj \in Nat /\ Batch \in Nat \ {0}
  /\ TotalObj + Batch < UINT16

Ptr == Obj \cup Handle

VARIABLES
  heap,      \* the addresses allocated at present
  objects,   \* World::objects
  trashQ,    \* World::trashQ
  players,   \* World::players
  freeIds,   \* World::free_object_ids
  masks,     \* World::used_obj_masks: the ids whose bit is set
  id,        \* WorldObject::id of the objects; a Player has NoId
  released,  \* the pointers whose WorldObject::released is true
  actors,    \* the pointers whose WorldObject::actor is in the scene
  statics,   \* the objects whose actor is a PxRigidStatic
  objCount,  \* the static uint16_t objCount of world.cpp
  orphans    \* actors in the scene that no WorldObject stands for

worldVars == <<heap, objects, trashQ, players, freeIds, masks, id, released,
               actors, statics, objCount, orphans>>

WorldTypeOK ==
  /\ heap \subseteq Ptr
  /\ objects \subseteq Ptr
  /\ trashQ \subseteq Ptr
  /\ players \subseteq Handle
  /\ freeIds \subseteq Ids
  /\ masks \subseteq Ids
  /\ id \in [Obj -> Ids \cup {NoId}]
  /\ released \subseteq Ptr
  /\ actors \subseteq Ptr
  /\ statics \subseteq Obj
  /\ objCount \in 0 .. UINT16 - 1
  /\ orphans \in Nat

IdOf(p) == IF p \in Obj THEN id[p] ELSE NoId

IdsOf(S) == {id[o] : o \in S}

(* The objects with an id, i.e. all but the players. *)
Allocated == heap \cap Obj
Listed == objects \cap Obj
Trashed == trashQ \cap Obj

(* World() followed by initScene(): all ids are free but the plane's. *)
WorldInit ==
  \E plane \in Obj, i \in Ids :
    /\ heap = {plane}
    /\ objects = {plane}
    /\ trashQ = {}
    /\ players = {}
    /\ freeIds = Ids \ {i}
    /\ masks = {i}
    /\ id = [o \in Obj |-> IF o = plane THEN i ELSE NoId]
    /\ released = {}
    /\ actors = {plane}
    /\ statics = {plane}
    /\ objCount = 0
    /\ orphans = 0

(***************************************************************************)
(* World::step, first critical section.  addObject puts the actor in the   *)
(* scene before it asks for an id; when assignID finds none the actor      *)
(* stays behind without an object, and objCount counts it all the same.    *)
(***************************************************************************)
AssignIDs(new, f) ==
  /\ \A o, p \in new : f[o] = f[p] => o = p
  /\ freeIds' = freeIds \ {f[o] : o \in new}
  /\ masks' = masks \cup {f[o] : o \in new}
  /\ id' = [o \in Obj |-> IF o \in new THEN f[o] ELSE id[o]]

BugWanted == objCount <= TotalObj  \* off by one

Wanted == objCount < TotalObj

Shortfall(new) == Batch - Cardinality(new)

AddObjects(new) ==
  /\ new \subseteq Obj \ heap
  /\ \/ Shortfall(new) = 0
     \/ Shortfall(new) > 0 /\ Cardinality(new) = Cardinality(freeIds)
  /\ \E f \in [new -> freeIds] : AssignIDs(new, f)
  /\ heap' = heap \cup new
  /\ objects' = objects \cup new
  /\ actors' = actors \cup new
  /\ orphans' = orphans + Shortfall(new)
  /\ objCount' = (objCount + Batch) % UINT16
  /\ UNCHANGED <<trashQ, players, released, statics>>

AddCubes ==
  \/ /\ Wanted
     /\ \E new \in SUBSET Obj : AddObjects(new)
  \/ /\ ~ Wanted
     /\ UNCHANGED worldVars

(***************************************************************************)
(* World::step, second critical section.  Which bodies PhysX has put to    *)
(* sleep is its own affair: any set of dynamic bodies.  Only the release   *)
(* that flips the flag decrements objCount.                                *)
(***************************************************************************)
BugCubes == objects \ statics     \* without `if (isPlayer()) continue`

Cubes == Listed \ statics

BugFlipped(sleeping) == sleeping  \* without `if (obj->release())`

Flipped(sleeping) == sleeping \ released

RemoveDead ==
  \E sleeping \in SUBSET Cubes :
    /\ released' = released \cup sleeping
    /\ objCount' = (objCount - Cardinality(Flipped(sleeping))) % UINT16
    /\ UNCHANGED <<heap, objects, trashQ, players, freeIds, masks, id, actors,
                   statics, orphans>>

(***************************************************************************)
(* World::gc.  What an earlier gc queued is deleted and its id is free     *)
(* again; what has been released since leaves objects, loses its actor and *)
(* its mask bit, and waits in the queue.  Deletion clears id and released  *)
(* of the address: freed memory holds nothing the model looks at.          *)
(***************************************************************************)
Dead == objects \cap released

BugDeleted == trashQ \cup Dead    \* delete obj in the remove_if

Deleted == trashQ

BugFreedIds == IdsOf(Dead \cap Obj)  \* freed in the remove_if

BugFreedIdsAndZero == {IdOf(p) : p \in trashQ} \* without `if (ptr->id)`

FreedIds == IdsOf(Trashed)

BugUnmaskedIds == FreedIds        \* bit cleared on deletion

UnmaskedIds == IdsOf(Dead \cap Obj)

BugUnscened == {}                 \* without actor->release()

(* isReleasable is false of parts of other bodies, as the links of an      *)
(* articulation; the code makes none.                                      *)
Releasable == Ptr

Unscened == Dead \cap actors \cap Releasable

GC ==
  /\ freeIds' = freeIds \cup FreedIds
  /\ heap' = heap \ Deleted
  /\ id' = [o \in Obj |-> IF o \in Deleted THEN NoId ELSE id[o]]
  /\ released' = released \ Deleted
  /\ actors' = actors \ Unscened
  /\ masks' = masks \ UnmaskedIds
  /\ trashQ' = Dead
  /\ objects' = objects \ Dead
  /\ UNCHANGED <<players, statics, objCount, orphans>>

(***************************************************************************)
(* World::spawn takes three locks in turn: the scene's to create the       *)
(* controller and its actor, object_mutex, and player_mutex.               *)
(***************************************************************************)
SpawnActor(h) ==
  /\ actors' = actors \cup {h}
  /\ UNCHANGED <<heap, objects, trashQ, players, freeIds, masks, id, released,
                 statics, objCount, orphans>>

SpawnObject(h) ==
  /\ objects' = objects \cup {h}
  /\ UNCHANGED <<heap, trashQ, players, freeIds, masks, id, released, actors,
                 statics, objCount, orphans>>

SpawnPlayer(h) ==
  /\ players' = players \cup {h}
  /\ UNCHANGED <<heap, objects, trashQ, freeIds, masks, id, released, actors,
                 statics, objCount, orphans>>

(***************************************************************************)
(* World::destroy sets the released flag without a lock and then takes     *)
(* player_mutex to leave the list.                                         *)
(***************************************************************************)
BugDestroyRelease(h) == UNCHANGED worldVars  \* without player->release()

DestroyRelease(h) ==
  /\ released' = released \cup {h}
  /\ UNCHANGED <<heap, objects, trashQ, players, freeIds, masks, id, actors,
                 statics, objCount, orphans>>

DestroyRemove(h) ==
  /\ players' = players \ {h}
  /\ UNCHANGED <<heap, objects, trashQ, freeIds, masks, id, released, actors,
                 statics, objCount, orphans>>

(* `new Handle()` of game.hpp: a Player under construction, not yet spawned. *)
AllocateHandle(h) ==
  /\ h \notin heap
  /\ heap' = heap \cup {h}
  /\ UNCHANGED <<objects, trashQ, players, freeIds, masks, id, released,
                 actors, statics, objCount, orphans>>
=============================================================================
