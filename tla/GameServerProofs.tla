-------------------------- MODULE GameServerProofs --------------------------
(***************************************************************************)
(* Proofs about GameServer, for any number of objects, ids and             *)
(* connections.  IInv is inductive; the safety properties of the ids and   *)
(* of the replication caches follow from it.                               *)
(***************************************************************************)
EXTENDS GameServer, TLAPS, FiniteSetTheorems

-----------------------------------------------------------------------------
(* Facts about numbers and sets. *)

(* What a uint16_t holds after any assignment. *)
LEMMA Uint16 == \A x \in Int : x % UINT16 \in 0 .. UINT16 - 1
  BY DEF UINT16

(* What AddObjects adds is finite, and its shortfall is a natural number. *)
LEMMA ShortfallType ==
  ASSUME NEW new, AddObjects(new)
  PROVE  Shortfall(new) \in Nat
<1>1. new \subseteq Obj
  BY DEF AddObjects
<1>2. IsFiniteSet(new) /\ Cardinality(new) \in Nat
  BY <1>1, WorldAssumption, FS_Subset, FS_CardinalityType
<1>3. Shortfall(new) = 0 \/ Shortfall(new) > 0
  BY DEF AddObjects
<1> QED
  BY <1>2, <1>3, WorldAssumption DEF Shortfall

(* The number of bodies released by one RemoveDead is a natural number. *)
LEMMA FlippedType ==
  ASSUME NEW sleeping \in SUBSET Cubes
  PROVE  Cardinality(Flipped(sleeping)) \in Nat
<1>1. Flipped(sleeping) \subseteq Obj
  BY DEF Flipped, Cubes, Listed
<1> QED
  BY <1>1, WorldAssumption, FS_Subset, FS_CardinalityType

-----------------------------------------------------------------------------
(* The world's operations keep its types and the bookkeeping of the ids. *)

WorldInv == WorldTypeOK /\ HeapInv /\ IdsPartitioned

(* The ids in use are ids. *)
LEMMA IdsInUse ==
  ASSUME WorldInv, NEW o \in Allocated
  PROVE  id[o] \in Ids
BY DEF WorldInv, WorldTypeOK, IdsPartitioned, Allocated

(* A cube gets an address and an id that were free. *)
LEMMA AddCubesInv ==
  ASSUME WorldInv, AddCubes
  PROVE  WorldInv'
<1>1. CASE UNCHANGED worldVars
  BY <1>1 DEF worldVars, WorldInv, WorldTypeOK, HeapInv, IdsPartitioned,
              Allocated, Listed, Trashed, IdsOf
<1>2. ASSUME NEW new \in SUBSET Obj, AddObjects(new) PROVE WorldInv'
  <2>1. PICK f \in [new -> freeIds] : AssignIDs(new, f)
    BY <1>2 DEF AddObjects
  <2>2. /\ Allocated' = Allocated \cup new
        /\ Listed' = Listed \cup new
        /\ Trashed' = Trashed
        /\ new \cap Allocated = {}
    BY <1>2 DEF AddObjects, Allocated, Listed, Trashed
  <2>3. freeIds \subseteq Ids
    BY DEF WorldInv, WorldTypeOK
  <2>4. /\ \A o \in new : id'[o] = f[o] /\ f[o] \in freeIds /\ f[o] \in Ids
        /\ \A o \in Allocated : id'[o] = id[o]
    BY <2>1, <2>2, <2>3 DEF AssignIDs, Allocated
  <2>5. WorldTypeOK'
    <3>1. id' \in [Obj -> Ids \cup {NoId}] /\ freeIds' \subseteq Ids
          /\ masks' \subseteq Ids
      BY <2>1 DEF AssignIDs, WorldInv, WorldTypeOK
    <3>2. orphans' \in Nat
      BY <1>2, ShortfallType DEF AddObjects, WorldInv, WorldTypeOK
    <3>3. objCount + Batch \in Int
      BY WorldAssumption DEF WorldInv, WorldTypeOK, UINT16
    <3>4. objCount' \in 0 .. UINT16 - 1
      BY <1>2, <3>3, Uint16 DEF AddObjects
    <3> QED
      BY <1>2, <3>1, <3>2, <3>4 DEF AddObjects, WorldInv, WorldTypeOK, Ptr
  <2>6. HeapInv'
    BY <1>2, <2>2 DEF HeapInv, AddObjects, WorldInv, Trashed
  <2>7. IdsOf(Allocated)' = IdsOf(Allocated) \cup {f[o] : o \in new}
    BY <2>2, <2>4 DEF IdsOf
  <2>8. IdsOf(Listed)' = IdsOf(Listed) \cup {f[o] : o \in new}
    BY <2>2, <2>4 DEF IdsOf, WorldInv, HeapInv
  <2>9. IdsPartitioned'
    <3>1. \A o \in Allocated' : id'[o] # NoId
      BY <2>2, <2>4, WorldAssumption DEF WorldInv, IdsPartitioned
    <3>2. \A o, p \in Allocated' : id'[o] = id'[p] => o = p
      <4>1. \A o \in Allocated : id[o] \notin freeIds
        BY DEF WorldInv, IdsPartitioned, IdsOf
      <4>2. \A o, p \in new : f[o] = f[p] => o = p
        BY <2>1 DEF AssignIDs
      <4> QED
        BY <2>2, <2>4, <4>1, <4>2 DEF WorldInv, IdsPartitioned
    <3>3. freeIds' = Ids \ IdsOf(Allocated)'
      BY <2>1, <2>7 DEF AssignIDs, WorldInv, IdsPartitioned
    <3>4. masks' = IdsOf(Listed)'
      BY <2>1, <2>8 DEF AssignIDs, WorldInv, IdsPartitioned
    <3> QED
      BY <3>1, <3>2, <3>3, <3>4 DEF IdsPartitioned, IdsOf
  <2> QED
    BY <2>5, <2>6, <2>9 DEF WorldInv
<1> QED
  BY <1>1, <1>2 DEF AddCubes

(* Releasing a cube only raises its flag. *)
LEMMA RemoveDeadInv ==
  ASSUME WorldInv, RemoveDead
  PROVE  WorldInv'
<1>1. PICK sleeping \in SUBSET Cubes :
        /\ released' = released \cup sleeping
        /\ objCount' = (objCount - Cardinality(Flipped(sleeping))) % UINT16
  BY DEF RemoveDead
<1>2. objCount - Cardinality(Flipped(sleeping)) \in Int
  BY FlippedType DEF WorldInv, WorldTypeOK, UINT16
<1>3. objCount' \in 0 .. UINT16 - 1
  BY <1>1, <1>2, Uint16
<1>4. WorldTypeOK'
  BY <1>1, <1>3 DEF RemoveDead, WorldInv, WorldTypeOK, Cubes, Listed, Ptr
<1>5. HeapInv' /\ IdsPartitioned'
  BY DEF RemoveDead, WorldInv, HeapInv, IdsPartitioned, Allocated, Listed,
         Trashed, IdsOf
<1> QED
  BY <1>4, <1>5 DEF WorldInv

(* What gc moves and what it leaves. *)
LEMMA GCMoves ==
  ASSUME WorldInv, GC
  PROVE  /\ Allocated' = Listed
         /\ Listed' = Listed \ Dead
         /\ Trashed' = Listed \cap Dead
         /\ \A o \in Listed : id'[o] = id[o]
<1>1. Listed \cap Trashed = {} /\ Allocated = Listed \cup Trashed
  BY DEF WorldInv, HeapInv
<1> QED
  BY <1>1 DEF GC, Deleted, Dead, Allocated, Listed, Trashed

(* gc frees the ids of the objects it deletes and of no others. *)
LEMMA GCInv ==
  ASSUME WorldInv, GC
  PROVE  WorldInv'
<1>1. /\ Allocated' = Listed
      /\ Listed' = Listed \ Dead
      /\ Trashed' = Listed \cap Dead
      /\ \A o \in Listed : id'[o] = id[o]
  BY GCMoves
<1>2. Listed \cap Trashed = {} /\ Allocated = Listed \cup Trashed
  BY DEF WorldInv, HeapInv
<1>3. FreedIds \subseteq Ids
  BY <1>2, IdsInUse DEF FreedIds, IdsOf
<1>4. WorldTypeOK'
  BY <1>3 DEF GC, Dead, WorldInv, WorldTypeOK, Ptr
<1>5. HeapInv'
  BY <1>1 DEF HeapInv, WorldInv, GC, Unscened, Dead, Listed
<1>6. IdsOf(Allocated)' = IdsOf(Listed)
  BY <1>1 DEF IdsOf
<1>7. IdsPartitioned'
  <2>1. /\ \A o \in Allocated' : id'[o] # NoId
        /\ \A o, p \in Allocated' : id'[o] = id'[p] => o = p
    BY <1>1, <1>2 DEF WorldInv, IdsPartitioned
  <2>2. freeIds' = Ids \ IdsOf(Allocated)'
    <3>1. Ids \ IdsOf(Listed) = (Ids \ IdsOf(Allocated)) \cup IdsOf(Trashed)
      <4>1. \A o \in Listed, p \in Trashed : id[o] # id[p]
        BY <1>2 DEF WorldInv, IdsPartitioned
      <4> QED
        BY <1>2, <1>3, <4>1 DEF IdsOf, FreedIds
    <3> QED
      BY <1>6, <3>1 DEF GC, FreedIds, WorldInv, IdsPartitioned
  <2>3. masks' = IdsOf(Listed)'
    <3>1. IdsOf(Listed) \ IdsOf(Dead \cap Obj) = IdsOf(Listed \ Dead)
      <4>1. Dead \cap Obj \subseteq Listed
        BY DEF Dead, Listed
      <4>2. \A o, p \in Listed : id[o] = id[p] => o = p
        BY <1>2 DEF WorldInv, IdsPartitioned
      <4> QED
        BY <4>1, <4>2 DEF IdsOf, Listed
    <3>2. IdsOf(Listed)' = IdsOf(Listed \ Dead)
      BY <1>1 DEF IdsOf
    <3> QED
      BY <3>1, <3>2 DEF GC, UnmaskedIds, WorldInv, IdsPartitioned
  <2> QED
    BY <2>1, <2>2, <2>3 DEF IdsPartitioned, IdsOf
<1> QED
  BY <1>4, <1>5, <1>7 DEF WorldInv

(* Any other step of the world: one that moves no object and no id.        *)
SameObjects ==
  /\ Allocated' = Allocated /\ Listed' = Listed /\ Trashed' = Trashed
  /\ UNCHANGED <<id, freeIds, masks>>
  /\ actors \subseteq actors'

LEMMA SameObjectsInv ==
  ASSUME WorldInv, SameObjects
  PROVE  HeapInv' /\ IdsPartitioned'
BY DEF WorldInv, SameObjects, HeapInv, IdsPartitioned, IdsOf

-----------------------------------------------------------------------------
(* The server's steps. *)

USE DEF worldVars

(* A step of uv thread that only moves on, or of MsQuic that leaves the    *)
(* world and the caches alone, keeps the invariants about them.            *)
LEMMA QuietStep ==
  ASSUME IInv, TypeOK', UNCHANGED worldVars, UNCHANGED <<cache, cacheSet>>,
         phase' = "gc" => phase = "gc"
  PROVE  HeapInv' /\ IdsPartitioned' /\ CacheInv'
<1>1. SameObjects
  BY DEF SameObjects, Allocated, Listed, Trashed
<1>2. HeapInv' /\ IdsPartitioned'
  BY <1>1, SameObjectsInv DEF IInv, WorldInv, TypeOK
<1>3. CacheInv'
  BY <1>1 DEF IInv, CacheInv, SameObjects, IdsOf
<1> QED
  BY <1>2, <1>3

(* The invariants when an object step of the world leaves the caches alone *)
(* and the objects that may be cached in place.                            *)
LEMMA CacheStep ==
  ASSUME IInv, UNCHANGED <<cache, cacheSet, players>>, phase' # "gc",
         \A h \in players : cache[h] \subseteq Allocated',
         \A h \in players : \A o \in cache[h] : id'[o] = id[o]
  PROVE  CacheInv'
BY DEF IInv, CacheInv, IdsOf

(* While an id is set in the mask its owner is in objects. *)
LEMMA MaskedListed ==
  ASSUME IInv, NEW o \in Allocated, id[o] \in masks
  PROVE  o \in Listed
BY DEF IInv, IdsPartitioned, HeapInv, IdsOf

(* updateState leaves every cache equal to the world's objects.  The id    *)
(* of a dropped entry is another than the id of any entry that is kept.    *)
LEMMA UpdateStateView ==
  ASSUME IInv, NEW h \in players
  PROVE  /\ Kept(h) \cup Adding(h) = Listed
         /\ KeptIds(h) \cup IdsOf(Adding(h)) = IdsOf(Listed)
<1>1. /\ cache[h] \subseteq Allocated
      /\ cacheSet[h] = IdsOf(cache[h])
  BY DEF IInv, CacheInv
<1>2. Kept(h) \subseteq Listed
  BY <1>1, MaskedListed DEF Kept
<1>3. \A o, p \in Allocated : id[o] = id[p] => o = p
  BY DEF IInv, IdsPartitioned
<1>4. KeptIds(h) = IdsOf(Kept(h))
  BY <1>1, <1>3 DEF KeptIds, IdsOf, Kept
<1>5. \A o \in Listed : o \in Allocated /\ id[o] # NoId
  BY DEF IInv, HeapInv, IdsPartitioned
<1>6. Kept(h) \subseteq Allocated
  BY <1>1 DEF Kept
<1>7. Adding(h) = Listed \ Kept(h)
  BY <1>3, <1>4, <1>5, <1>6 DEF Adding, IdsOf
<1> QED
  BY <1>2, <1>4, <1>7 DEF IdsOf

(* Any cache may be read: its objects are allocated, its live ones have an *)
(* actor.                                                                  *)
LEMMA AllReadable ==
  ASSUME IInv, NEW h \in players
  PROVE  CacheReadable(h)
<1>1. cache[h] \subseteq Allocated
  BY DEF IInv, CacheInv
<1>2. Kept(h) \subseteq Listed
  BY <1>1, MaskedListed DEF Kept
<1> QED
  BY <1>1, <1>2 DEF CacheReadable, Allocated, IInv, HeapInv

-----------------------------------------------------------------------------
(* Types. *)

LEMMA InitType == Init => TypeOK
<1> SUFFICES ASSUME Init PROVE TypeOK
  OBVIOUS
<1>1. PICK plane \in Obj, i \in Ids :
        /\ heap = {plane} /\ objects = {plane} /\ actors = {plane}
        /\ statics = {plane} /\ masks = {i} /\ freeIds = Ids \ {i}
        /\ id = [o \in Obj |-> IF o = plane THEN i ELSE NoId]
  BY DEF Init, WorldInit
<1>2. WorldTypeOK
  BY <1>1 DEF Init, WorldInit, WorldTypeOK, Ptr, UINT16
<1>3. skips \in 0 .. MaxSkips
  BY ServerAssumption DEF Init
<1>4. crashed \in BOOLEAN
  BY DEF Init
<1>5. /\ phase \in Phase
      /\ stage \in [Handle -> Stage] /\ pid \in [Handle -> Nat]
      /\ registered \subseteq Handle /\ connections \subseteq Handle
      /\ cache \in [Handle -> SUBSET Obj]
      /\ cacheSet \in [Handle -> SUBSET Ids]
  BY DEF Init, Phase, Stage
<1> QED
  BY <1>2, <1>3, <1>4, <1>5 DEF TypeOK

(* Each operation of the world a MsQuic thread calls keeps its types. *)
LEMMA PlayerStepType ==
  ASSUME WorldTypeOK, NEW h \in Handle,
         \/ AllocateHandle(h)
         \/ SpawnActor(h)
         \/ SpawnObject(h)
         \/ SpawnPlayer(h)
         \/ DestroyRelease(h)
         \/ DestroyRemove(h)
  PROVE  WorldTypeOK'
BY DEF WorldTypeOK, AllocateHandle, SpawnActor, SpawnObject, SpawnPlayer,
       DestroyRelease, DestroyRemove, Ptr

LEMMA UvType ==
  ASSUME IInv, UvThread
  PROVE  TypeOK'
<1>1. WorldTypeOK'
  <2>1. UNCHANGED worldVars => WorldTypeOK'
    BY DEF IInv, TypeOK, WorldTypeOK
  <2>2. AddCubes \/ RemoveDead \/ GC => WorldTypeOK'
    BY AddCubesInv, RemoveDeadInv, GCInv DEF IInv, WorldInv, TypeOK
  <2> QED
    BY <2>1, <2>2 DEF UvThread, UpdatePlayers, StepAdd, StepRemoveDead,
         Simulate, LockPlayers, UpdateNet, SyncAndCollect, SyncSim, UvFault,
         Fault
<1>2. phase' \in Phase
  BY DEF IInv, TypeOK, Phase, Goto, UvThread, UpdatePlayers, StepAdd,
         StepRemoveDead, Simulate, LockPlayers, UpdateNet, SyncAndCollect,
         SyncSim, UvFault, Fault
<1>3. skips' \in 0 .. MaxSkips
  BY ServerAssumption
     DEF IInv, TypeOK, UvThread, UpdatePlayers, StepAdd, StepRemoveDead,
         Simulate, LockPlayers, UpdateNet, SyncAndCollect, SyncSim, UvFault,
         Fault
<1>4. /\ cache' \in [Handle -> SUBSET Obj]
      /\ cacheSet' \in [Handle -> SUBSET Ids]
  <2>1. CASE UpdateNet
    <3>1. \A h \in players : /\ Kept(h) \cup Adding(h) \subseteq Obj
                             /\ KeptIds(h) \cup IdsOf(Adding(h)) \subseteq Ids
      BY UpdateStateView, IdsInUse DEF IInv, TypeOK, WorldInv, HeapInv, IdsOf,
         Listed
    <3> QED
      BY <2>1, <3>1 DEF UpdateNet, IInv, TypeOK
  <2>2. CASE UNCHANGED <<cache, cacheSet>>
    BY <2>2 DEF IInv, TypeOK
  <2> QED
    BY <2>1, <2>2 DEF UvThread, UpdatePlayers, StepAdd, StepRemoveDead,
         Simulate, LockPlayers, SyncAndCollect, SyncSim, UvFault, Fault
<1>5. /\ UNCHANGED <<stage, pid, registered, connections>>
      /\ crashed' \in BOOLEAN
  BY DEF IInv, TypeOK, UvThread, UpdatePlayers, StepAdd, StepRemoveDead,
         Simulate, LockPlayers, UpdateNet, SyncAndCollect, SyncSim, UvFault,
         Fault
<1> QED
  BY <1>1, <1>2, <1>3, <1>4, <1>5 DEF IInv, TypeOK

LEMMA QuicType ==
  ASSUME IInv, NEW h \in Handle, QuicThread(h)
  PROVE  TypeOK'
<1> USE DEF IInv, TypeOK
<1>1. WorldTypeOK'
  <2>1. UNCHANGED worldVars => WorldTypeOK'
    BY DEF WorldTypeOK
  <2> QED
    BY <2>1, PlayerStepType
       DEF QuicThread, OnConnect, OnDisconnect, NewConnection, StreamFailed,
         AddHandle, OnConnectActor, OnConnectObject, ObjectsRace,
         OnConnectPlayer, PushConnection, RemoveConnection, RemoveHandle,
         OnDisconnectRelease, OnDisconnectRemove,
         OnDisconnectUnlock, UseAfterDelete, Fault
<1>2. stage' \in [Handle -> Stage]
  BY DEF QuicThread, OnConnect, OnDisconnect, NewConnection, StreamFailed,
         AddHandle, OnConnectActor, OnConnectObject, ObjectsRace,
         OnConnectPlayer, PushConnection, RemoveConnection, RemoveHandle,
         OnDisconnectRelease, OnDisconnectRemove,
         OnDisconnectUnlock, UseAfterDelete, Fault,
         Advance, Stage
<1>3. pid' \in [Handle -> Nat]
  <2>1. Cardinality(Handle) \in Nat
    BY WorldAssumption, FS_CardinalityType
  <2> QED
    BY <2>1
       DEF QuicThread, OnConnect, OnDisconnect, NewConnection, StreamFailed,
         AddHandle, OnConnectActor, OnConnectObject, ObjectsRace,
         OnConnectPlayer, PushConnection, RemoveConnection, RemoveHandle,
         OnDisconnectRelease, OnDisconnectRemove,
         OnDisconnectUnlock, UseAfterDelete, Fault
<1>4. /\ phase' \in Phase /\ skips' \in 0 .. MaxSkips
      /\ registered' \subseteq Handle /\ connections' \subseteq Handle
      /\ cache' \in [Handle -> SUBSET Obj]
      /\ cacheSet' \in [Handle -> SUBSET Ids]
      /\ crashed' \in BOOLEAN
  BY DEF QuicThread, OnConnect, OnDisconnect, NewConnection, StreamFailed,
         AddHandle, OnConnectActor, OnConnectObject, ObjectsRace,
         OnConnectPlayer, PushConnection, RemoveConnection, RemoveHandle,
         OnDisconnectRelease, OnDisconnectRemove,
         OnDisconnectUnlock, UseAfterDelete, Fault
<1> QED
  BY <1>1, <1>2, <1>3, <1>4

-----------------------------------------------------------------------------
(* IInv is inductive. *)

LEMMA InitInv == Init => IInv
<1> SUFFICES ASSUME Init PROVE IInv
  OBVIOUS
<1>1. PICK plane \in Obj, i \in Ids :
        /\ heap = {plane} /\ objects = {plane} /\ actors = {plane}
        /\ masks = {i} /\ freeIds = Ids \ {i} /\ trashQ = {} /\ players = {}
        /\ id = [o \in Obj |-> IF o = plane THEN i ELSE NoId]
  BY DEF Init, WorldInit
<1>2. /\ Allocated = {plane} /\ Listed = {plane} /\ Trashed = {}
      /\ IdsOf({plane}) = {i}
  BY <1>1 DEF Allocated, Listed, Trashed, IdsOf
<1>3. HeapInv
  BY <1>1, <1>2 DEF HeapInv
<1>4. IdsPartitioned
  BY <1>1, <1>2, WorldAssumption DEF IdsPartitioned
<1>5. StageInv /\ CacheInv
  BY <1>1 DEF Init, StageInv, CacheInv
<1> QED
  BY <1>3, <1>4, <1>5, InitType DEF IInv

(* The tick. *)
LEMMA UvInv ==
  ASSUME IInv, UvThread
  PROVE  IInv'
<1>1. TypeOK'
  BY UvType
<1>2. CASE UpdatePlayers \/ Simulate \/ LockPlayers \/ SyncSim \/ UvFault
  <2>1. /\ UNCHANGED <<worldVars, stage, cache, cacheSet>>
        /\ phase' = "gc" => phase = "gc"
    BY <1>2 DEF UpdatePlayers, Simulate, LockPlayers, SyncSim, UvFault, Fault,
         Goto
  <2>2. StageInv'
    BY <2>1 DEF IInv, StageInv
  <2> QED
    BY <1>1, <2>1, <2>2, QuietStep DEF IInv
<1>3. CASE StepAdd
  <2>1. WorldInv'
    BY <1>3, AddCubesInv DEF StepAdd, IInv, WorldInv, TypeOK
  <2>2. StageInv'
    BY <1>3 DEF StepAdd, AddCubes, AddObjects, IInv, StageInv
  <2>3. Allocated \subseteq Allocated' /\ \A o \in Allocated : id'[o] = id[o]
    BY <1>3 DEF StepAdd, AddCubes, AddObjects, AssignIDs, Allocated
  <2>4. CacheInv'
    <3>1. UNCHANGED <<cache, cacheSet, players>> /\ phase' # "gc"
      BY <1>3 DEF StepAdd, AddCubes, AddObjects, Goto
    <3> QED
      BY <2>3, <3>1, CacheStep DEF IInv, CacheInv
  <2> QED
    BY <1>1, <2>1, <2>2, <2>4 DEF IInv, WorldInv
<1>4. CASE StepRemoveDead
  <2>1. WorldInv'
    BY <1>4, RemoveDeadInv DEF StepRemoveDead, IInv, WorldInv, TypeOK
  <2>2. StageInv'
    BY <1>4 DEF StepRemoveDead, RemoveDead, IInv, StageInv
  <2>3. Allocated' = Allocated /\ id' = id
    BY <1>4 DEF StepRemoveDead, RemoveDead, Allocated
  <2>4. CacheInv'
    <3>1. UNCHANGED <<cache, cacheSet, players>> /\ phase' # "gc"
      BY <1>4 DEF StepRemoveDead, RemoveDead, Goto
    <3> QED
      BY <2>3, <3>1, CacheStep DEF IInv, CacheInv
  <2> QED
    BY <1>1, <2>1, <2>2, <2>4 DEF IInv, WorldInv
<1>5. CASE UpdateNet
  <2>1. HeapInv' /\ IdsPartitioned'
    <3>1. SameObjects
      BY <1>5 DEF UpdateNet, SameObjects, Allocated, Listed, Trashed
    <3> QED
      BY <3>1, SameObjectsInv DEF IInv, WorldInv, TypeOK
  <2>2. StageInv'
    BY <1>5 DEF UpdateNet, IInv, StageInv
  <2>3. CacheInv'
    <3>1. \A h \in players : cache'[h] = Listed /\ cacheSet'[h] = IdsOf(Listed)
      BY <1>5, UpdateStateView DEF UpdateNet, IInv, TypeOK, WorldTypeOK
    <3>2. Listed \subseteq Allocated
      BY DEF IInv, HeapInv
    <3> QED
      BY <1>5, <3>1, <3>2 DEF UpdateNet, CacheInv, Allocated, Listed, IdsOf
  <2> QED
    BY <1>1, <2>1, <2>2, <2>3 DEF IInv
<1>6. CASE SyncAndCollect
  <2>1. WorldInv'
    BY <1>6, GCInv DEF SyncAndCollect, IInv, WorldInv, TypeOK
  <2>2. StageInv'
    BY <1>6 DEF SyncAndCollect, GC, IInv, StageInv
  <2>3. CacheInv'
    <3>1. UNCHANGED <<cache, cacheSet, players>> /\ phase = "gc"
          /\ phase' # "gc"
      BY <1>6 DEF SyncAndCollect, GC, Goto
    <3>2. Allocated' = Listed /\ \A o \in Listed : id'[o] = id[o]
      BY <1>6, GCMoves DEF SyncAndCollect, IInv, WorldInv, TypeOK
    <3>3. \A h \in players : cache[h] \subseteq Listed
      BY <3>1 DEF IInv, CacheInv
    <3> QED
      BY <3>1, <3>2, <3>3, CacheStep
  <2> QED
    BY <1>1, <2>1, <2>2, <2>3 DEF IInv, WorldInv
<1> QED
  BY <1>2, <1>3, <1>4, <1>5, <1>6 DEF UvThread

(* The callbacks of a connection. *)
LEMMA QuicInv ==
  ASSUME IInv, NEW h \in Handle, QuicThread(h)
  PROVE  IInv'
<1>1. TypeOK'
  BY QuicType
<1>2. HeapInv' /\ IdsPartitioned'
  <2>1. h \notin Obj
    BY WorldAssumption
  <2>2. SameObjects
    BY <2>1
       DEF SameObjects, Allocated, Listed, Trashed, QuicThread, OnConnect,
         OnDisconnect, NewConnection, StreamFailed, AddHandle, OnConnectActor,
         OnConnectObject, ObjectsRace, OnConnectPlayer, PushConnection,
         RemoveConnection, RemoveHandle, OnDisconnectRelease,
         OnDisconnectRemove,
         OnDisconnectUnlock, UseAfterDelete, Fault, AllocateHandle,
         SpawnActor, SpawnObject, SpawnPlayer, DestroyRelease, DestroyRemove
  <2> QED
    BY <2>2, SameObjectsInv DEF IInv, WorldInv, TypeOK
<1>3. CASE NewConnection(h)
  <2>1. h \notin players
    BY <1>3 DEF NewConnection, Advance, IInv, StageInv
  <2>2. StageInv'
    BY <1>3, <2>1 DEF NewConnection, AllocateHandle, Advance, IInv, TypeOK,
         StageInv
  <2>3. CacheInv'
    BY <1>3, <2>1 DEF NewConnection, AllocateHandle, IInv, CacheInv, TypeOK,
         WorldTypeOK, Allocated, Listed, IdsOf
  <2> QED
    BY <1>1, <1>2, <2>2, <2>3 DEF IInv
<1>4. CASE OnConnectObject(h)
  <2>1. StageInv'
    BY <1>4 DEF OnConnectObject, SpawnObject, Advance, IInv, TypeOK, StageInv
  <2>2. CacheInv'
    <3>1. Listed' = Listed
      BY <1>4, WorldAssumption DEF OnConnectObject, SpawnObject, Listed
    <3> QED
      BY <1>4, <3>1 DEF OnConnectObject, SpawnObject, IInv, CacheInv,
           Allocated, IdsOf
  <2> QED
    BY <1>1, <1>2, <2>1, <2>2 DEF IInv
<1>5. CASE OnConnectPlayer(h)
  <2>1. StageInv'
    BY <1>5 DEF OnConnectPlayer, SpawnPlayer, Advance, IInv, TypeOK, StageInv
  <2>2. cache[h] = {} /\ cacheSet[h] = {}
    BY <1>5 DEF OnConnectPlayer, Advance, IInv, StageInv
  <2>3. CacheInv'
    BY <1>5, <2>2 DEF OnConnectPlayer, SpawnPlayer, IInv, CacheInv, Allocated,
         Listed, IdsOf
  <2> QED
    BY <1>1, <1>2, <2>1, <2>3 DEF IInv
<1>6. CASE \/ OnConnectActor(h) \/ OnDisconnectRelease(h)
           \/ OnDisconnectRemove(h) \/ OnDisconnectUnlock(h)
  <2>1. StageInv'
    BY <1>6 DEF OnConnectActor, OnDisconnectRelease, OnDisconnectRemove,
         OnDisconnectUnlock,
         SpawnActor, DestroyRelease, DestroyRemove, Advance, IInv, TypeOK,
         StageInv
  <2>2. CacheInv'
    BY <1>6 DEF OnConnectActor, OnDisconnectRelease, OnDisconnectRemove,
         OnDisconnectUnlock,
         SpawnActor, DestroyRelease, DestroyRemove, IInv, CacheInv, Allocated,
         Listed, IdsOf
  <2> QED
    BY <1>1, <1>2, <2>1, <2>2 DEF IInv
<1>7. CASE \/ StreamFailed(h) \/ AddHandle(h) \/ PushConnection(h)
           \/ RemoveConnection(h) \/ RemoveHandle(h) \/ ObjectsRace(h)
           \/ UseAfterDelete(h)
  <2>1. UNCHANGED <<worldVars, cache, cacheSet, phase>>
    BY <1>7 DEF StreamFailed, AddHandle, PushConnection, RemoveConnection,
         RemoveHandle, ObjectsRace, UseAfterDelete, Fault
  <2>2. StageInv'
    BY <1>7, <2>1 DEF StreamFailed, AddHandle, PushConnection,
         RemoveConnection, RemoveHandle, ObjectsRace, UseAfterDelete, Fault,
         Advance, IInv, TypeOK, StageInv
  <2> QED
    BY <1>1, <2>1, <2>2, QuietStep DEF IInv
<1> QED
  BY <1>3, <1>4, <1>5, <1>6, <1>7 DEF QuicThread, OnConnect, OnDisconnect

LEMMA StutterInv ==
  ASSUME IInv, UNCHANGED vars
  PROVE  IInv'
BY DEF IInv, vars, serverVars, TypeOK, WorldTypeOK, HeapInv, IdsPartitioned,
       StageInv, CacheInv, Allocated, Listed, Trashed, IdsOf

(* The invariant all the others rest on. *)
THEOREM Invariance == Spec => []IInv
<1>1. Init => IInv
  BY InitInv
<1>2. IInv /\ [Next]_vars => IInv'
  BY UvInv, QuicInv, StutterInv DEF Next, Halted
<1> QED
  BY <1>1, <1>2, PTL DEF Spec

-----------------------------------------------------------------------------
(* What follows from it. *)

(* Every variable has its type: objCount stays a uint16_t, and 0 is never  *)
(* put on the free list, though Players, whose id it is, pass through gc.  *)
THEOREM TypeCorrect == Spec => []TypeOK
<1>1. IInv => TypeOK
  BY DEF IInv
<1> QED
  BY <1>1, Invariance, PTL

(* The comment of server-tick.cpp:68: updateState never reads a cached     *)
(* object that has been deleted, nor an actor that has been released.      *)
THEOREM CacheNeverDangles == Spec => []CachedInMemory
<1>1. IInv => CachedInMemory
  BY AllReadable DEF CachedInMemory
<1> QED
  BY <1>1, Invariance, PTL

(* The comment of world.cpp:323: an id is not free before every client has *)
(* been told that its last owner is gone.                                  *)
THEOREM NoEarlyReuse == Spec => []FreeIdsUncached
<1>1. IInv => FreeIdsUncached
  BY DEF IInv, CacheInv, IdsPartitioned, FreeIdsUncached, IdsOf
<1> QED
  BY <1>1, Invariance, PTL

(* No id is lost, shared, or free while in use.                            *)
THEOREM IdsNeverShared == Spec => []IdsPartitioned
<1>1. IInv => IdsPartitioned
  BY DEF IInv
<1> QED
  BY <1>1, Invariance, PTL

(* cache and cache_set never disagree about what the client knows.         *)
THEOREM CachesAgree == Spec => []CacheMirrors
<1>1. IInv => CacheMirrors
  BY DEF IInv, CacheInv, IdsPartitioned, CacheMirrors
<1> QED
  BY <1>1, Invariance, PTL

(* A net tick leaves no client behind.                                     *)
THEOREM NetTickComplete == Spec => []NetViewComplete
<1>1. IInv => NetViewComplete
  BY DEF IInv, CacheInv, NetViewComplete
<1> QED
  BY <1>1, Invariance, PTL

(* An id means the same object to the free list, the objects, the masks    *)
(* and every cache, however early gc gives ids back.                       *)
THEOREM IdsStayInAgreement == Spec => []IdsAgree
BY IdsNeverShared, NoEarlyReuse, CachesAgree, PTL DEF IdsAgree

-----------------------------------------------------------------------------
(* The numbers: objCount, which the code adds to and takes from at         *)
(* different places, counts the cubes, and the ids last although a cube    *)
(* keeps its id for some ticks after its death.                            *)
(* The cubes are all the objects but the plane, which never leaves.        *)
PlaneInv ==
  /\ \E plane \in Obj : statics = {plane}
  /\ statics \subseteq Listed
  /\ statics \cap released = {}

(* Memory that is free has no flag raised.                                 *)
FlagInv == released \cap Obj \subseteq Allocated

(* How many times World::step has added cubes since the last gc, at most.  *)
Adds ==
  IF phase \in {"net", "scan", "gc"} THEN MaxSkips + 1
  ELSE IF phase \in {"dead", "simulate"} THEN skips + 1
  ELSE skips

(* What so many steps add. *)
Batches(k) == Batch * k

AddsInv ==
  /\ phase \in {"net", "scan", "gc"} => skips = 0
  /\ Adds = 0 => Cubes \cap released = {}

(* No step adds to a full world, so before its last batch a net interval   *)
(* had fewer than TotalObj cubes alive; those that died since gc last ran  *)
(* come on top, and those gc has queued.                                   *)
BacklogInv ==
  /\ Adds # 0 => Cardinality(Cubes) < TotalObj + Batches(Adds)
  /\ Cardinality(Cubes) + Cardinality(Trashed)
       < TotalObj + Batch + Batches(MaxSkips) + Batches(Adds)

CInv ==
  /\ PlaneInv
  /\ FlagInv
  /\ CountExact
  /\ AddsInv
  /\ BacklogInv
  /\ IdsSuffice
-----------------------------------------------------------------------------
(* Facts about numbers and finite sets. *)

LEMMA DisjointUnion ==
  ASSUME NEW S, NEW T, IsFiniteSet(S), IsFiniteSet(T), S \cap T = {}
  PROVE  Cardinality(S \cup T) = Cardinality(S) + Cardinality(T)
<1>1. Cardinality(S) \in Nat /\ Cardinality(T) \in Nat
  BY FS_CardinalityType
<1>2. Cardinality({}) = 0
  BY FS_EmptySet
<1>3. Cardinality(S \cup T) = Cardinality(S) + Cardinality(T) - Cardinality(S \cap T)
  BY FS_Union
<1>4. Cardinality(S \cap T) = 0
  BY <1>2
<1> QED
  BY <1>1, <1>3, <1>4

LEMMA Constants ==
  /\ TotalObj \in Nat /\ Batch \in Nat /\ Batch # 0 /\ MaxSkips \in Nat
  /\ TotalObj + Batch < 65536
BY WorldAssumption, ServerAssumption DEF UINT16

(* What a uint16_t holds when what is assigned to it fits. *)
LEMMA FitsUint16 ==
  \A x \in Nat : x < 65536 => x % UINT16 = x
BY DEF UINT16

LEMMA CountType ==
  ASSUME TypeOK
  PROVE  objCount \in Nat /\ orphans \in Nat
BY SMT DEF TypeOK, WorldTypeOK, UINT16

(* Any set of objects is finite. *)
LEMMA ObjFinite ==
  ASSUME NEW S \in SUBSET Obj
  PROVE  IsFiniteSet(S) /\ Cardinality(S) \in Nat
BY WorldAssumption, FS_Subset, FS_CardinalityType

LEMMA CubesFinite ==
  /\ IsFiniteSet(Cubes) /\ Cardinality(Cubes) \in Nat
  /\ IsFiniteSet(Cubes \ released) /\ Cardinality(Cubes \ released) \in Nat
  /\ IsFiniteSet(Trashed) /\ Cardinality(Trashed) \in Nat
BY ObjFinite DEF Cubes, Listed, Trashed

LEMMA AddsNat ==
  ASSUME skips \in Nat
  PROVE  Adds \in Nat
BY Constants DEF Adds

LEMMA AddsNatNext ==
  ASSUME skips' \in Nat
  PROVE  Adds' \in Nat
<1>1. Adds' = MaxSkips + 1 \/ Adds' = skips' + 1 \/ Adds' = skips'
  BY DEF Adds
<1> QED
  BY <1>1, Constants

LEMMA AddsType ==
  ASSUME TypeOK, TypeOK'
  PROVE  /\ skips \in Nat /\ skips' \in Nat
         /\ Adds \in Nat /\ Adds' \in Nat
<1>1. skips \in Nat /\ skips' \in Nat
  BY Constants DEF TypeOK
<1> QED
  BY <1>1, AddsNat, AddsNatNext

LEMMA BatchesType ==
  ASSUME NEW k \in Nat
  PROVE  Batches(k) \in Nat
<1>1. \A b \in Nat : b * k \in Nat
  OBVIOUS
<1> QED
  BY <1>1, Constants DEF Batches

LEMMA BatchesNext ==
  ASSUME NEW k \in Nat
  PROVE  Batches(k + 1) = Batches(k) + Batch
<1>1. \A b \in Nat : b * (k + 1) = b * k + b
  OBVIOUS
<1> QED
  BY <1>1, Constants DEF Batches

LEMMA BatchesNone == Batches(0) = 0
<1>1. \A b \in Nat : b * 0 = 0
  OBVIOUS
<1> QED
  BY <1>1, Constants DEF Batches

LEMMA BatchesMonotone ==
  ASSUME NEW k \in Nat, NEW m \in Nat, k <= m
  PROVE  Batches(k) <= Batches(m)
<1>1. \A b \in Nat : b * k <= b * m
  OBVIOUS
<1> QED
  BY <1>1, Constants DEF Batches

(* IdsNeeded, spelt out. *)
LEMMA IdsNeededSum ==
  IdsNeeded = TotalObj + Batch + (Batches(MaxSkips) + Batches(MaxSkips) + Batch)
<1>1. \A b, m \in Nat : b * (2 * m + 1) = b * m + b * m + b
  OBVIOUS
<1> QED
  BY <1>1, Constants DEF Batches, IdsNeeded

-----------------------------------------------------------------------------
(* CInv is inductive, given IInv. *)

LEMMA CountInit == Init => CInv
<1> SUFFICES ASSUME Init PROVE CInv
  OBVIOUS
<1>1. PICK plane \in Obj :
        /\ heap = {plane} /\ objects = {plane} /\ statics = {plane}
        /\ trashQ = {} /\ released = {} /\ objCount = 0 /\ orphans = 0
  BY DEF Init, WorldInit
<1>2. Cubes = {} /\ Cubes \ released = {} /\ Trashed = {}
  BY <1>1 DEF Cubes, Listed, Trashed
<1>3. Cardinality({}) = 0
  BY FS_EmptySet
<1>4. Adds = 0
  BY DEF Init, Adds
<1>5. PlaneInv /\ FlagInv
  BY <1>1 DEF PlaneInv, FlagInv, Listed
<1>6. CountExact /\ IdsSuffice
  BY <1>1, <1>2, <1>3, WorldAssumption DEF CountExact, IdsSuffice
<1>7. AddsInv
  BY <1>2, <1>4 DEF AddsInv, Init
<1>8. BacklogInv
  <2>1. Batches(MaxSkips) \in Nat /\ Batches(Adds) = 0
    BY <1>4, BatchesType, BatchesNone, Constants
  <2> QED
    BY <1>2, <1>3, <1>4, <2>1, Constants DEF BacklogInv
<1> QED
  BY <1>5, <1>6, <1>7, <1>8 DEF CInv

(* A step that changes no object and no count, nor raises an object's flag.*)
SameCount ==
  /\ Listed' = Listed /\ Trashed' = Trashed /\ Allocated' = Allocated
  /\ UNCHANGED <<statics, objCount, orphans>>
  /\ released' \cap Obj = released \cap Obj

LEMMA SameCountInv ==
  ASSUME CInv, IInv, TypeOK', SameCount, Adds <= Adds', AddsInv'
  PROVE  CInv'
<1>1. /\ Cubes' = Cubes
      /\ Cubes' \ released' = Cubes \ released
  BY DEF SameCount, Cubes, Listed
<1>2. Listed \subseteq Obj
  BY DEF Listed
<1>3. PlaneInv' /\ FlagInv'
  BY <1>2 DEF CInv, SameCount, PlaneInv, FlagInv
<1>4. CountExact' /\ IdsSuffice'
  BY <1>1 DEF CInv, SameCount, CountExact, IdsSuffice, IdsNeeded
<1>5. BacklogInv'
  <2>1. Adds \in Nat /\ Adds' \in Nat
    BY AddsType DEF IInv
  <2>2. Batches(Adds) <= Batches(Adds')
    BY <2>1, BatchesMonotone
  <2>3. /\ Batches(Adds) \in Nat /\ Batches(Adds') \in Nat
        /\ Batches(MaxSkips) \in Nat
    BY <2>1, BatchesType, Constants
  <2>4. Adds = 0 => Cardinality(Cubes) < TotalObj + Batch
    <3>1. Adds = 0 => Cubes = Cubes \ released
      BY DEF CInv, AddsInv
    <3>2. /\ objCount = Cardinality(Cubes \ released) + orphans
          /\ objCount < TotalObj + Batch
      BY DEF CInv, CountExact
    <3>3. Cardinality(Cubes \ released) < TotalObj + Batch
      BY <3>2, CubesFinite, CountType, Constants, SMT DEF IInv
    <3> QED
      BY <3>1, <3>3
  <2>5. Adds' # 0 => Batch <= Batches(Adds')
    <3>1. Batches(1) = Batch
      BY BatchesNext, BatchesNone, Constants
    <3>2. Adds' # 0 => 1 <= Adds'
      BY <2>1
    <3> QED
      BY <2>1, <3>1, <3>2, BatchesMonotone
  <2>6. Adds' # 0 => Cardinality(Cubes) < TotalObj + Batches(Adds')
    BY <2>2, <2>3, <2>4, <2>5, CubesFinite, Constants DEF CInv, BacklogInv
  <2>7. Cardinality(Cubes) + Cardinality(Trashed)
          < TotalObj + Batch + Batches(MaxSkips) + Batches(Adds')
    BY <2>2, <2>3, CubesFinite, Constants DEF CInv, BacklogInv
  <2> QED
    BY <1>1, <2>6, <2>7 DEF SameCount, BacklogInv
<1> QED
  BY <1>3, <1>4, <1>5 DEF CInv

(* The ids free before a step are all but those of the allocated objects.  *)
LEMMA FreeIdsEnough ==
  ASSUME IInv, CInv, phase = "add", Wanted, Cardinality(Ids) >= IdsNeeded
  PROVE  Cardinality(freeIds) >= Batch
<1> DEFINE Used == IdsOf(Allocated)
<1>1. Used \subseteq Ids
  BY IdsInUse DEF IInv, WorldInv, TypeOK, IdsOf
<1>2. IsFiniteSet(Used) /\ Cardinality(Used) \in Nat /\ Cardinality(Ids) \in Nat
  BY <1>1, WorldAssumption, FS_Subset, FS_CardinalityType
<1>3. Cardinality(freeIds) = Cardinality(Ids) - Cardinality(Used)
  <2>1. Ids \cap Used = Used /\ freeIds = Ids \ Used
    BY <1>1 DEF IInv, IdsPartitioned
  <2> QED
    BY <2>1, FS_Difference, WorldAssumption
<1>4. Cardinality(Used) <= Cardinality(Allocated)
  <2> DEFINE f == [o \in Allocated |-> id[o]]
  <2>1. f \in Surjection(Allocated, Used)
    BY DEF Surjection, IdsOf
  <2>2. IsFiniteSet(Allocated)
    BY ObjFinite DEF Allocated
  <2> QED
    BY <2>1, <2>2, FS_Surjection
<1>5. Cardinality(Allocated) = Cardinality(Cubes) + 1 + Cardinality(Trashed)
  <2>1. Cardinality(Listed) = Cardinality(Cubes) + 1
    <3>1. PICK plane \in Obj : statics = {plane}
      BY DEF CInv, PlaneInv
    <3>2. Listed = Cubes \cup {plane} /\ plane \notin Cubes
      BY <3>1 DEF CInv, PlaneInv, Cubes
    <3> QED
      BY <3>2, CubesFinite, FS_AddElement
  <2>2. Allocated = Listed \cup Trashed /\ Listed \cap Trashed = {}
    BY DEF IInv, HeapInv
  <2>3. IsFiniteSet(Listed) /\ IsFiniteSet(Trashed)
    BY ObjFinite DEF Listed, Trashed
  <2> QED
    BY <2>1, <2>2, <2>3, DisjointUnion
<1>6. Cardinality(Cubes) + Cardinality(Trashed)
        < TotalObj + Batch + Batches(MaxSkips) + Batches(MaxSkips)
  <2>1. Adds = skips /\ skips \in Nat /\ skips <= MaxSkips
    BY Constants DEF Adds, IInv, TypeOK
  <2>2. Batches(Adds) <= Batches(MaxSkips)
    BY <2>1, BatchesMonotone, Constants
  <2>3. Batches(Adds) \in Nat /\ Batches(MaxSkips) \in Nat
    BY <2>1, BatchesType, Constants
  <2> QED
    BY <2>2, <2>3, CubesFinite, Constants DEF CInv, BacklogInv
<1>7. Batches(MaxSkips) \in Nat
  BY BatchesType, Constants
<1> HIDE DEF Used
<1> QED
  BY <1>2, <1>3, <1>4, <1>5, <1>6, <1>7, Constants, CubesFinite, IdsNeededSum

(* What one batch does to the numbers. *)
LEMMA AddTally ==
  ASSUME IInv, CInv, NEW new \in SUBSET Obj, AddObjects(new)
  PROVE  /\ Cardinality(new) \in Nat /\ Cardinality(new) <= Batch
         /\ Cardinality(Cubes') = Cardinality(Cubes) + Cardinality(new)
         /\ Cardinality(Cubes' \ released')
              = Cardinality(Cubes \ released) + Cardinality(new)
<1>1. IsFiniteSet(new) /\ Cardinality(new) \in Nat
  BY ObjFinite
<1>2. Cardinality(new) <= Batch
  BY <1>1, ShortfallType, WorldAssumption DEF Shortfall
<1>3. /\ new \cap Allocated = {} /\ Listed \subseteq Allocated
      /\ Listed' = Listed \cup new
      /\ UNCHANGED <<released, statics>>
  BY DEF AddObjects, Allocated, Listed, IInv, HeapInv
<1>4. /\ statics \subseteq Allocated
      /\ new \cap released = {} /\ new \cap statics = {} /\ new \cap Cubes = {}
  BY <1>3 DEF CInv, PlaneInv, FlagInv, Cubes
<1>5. /\ Cubes' = Cubes \cup new
      /\ Cubes' \ released' = (Cubes \ released) \cup new
      /\ (Cubes \ released) \cap new = {}
  BY <1>3, <1>4 DEF Cubes
<1> QED
  BY <1>1, <1>2, <1>4, <1>5, CubesFinite, DisjointUnion

LEMMA AddCount ==
  ASSUME IInv, CInv, StepAdd, TypeOK'
  PROVE  CInv'
<1>1. Adds = skips /\ Adds' = skips + 1 /\ skips \in Nat
  <2>1. phase = "add" /\ phase' = "dead" /\ skips' = skips
    BY DEF StepAdd, Goto
  <2> QED
    BY <2>1, AddsType DEF Adds, IInv
<1>2. AddsInv'
  BY <1>1 DEF StepAdd, Goto, AddsInv
<1>3. CASE UNCHANGED worldVars
  <2>1. SameCount
    BY <1>3 DEF SameCount, Listed, Trashed, Allocated
  <2> QED
    BY <1>1, <1>2, <2>1, SameCountInv
<1>4. ASSUME NEW new \in SUBSET Obj, AddObjects(new), Wanted PROVE CInv'
  <2>1. /\ Cardinality(new) \in Nat /\ Cardinality(new) <= Batch
        /\ Cardinality(Cubes') = Cardinality(Cubes) + Cardinality(new)
        /\ Cardinality(Cubes' \ released')
             = Cardinality(Cubes \ released) + Cardinality(new)
    BY <1>4, AddTally
  <2>2. /\ Listed' = Listed \cup new
        /\ Allocated' = Allocated \cup new
        /\ Trashed' = Trashed
        /\ UNCHANGED <<released, statics>>
        /\ new \cap Allocated = {}
    BY <1>4 DEF AddObjects, Listed, Allocated, Trashed
  <2>3. PlaneInv' /\ FlagInv'
    BY <2>2 DEF CInv, PlaneInv, FlagInv
  <2>4. /\ objCount \in Nat /\ orphans \in Nat
        /\ objCount < TotalObj
        /\ objCount = Cardinality(Cubes \ released) + orphans
    BY <1>4, CountType DEF Wanted, CInv, CountExact, IInv
  <2>5. TotalObj \in Nat /\ Batch \in Nat /\ TotalObj + Batch < 65536
    BY Constants
  <2>6. objCount' = objCount + Batch
    <3>1. objCount' = (objCount + Batch) % UINT16
      BY <1>4 DEF AddObjects
    <3>2. objCount + Batch \in Nat /\ objCount + Batch < 65536
      BY <2>4, <2>5, SMT
    <3> QED
      BY <3>1, <3>2, FitsUint16
  <2>7. orphans' = orphans + (Batch - Cardinality(new))
    BY <1>4 DEF AddObjects, Shortfall
  <2>8. CountExact'
    BY <2>1, <2>4, <2>5, <2>6, <2>7, CubesFinite DEF CountExact
  <2>9. BacklogInv'
    <3>1. /\ Batches(Adds) \in Nat /\ Batches(Adds') = Batches(Adds) + Batch
          /\ Batches(MaxSkips) \in Nat
      BY <1>1, BatchesType, BatchesNext, Constants
    <3>2. Adds = 0 => Cardinality(Cubes) < TotalObj
      <4>1. Adds = 0 => Cubes = Cubes \ released
        BY DEF CInv, AddsInv
      <4>2. Cardinality(Cubes \ released) < TotalObj
        BY <2>4, <2>5, CubesFinite, SMT
      <4> QED
        BY <4>1, <4>2
    <3>3. Cardinality(Cubes) < TotalObj + Batches(Adds)
      BY <1>1, <3>1, <3>2, <2>5, CubesFinite DEF CInv, BacklogInv
    <3> QED
      BY <2>1, <2>2, <2>5, <3>1, <3>3, CubesFinite DEF CInv, BacklogInv
  <2>10. IdsSuffice'
    <3> SUFFICES ASSUME Cardinality(Ids) >= IdsNeeded PROVE orphans' = 0
      BY DEF IdsSuffice, IdsNeeded
    <3>1. Cardinality(freeIds) >= Batch
      BY <1>4, FreeIdsEnough DEF StepAdd, Goto
    <3>2. Cardinality(freeIds) \in Nat
      BY WorldAssumption, FS_Subset, FS_CardinalityType
         DEF IInv, TypeOK, WorldTypeOK
    <3>3. Batch - Cardinality(new) = 0
      BY <1>4, <2>1, <2>5, <3>1, <3>2 DEF AddObjects, Shortfall
    <3> QED
      BY <2>7, <3>3 DEF CInv, IdsSuffice
  <2> QED
    BY <1>2, <2>3, <2>8, <2>9, <2>10 DEF CInv
<1> QED
  BY <1>3, <1>4 DEF StepAdd, AddCubes

(* Only a cube that was not released before is counted off. *)
LEMMA RemoveDeadCount ==
  ASSUME IInv, CInv, StepRemoveDead, TypeOK'
  PROVE  CInv'
<1>1. PICK sleeping \in SUBSET Cubes :
        /\ released' = released \cup sleeping
        /\ objCount' = (objCount - Cardinality(Flipped(sleeping))) % UINT16
  BY DEF StepRemoveDead, RemoveDead
<1>2. /\ Listed' = Listed /\ Trashed' = Trashed /\ Allocated' = Allocated
      /\ UNCHANGED <<statics, orphans, skips>>
      /\ phase = "dead" /\ phase' = "simulate"
  BY DEF StepRemoveDead, RemoveDead, Goto, Listed, Trashed, Allocated
<1>3. Cubes' = Cubes /\ Adds' = Adds /\ Adds # 0
  BY <1>2, ServerAssumption DEF Cubes, Adds, IInv, TypeOK
<1>4. PlaneInv' /\ FlagInv'
  BY <1>1, <1>2 DEF CInv, PlaneInv, FlagInv, Cubes, IInv, HeapInv
<1>5. CountExact'
  <2>1. /\ Cubes \ released' = (Cubes \ released) \ sleeping
        /\ (Cubes \ released) \cap sleeping = Flipped(sleeping)
    BY <1>1 DEF Flipped
  <2>2. Cardinality(Cubes \ released')
          = Cardinality(Cubes \ released) - Cardinality(Flipped(sleeping))
    BY <2>1, CubesFinite, FS_Difference
  <2>3. /\ Cardinality(Flipped(sleeping)) \in Nat
        /\ Cardinality(Flipped(sleeping)) <= Cardinality(Cubes \ released)
    BY <2>1, FlippedType, CubesFinite, FS_Intersection
  <2>4. /\ objCount \in Nat /\ orphans \in Nat
        /\ objCount < TotalObj + Batch
        /\ TotalObj + Batch < 65536 /\ TotalObj + Batch \in Nat
        /\ objCount = Cardinality(Cubes \ released) + orphans
    BY Constants, CountType DEF CInv, CountExact, IInv
  <2>5. /\ objCount - Cardinality(Flipped(sleeping)) \in Nat
        /\ objCount - Cardinality(Flipped(sleeping)) < 65536
    BY <2>3, <2>4, CubesFinite, SMT
  <2>6. objCount' = objCount - Cardinality(Flipped(sleeping))
    BY <1>1, <2>5, FitsUint16
  <2>7. Cardinality(Cubes' \ released')
          = Cardinality(Cubes \ released) - Cardinality(Flipped(sleeping))
    BY <1>3, <2>2
  <2> QED
    BY <1>2, <2>3, <2>4, <2>6, <2>7, CubesFinite DEF CountExact
<1>6. AddsInv' /\ BacklogInv' /\ IdsSuffice'
  BY <1>2, <1>3 DEF CInv, AddsInv, BacklogInv, IdsSuffice, IdsNeeded
<1> QED
  BY <1>4, <1>5, <1>6 DEF CInv

(* gc moves the dead cubes to the trash and no other. *)
LEMMA GCCount ==
  ASSUME IInv, CInv, SyncAndCollect, TypeOK'
  PROVE  CInv'
<1>1. /\ Allocated' = Listed
      /\ Listed' = Listed \ Dead
      /\ Trashed' = Listed \cap Dead
      /\ released' = released \ trashQ
      /\ UNCHANGED <<statics, objCount, orphans, skips>>
      /\ phase = "gc" /\ phase' = "players"
  BY GCMoves DEF SyncAndCollect, GC, Deleted, Goto, IInv, WorldInv, TypeOK
<1>2. Dead \cap Obj = Listed \cap released
  BY DEF Dead, Listed
<1>3. Cubes' = Cubes \ released /\ Cubes' \ released' = Cubes \ released
      /\ Trashed' = Cubes \cap released
      /\ Cubes' \cap released' = {}
  BY <1>1, <1>2 DEF Cubes, Listed, CInv, PlaneInv
<1>4. PlaneInv' /\ FlagInv'
  BY <1>1, <1>2 DEF CInv, PlaneInv, FlagInv, IInv, HeapInv, Listed, Trashed
<1>5. CountExact' /\ IdsSuffice'
  BY <1>1, <1>3 DEF CInv, CountExact, IdsSuffice, IdsNeeded
<1>6. Adds = MaxSkips + 1 /\ Adds' = 0 /\ skips = 0
  BY <1>1 DEF CInv, AddsInv, Adds
<1>7. AddsInv'
  BY <1>1, <1>3, <1>6 DEF AddsInv
<1>8. BacklogInv'
  <2>1. Cardinality(Cubes) < TotalObj + Batches(MaxSkips + 1)
    BY <1>6, Constants DEF CInv, BacklogInv
  <2>2. /\ Batches(MaxSkips) \in Nat
        /\ Batches(MaxSkips + 1) = Batches(MaxSkips) + Batch
        /\ Batches(Adds') = 0
    BY <1>6, BatchesType, BatchesNext, BatchesNone, Constants
  <2>3. Cardinality(Cubes') + Cardinality(Trashed') = Cardinality(Cubes)
    <3>1. /\ Cubes' \cup Trashed' = Cubes
          /\ Cubes' \cap Trashed' = {}
      BY <1>3
    <3>2. IsFiniteSet(Cubes') /\ IsFiniteSet(Trashed')
      BY <1>3, CubesFinite, FS_Subset
    <3> QED
      BY <3>1, <3>2, DisjointUnion
  <2> QED
    BY <1>6, <2>1, <2>2, <2>3, Constants, CubesFinite DEF BacklogInv
<1> QED
  BY <1>4, <1>5, <1>7, <1>8 DEF CInv

LEMMA UvCount ==
  ASSUME IInv, CInv, UvThread
  PROVE  CInv'
<1>1. TypeOK'
  BY UvType
<1>2. CASE \/ UpdatePlayers \/ Simulate \/ LockPlayers \/ UpdateNet
           \/ SyncSim \/ UvFault
  <2>1. UNCHANGED worldVars
    BY <1>2 DEF UpdatePlayers, Simulate, LockPlayers, UpdateNet, SyncSim,
         UvFault, Fault
  <2>2. SameCount
    BY <2>1 DEF SameCount, Listed, Trashed, Allocated
  <2>3. Adds <= Adds' /\ AddsInv'
    <3>1. Cubes' = Cubes /\ released' = released
      BY <2>1 DEF Cubes, Listed
    <3> QED
      BY <1>2, <3>1, ServerAssumption
         DEF CInv, AddsInv, Adds, UpdatePlayers, Simulate, LockPlayers,
           UpdateNet, SyncSim, UvFault, Fault, Goto, IInv, TypeOK
  <2> QED
    BY <1>1, <2>2, <2>3, SameCountInv
<1> QED
  BY <1>1, <1>2, AddCount, RemoveDeadCount, GCCount DEF UvThread

LEMMA QuicCount ==
  ASSUME IInv, CInv, NEW h \in Handle, QuicThread(h)
  PROVE  CInv'
<1>1. TypeOK'
  BY QuicType
<1>2. h \notin Obj
  BY WorldAssumption
<1>3. SameCount /\ UNCHANGED <<phase, skips>>
  BY <1>2
     DEF SameCount, Allocated, Listed, Trashed, QuicThread, OnConnect,
       OnDisconnect, NewConnection, StreamFailed, AddHandle, OnConnectActor,
       OnConnectObject, ObjectsRace, OnConnectPlayer, PushConnection,
       RemoveConnection, RemoveHandle, OnDisconnectRelease,
       OnDisconnectRemove,
         OnDisconnectUnlock, UseAfterDelete, Fault, AllocateHandle, SpawnActor,
       SpawnObject, SpawnPlayer, DestroyRelease, DestroyRemove
<1>4. Adds' = Adds /\ Adds \in Nat
  BY <1>1, <1>3, AddsType DEF Adds, IInv
<1>5. Cubes' \cap released' = Cubes \cap released
  BY <1>3 DEF SameCount, Cubes, Listed
<1>6. AddsInv'
  BY <1>3, <1>4, <1>5 DEF CInv, AddsInv
<1> QED
  BY <1>1, <1>3, <1>4, <1>6, SameCountInv

LEMMA CountStutter ==
  ASSUME CInv, UNCHANGED vars
  PROVE  CInv'
BY DEF CInv, vars, serverVars, PlaneInv, FlagInv, CountExact, AddsInv, Adds,
       BacklogInv, IdsSuffice, IdsNeeded, Cubes, Listed, Trashed, Allocated

(* objCount and the ids suffice for what is in the world, in the trash and *)
(* still to be added before the next gc (world.cpp:117-121, 260-329).      *)
THEOREM CountInvariance == Spec => [](IInv /\ CInv)
<1>1. Init => CInv
  BY CountInit
<1>2. IInv /\ CInv /\ [Next]_vars => CInv'
  BY UvCount, QuicCount, CountStutter DEF Next, Halted
<1> QED
  BY <1>1, <1>2, Invariance, PTL DEF Spec

-----------------------------------------------------------------------------
(* What follows from it. *)

(* objCount is incremented per actor and decremented per flag raised, and  *)
(* still counts the cubes that live: it never wraps, and the world never   *)
(* overshoots TOTAL_OBJ by a whole batch.                                  *)
THEOREM CountsExactly == Spec => []CountExact
<1>1. CInv => CountExact
  BY DEF CInv
<1> QED
  BY <1>1, CountInvariance, PTL

(* Ids for a full world and two net intervals of batches are enough for    *)
(* addObject never to be refused one, whatever dies when.                  *)
THEOREM IdsNeverRunOut == Spec => []IdsSuffice
<1>1. CInv => IdsSuffice
  BY DEF CInv
<1> QED
  BY <1>1, CountInvariance, PTL
=============================================================================
