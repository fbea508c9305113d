---------------------------- MODULE HandleProofs ----------------------------
(***************************************************************************)
(* Proofs about the handles of GameServer, for any number of connections:  *)
(* whether a Player is allocated, in the scene, or told apart by its pid   *)
(* follows from how far the callbacks of its connection have come.         *)
(***************************************************************************)
EXTENDS GameServerProofs

-----------------------------------------------------------------------------
(* The invariant. *)

Fresh == {"accepted", "rejected", "refused"}
Connecting == {"added", "hasActor"}
Spawned == {"inObjects", "inPlayers", "up"}
Leaving == {"unlisted", "removed"}

(* Until destroy has begun a handle is allocated and gc is not after it;   *)
(* what gc holds of it, in objects or in the trash, is allocated memory.   *)
MemoryInv ==
  \A h \in Handle :
    /\ stage[h] \in Fresh \cup Connecting \cup Spawned \cup Leaving =>
         h \in heap
    /\ h \in released => h \in heap /\ stage[h] \in {"released", "left", "closed"}
    /\ h \in objects =>
         h \in heap /\ stage[h] \notin Fresh \cup Connecting \cup {"none"}
    /\ h \in trashQ => h \in released

(* gc's queue is apart from objects: no second gc meets the same player.   *)
TrashInv == trashQ \cap objects = {}

(* A spawned player is in objects until destroy releases it.               *)
SpawnedInv ==
  \A h \in Handle :
    /\ stage[h] \in Spawned => h \in objects
    /\ stage[h] \in Leaving /\ h \in players => h \in objects

(* A connection that broadcast may reach has not begun to shut down.       *)
ConnectionInv == \A h \in connections : stage[h] = "up"

(* A handle holds its pid from addHandle to removeHandle.  One that never  *)
(* was added has pid 0, so its removeHandle erases nobody's entry.         *)
PidInv ==
  /\ \A h \in registered :
       pid[h] # 0 /\ stage[h] \in Connecting \cup Spawned \cup {"unlisted"}
  /\ \A g, h \in registered : pid[g] = pid[h] => g = h
  /\ \A h \in Handle :
       /\ stage[h] \in Fresh => pid[h] = 0
       /\ stage[h] \in Connecting \cup Spawned => h \in registered
       /\ stage[h] = "unlisted" =>
            (h \in registered \/ (pid[h] = 0 /\ h \notin players))

HInv ==
  /\ MemoryInv
  /\ TrashInv
  /\ SpawnedInv
  /\ SceneMatches
  /\ ConnectionInv
  /\ PidInv
-----------------------------------------------------------------------------
(* HInv is inductive, given IInv. *)

USE DEF worldVars

LEMMA HandleInit == Init => HInv
<1> SUFFICES ASSUME Init PROVE HInv
  OBVIOUS
<1>1. PICK plane \in Obj :
        /\ heap = {plane} /\ objects = {plane} /\ actors = {plane}
        /\ trashQ = {} /\ released = {} /\ players = {}
  BY DEF Init, WorldInit
<1>2. \A h \in Handle : h \notin objects /\ stage[h] = "none"
  BY <1>1, WorldAssumption DEF Init
<1>3. MemoryInv /\ TrashInv /\ SpawnedInv
  BY <1>1, <1>2 DEF MemoryInv, TrashInv, SpawnedInv, Fresh, Connecting,
       Spawned, Leaving
<1>4. SceneMatches
  BY <1>1, <1>2 DEF SceneMatches
<1>5. ConnectionInv /\ PidInv
  BY <1>2 DEF Init, ConnectionInv, PidInv, Fresh, Connecting, Spawned
<1> QED
  BY <1>3, <1>4, <1>5 DEF HInv

(* What the tick does to the world leaves the handles' part of it alone,   *)
(* except for gc.                                                          *)
SameHandles ==
  /\ UNCHANGED <<stage, pid, registered, connections, players>>
  /\ \A h \in Handle :
       /\ h \in heap' <=> h \in heap
       /\ h \in objects' <=> h \in objects
       /\ h \in trashQ' <=> h \in trashQ
       /\ h \in released' <=> h \in released

LEMMA SameHandlesInv ==
  ASSUME HInv, SameHandles
  PROVE  MemoryInv' /\ SpawnedInv' /\ ConnectionInv' /\ PidInv'
<1>1. MemoryInv'
  BY DEF HInv, SameHandles, MemoryInv
<1>2. SpawnedInv'
  BY DEF HInv, SameHandles, SpawnedInv
<1>3. ConnectionInv' /\ PidInv'
  BY DEF HInv, SameHandles, ConnectionInv, PidInv
<1> QED
  BY <1>1, <1>2, <1>3

LEMMA AddCubesHandles ==
  ASSUME IInv, HInv, StepAdd
  PROVE  HInv'
<1>1. CASE UNCHANGED worldVars
  <2>1. SameHandles
    BY <1>1 DEF StepAdd, SameHandles
  <2>2. TrashInv' /\ SceneMatches'
    BY <1>1 DEF StepAdd, HInv, TrashInv, SceneMatches
  <2> QED
    BY <2>1, <2>2, SameHandlesInv DEF HInv
<1>2. ASSUME NEW new \in SUBSET Obj, AddObjects(new) PROVE HInv'
  <2>1. \A h \in Handle : h \notin new
    BY WorldAssumption
  <2>2. SameHandles
    BY <1>2, <2>1 DEF StepAdd, AddObjects, SameHandles
  <2>3. TrashInv'
    <3>1. trashQ \cap new = {}
      BY <1>2 DEF AddObjects, IInv, HeapInv, Allocated, Trashed
    <3> QED
      BY <1>2, <3>1 DEF AddObjects, HInv, TrashInv
  <2>4. SceneMatches'
    BY <1>2 DEF StepAdd, AddObjects, HInv, SceneMatches
  <2> QED
    BY <2>2, <2>3, <2>4, SameHandlesInv DEF HInv
<1> QED
  BY <1>1, <1>2 DEF StepAdd, AddCubes

LEMMA RemoveDeadHandles ==
  ASSUME HInv, StepRemoveDead
  PROVE  HInv'
<1>1. PICK sleeping \in SUBSET Cubes : released' = released \cup sleeping
  BY DEF StepRemoveDead, RemoveDead
<1>2. \A h \in Handle : h \notin sleeping
  BY <1>1, WorldAssumption DEF Cubes, Listed
<1>3. SameHandles
  BY <1>1, <1>2 DEF StepRemoveDead, RemoveDead, SameHandles
<1>4. TrashInv' /\ SceneMatches'
  BY DEF StepRemoveDead, RemoveDead, HInv, TrashInv, SceneMatches
<1> QED
  BY <1>3, <1>4, SameHandlesInv DEF HInv

(* gc takes the released handles out of objects and the scene, and deletes *)
(* those it queued before: nobody of either kind is still connecting.      *)
LEMMA GCHandles ==
  ASSUME IInv, HInv, SyncAndCollect
  PROVE  HInv'
<1>1. /\ UNCHANGED <<stage, pid, registered, connections, players>>
      /\ heap' = heap \ trashQ
      /\ released' = released \ trashQ
      /\ objects' = objects \ (objects \cap released)
      /\ actors' = actors \ (objects \cap released)
      /\ trashQ' = objects \cap released
  <2>1. objects \cap released \subseteq actors \cap Ptr
    BY DEF HInv, SceneMatches, IInv, TypeOK, WorldTypeOK
  <2> QED
    BY <2>1 DEF SyncAndCollect, GC, Deleted, Dead, Unscened, Releasable
<1>2. TrashInv'
  BY <1>1 DEF TrashInv
<1>3. \A h \in Handle : h \in released => stage[h] \in {"released", "left", "closed"}
  BY DEF HInv, MemoryInv
<1>4. MemoryInv'
  <2> SUFFICES ASSUME NEW h \in Handle
               PROVE  MemoryInv!(h)'
    BY DEF MemoryInv
  <2>1. h \in trashQ => stage[h] \in {"released", "left", "closed"}
    BY <1>3 DEF HInv, MemoryInv
  <2>2. h \in objects => h \notin trashQ
    BY DEF HInv, TrashInv
  <2> QED
    BY <1>1, <2>1, <2>2 DEF HInv, MemoryInv, Fresh, Connecting, Spawned, Leaving
<1>5. SpawnedInv'
  BY <1>1, <1>3 DEF HInv, SpawnedInv, Spawned, Leaving
<1>6. SceneMatches'
  BY <1>1, <1>3 DEF HInv, SceneMatches
<1>7. ConnectionInv' /\ PidInv'
  BY <1>1 DEF HInv, ConnectionInv, PidInv
<1> QED
  BY <1>2, <1>4, <1>5, <1>6, <1>7 DEF HInv

LEMMA UvHandles ==
  ASSUME IInv, HInv, UvThread
  PROVE  HInv'
<1>1. CASE \/ UpdatePlayers \/ Simulate \/ LockPlayers \/ UpdateNet
           \/ SyncSim \/ UvFault
  <2>1. UNCHANGED <<worldVars, stage, pid, registered, connections>>
    BY <1>1 DEF UpdatePlayers, Simulate, LockPlayers, UpdateNet, SyncSim,
         UvFault, Fault
  <2>2. SameHandles
    BY <2>1 DEF SameHandles
  <2>3. TrashInv' /\ SceneMatches'
    BY <2>1 DEF HInv, TrashInv, SceneMatches
  <2> QED
    BY <2>2, <2>3, SameHandlesInv DEF HInv
<1> QED
  BY <1>1, AddCubesHandles, RemoveDeadHandles, GCHandles DEF UvThread

-----------------------------------------------------------------------------
(* The callbacks of one connection.                                        *)

LEMMA QuicMemory ==
  ASSUME IInv, HInv, NEW g \in Handle, QuicThread(g)
  PROVE  MemoryInv'
<1> SUFFICES ASSUME NEW h \in Handle
             PROVE  MemoryInv!(h)'
  BY DEF MemoryInv
<1> USE DEF Fresh, Connecting, Spawned, Leaving
<1>1. CASE NewConnection(g)
  BY <1>1 DEF NewConnection, AllocateHandle, Advance, HInv, MemoryInv, IInv,
       TypeOK
<1>2. CASE StreamFailed(g) \/ AddHandle(g) \/ PushConnection(g)
           \/ RemoveConnection(g) \/ RemoveHandle(g)
  BY <1>2 DEF StreamFailed, AddHandle, PushConnection, RemoveConnection,
       RemoveHandle, Advance, HInv, MemoryInv, IInv, TypeOK
<1>3. CASE OnConnectActor(g) \/ OnConnectObject(g) \/ OnConnectPlayer(g)
  BY <1>3 DEF OnConnectActor, OnConnectObject, OnConnectPlayer, SpawnActor,
       SpawnObject, SpawnPlayer, Advance, HInv, MemoryInv, IInv, TypeOK
<1>4. CASE \/ OnDisconnectRelease(g) \/ OnDisconnectRemove(g)
           \/ OnDisconnectUnlock(g)
  BY <1>4 DEF OnDisconnectRelease, OnDisconnectRemove, OnDisconnectUnlock, DestroyRelease,
       DestroyRemove, Advance, HInv, MemoryInv, IInv, TypeOK
<1>5. CASE ObjectsRace(g) \/ UseAfterDelete(g)
  BY <1>5 DEF ObjectsRace, UseAfterDelete, Fault, HInv, MemoryInv
<1> QED
  BY <1>1, <1>2, <1>3, <1>4, <1>5 DEF QuicThread, OnConnect, OnDisconnect

LEMMA QuicWorld ==
  ASSUME IInv, HInv, NEW g \in Handle, QuicThread(g)
  PROVE  TrashInv' /\ SpawnedInv' /\ SceneMatches'
<1> USE DEF Fresh, Connecting, Spawned, Leaving
<1>1. CASE NewConnection(g)
  <2>1. g \notin players
    BY <1>1 DEF NewConnection, Advance, IInv, StageInv
  <2> QED
    BY <1>1, <2>1 DEF NewConnection, AllocateHandle, Advance, HInv, TrashInv,
         SpawnedInv, SceneMatches, IInv, TypeOK
<1>2. CASE StreamFailed(g) \/ AddHandle(g) \/ PushConnection(g)
           \/ RemoveConnection(g) \/ RemoveHandle(g)
  BY <1>2 DEF StreamFailed, AddHandle, PushConnection, RemoveConnection,
       RemoveHandle, Advance, HInv, TrashInv, SpawnedInv, SceneMatches, IInv,
       StageInv, TypeOK
<1>3. CASE OnConnectActor(g)
  <2>1. g \notin players
    BY <1>3 DEF OnConnectActor, Advance, IInv, StageInv
  <2> QED
    BY <1>3, <2>1 DEF OnConnectActor, SpawnActor, Advance, HInv, TrashInv,
         SpawnedInv, SceneMatches, IInv, TypeOK
<1>4. CASE OnConnectObject(g)
  <2>1. g \notin trashQ
    BY <1>4 DEF OnConnectObject, Advance, HInv, MemoryInv
  <2> QED
    BY <1>4, <2>1 DEF OnConnectObject, SpawnObject, Advance, HInv, TrashInv,
         SpawnedInv, SceneMatches, IInv, TypeOK
<1>5. CASE OnConnectPlayer(g)
  BY <1>5 DEF OnConnectPlayer, SpawnPlayer, Advance, HInv, TrashInv,
       SpawnedInv, SceneMatches, IInv, TypeOK
<1>6. CASE \/ OnDisconnectRelease(g) \/ OnDisconnectRemove(g)
           \/ OnDisconnectUnlock(g)
  BY <1>6 DEF OnDisconnectRelease, OnDisconnectRemove, OnDisconnectUnlock, DestroyRelease,
       DestroyRemove, Advance, HInv, TrashInv, SpawnedInv, SceneMatches, IInv,
       TypeOK
<1>7. CASE ObjectsRace(g) \/ UseAfterDelete(g)
  BY <1>7 DEF ObjectsRace, UseAfterDelete, Fault, HInv, TrashInv, SpawnedInv,
       SceneMatches
<1> QED
  BY <1>1, <1>2, <1>3, <1>4, <1>5, <1>6, <1>7
     DEF QuicThread, OnConnect, OnDisconnect

(* A callback changes the stage of its own connection only. *)
LEMMA QuicStage ==
  ASSUME IInv, NEW g \in Handle, QuicThread(g), NEW h \in Handle \ {g}
  PROVE  stage'[h] = stage[h]
BY DEF QuicThread, OnConnect, OnDisconnect, NewConnection, StreamFailed,
       AddHandle, OnConnectActor, OnConnectObject, ObjectsRace,
       OnConnectPlayer, PushConnection, RemoveConnection, RemoveHandle,
       OnDisconnectRelease, OnDisconnectRemove, OnDisconnectUnlock, UseAfterDelete, Fault,
       Advance, IInv, TypeOK

(* connections.push_back and connections.remove bracket the stage "up".    *)
LEMMA QuicConnections ==
  ASSUME IInv, HInv, NEW g \in Handle, QuicThread(g)
  PROVE  ConnectionInv'
<1>1. CASE PushConnection(g) \/ RemoveConnection(g)
  BY <1>1 DEF PushConnection, RemoveConnection, Advance, HInv, ConnectionInv,
       IInv, TypeOK
<1>2. CASE ~ (PushConnection(g) \/ RemoveConnection(g))
  <2>1. connections' = connections
    BY <1>2 DEF QuicThread, OnConnect, OnDisconnect, NewConnection,
         StreamFailed, AddHandle, OnConnectActor, OnConnectObject,
         ObjectsRace, OnConnectPlayer, RemoveHandle, OnDisconnectRelease,
         OnDisconnectRemove, OnDisconnectUnlock, UseAfterDelete, Fault
  <2>2. stage[g] # "up" \/ stage' = stage
    BY <1>2 DEF QuicThread, OnConnect, OnDisconnect, NewConnection,
         StreamFailed, AddHandle, OnConnectActor, OnConnectObject,
         ObjectsRace, OnConnectPlayer, RemoveHandle, OnDisconnectRelease,
         OnDisconnectRemove, OnDisconnectUnlock, UseAfterDelete, Fault, Advance
  <2>3. \A h \in Handle \ {g} : stage'[h] = stage[h]
    BY QuicStage
  <2> QED
    BY <2>1, <2>2, <2>3 DEF HInv, ConnectionInv, IInv, TypeOK
<1> QED
  BY <1>1, <1>2

(* addHandle takes a pid nobody in allHandles has; removeHandle erases the *)
(* entry of this handle or none.                                           *)
LEMMA QuicPids ==
  ASSUME IInv, HInv, NEW g \in Handle, QuicThread(g)
  PROVE  PidInv'
<1> USE DEF Fresh, Connecting, Spawned
<1>1. CASE NewConnection(g)
  <2>1. g \notin registered /\ g \notin players
    BY <1>1 DEF NewConnection, Advance, IInv, StageInv, HInv, PidInv
  <2> QED
    BY <1>1, <2>1 DEF NewConnection, AllocateHandle, Advance, HInv, PidInv,
         IInv, TypeOK
<1>2. CASE AddHandle(g)
  <2>1. PICK i \in 1 .. Cardinality(Handle) :
          NextPid(i) /\ pid' = [pid EXCEPT ![g] = i]
    BY <1>2 DEF AddHandle
  <2>2. i # 0 /\ \A h \in registered : pid[h] # i
    BY <2>1 DEF NextPid, UsedPids
  <2>3. g \notin registered
    BY <1>2 DEF AddHandle, Advance, HInv, PidInv
  <2> QED
    BY <1>2, <2>1, <2>2, <2>3 DEF AddHandle, Advance, HInv, PidInv, IInv,
         TypeOK, WorldTypeOK
<1>3. CASE RemoveHandle(g)
  <2>1. \A h \in registered : h # g => pid[h] # pid[g]
    BY <1>3 DEF RemoveHandle, Advance, HInv, PidInv
  <2>2. registered' = registered \ {g}
    BY <1>3, <2>1 DEF RemoveHandle
  <2> QED
    BY <1>3, <2>2 DEF RemoveHandle, Advance, HInv, PidInv, IInv, TypeOK
<1>4. CASE RemoveConnection(g)
  <2>1. stage[g] \in {"accepted", "refused"} => g \notin players
    BY DEF IInv, StageInv
  <2> QED
    BY <1>4, <2>1 DEF RemoveConnection, Advance, HInv, PidInv, IInv, TypeOK
<1>5. CASE StreamFailed(g) \/ OnConnectActor(g) \/ OnConnectObject(g)
           \/ OnConnectPlayer(g) \/ PushConnection(g)
  BY <1>5 DEF StreamFailed, OnConnectActor, OnConnectObject, OnConnectPlayer,
       PushConnection, SpawnActor, SpawnObject, SpawnPlayer, Advance, HInv,
       PidInv, IInv, TypeOK
<1>6. CASE \/ OnDisconnectRelease(g) \/ OnDisconnectRemove(g)
           \/ OnDisconnectUnlock(g)
  BY <1>6 DEF OnDisconnectRelease, OnDisconnectRemove, OnDisconnectUnlock, DestroyRelease,
       DestroyRemove, Advance, HInv, PidInv, IInv, TypeOK
<1>7. CASE ObjectsRace(g) \/ UseAfterDelete(g)
  BY <1>7 DEF ObjectsRace, UseAfterDelete, Fault, HInv, PidInv
<1> QED
  BY <1>1, <1>2, <1>3, <1>4, <1>5, <1>6, <1>7
     DEF QuicThread, OnConnect, OnDisconnect

LEMMA HandleStutter ==
  ASSUME HInv, UNCHANGED vars
  PROVE  HInv'
BY DEF HInv, vars, serverVars, MemoryInv, TrashInv, SpawnedInv, SceneMatches,
       ConnectionInv, PidInv

(* The stage of a connection says where its Handle is and what it holds    *)
(* (game.cpp:83-116).                                                      *)
THEOREM HandleInvariance == Spec => [](IInv /\ HInv)
<1>1. Init => HInv
  BY HandleInit
<1>2. IInv /\ HInv /\ [Next]_vars => HInv'
  BY UvHandles, QuicMemory, QuicWorld, QuicConnections, QuicPids,
     HandleStutter DEF Next, Halted, HInv
<1> QED
  BY <1>1, <1>2, Invariance, PTL DEF Spec

-----------------------------------------------------------------------------
(* What follows from it. *)

(* The scene holds the objects' actors and no others: gc, which releases   *)
(* one, releases it from both, and spawn leaves nothing behind.            *)
THEOREM SceneInStep == Spec => []SceneMatches
<1>1. HInv => SceneMatches
  BY DEF HInv
<1> QED
  BY <1>1, HandleInvariance, PTL

(* updatePlayers and updateState may use any player whose connection is    *)
(* not in World::destroy, however many gc's ran since it joined.           *)
THEOREM PlayersUsable == Spec => []ConnectedUsable
<1>1. IInv /\ HInv => ConnectedUsable
  <2> SUFFICES ASSUME IInv, HInv, NEW h \in players, stage[h] # "released"
               PROVE  h \in heap \cap actors
    BY DEF ConnectedUsable
  <2>1. stage[h] \in {"inPlayers", "up", "unlisted", "removed"} /\ h \in Handle
    BY DEF IInv, StageInv, TypeOK, WorldTypeOK
  <2>2. h \in heap /\ h \in objects
    BY <2>1 DEF HInv, MemoryInv, SpawnedInv, Spawned, Leaving
  <2> QED
    BY <2>2 DEF HInv, SceneMatches
<1> QED
  BY <1>1, HandleInvariance, PTL

(* broadcast, which walks connections, meets no handle gc may delete.      *)
THEOREM BroadcastAlive == Spec => []ConnectionsAlive
<1>1. IInv /\ HInv => ConnectionsAlive
  BY DEF IInv, TypeOK, HInv, ConnectionInv, MemoryInv, Spawned,
       ConnectionsAlive
<1> QED
  BY <1>1, HandleInvariance, PTL

(* The pids the clients tell each other by are shared only for as long as  *)
(* a leaving player is between removeHandle and the end of destroy.        *)
THEOREM PidsUnshared == Spec => []PidsDistinct
<1>1. IInv /\ HInv => PidsDistinct
  <2> SUFFICES ASSUME IInv, HInv, NEW g \in players, NEW h \in players,
                      g # h, pid[g] = pid[h],
                      stage[g] \notin {"removed", "released"},
                      stage[h] \notin {"removed", "released"}
               PROVE  FALSE
    BY DEF PidsDistinct
  <2>1. \A p \in {g, h} : p \in Handle /\ stage[p] \in {"inPlayers", "up", "unlisted"}
    BY DEF IInv, StageInv, TypeOK, WorldTypeOK
  <2>2. g \in registered /\ h \in registered
    BY <2>1 DEF HInv, PidInv, Connecting, Spawned
  <2> QED
    BY <2>2 DEF HInv, PidInv
<1> QED
  BY <1>1, HandleInvariance, PTL

(* Nothing refers to what gc has deleted, and the scene holds just what    *)
(* the world has put there.                                                *)
THEOREM PointersStayValid == Spec => []PointersValid
BY CacheNeverDangles, PlayersUsable, BroadcastAlive, SceneInStep, PTL
   DEF PointersValid
=============================================================================
