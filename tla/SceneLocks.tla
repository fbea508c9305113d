----------------------------- MODULE SceneLocks -----------------------------
(***************************************************************************)
(* The locks of the server and the order in which its threads take them:   *)
(* the tick (game.cpp, world.cpp), the callbacks of the connections        *)
(* (quic/server.cpp, game.cpp, server-tick.cpp) and the debug renderer     *)
(* (server/debug/renderer.cpp).                                            *)
(*                                                                         *)
(* A thread runs a script, the locks it takes and the data it touches in   *)
(* the order of the code; a scoped lock is In(lock, body), so the scripts  *)
(* nest as the code does.  The loops over players go over all              *)
(* connections, in any order: one that is not listed only has its mutex    *)
(* taken in vain.                                                          *)
(***************************************************************************)
EXTENDS Naturals, Sequences

CONSTANTS
  Conns,      \* connections, each with its Handle and its serialised callbacks
  Free        \* no thread

Threads == Conns \cup {"tick", "renderer"}

LocksConstants == Free \notin Threads /\ Conns \cap {"tick", "renderer"} = {}

(* world_mutex and input_mutex are a Player's own.                         *)
Mutexes ==
  {<<"player">>, <<"object">>, <<"handle">>, <<"connections">>}
  \cup ({"world", "input"} \X Conns)

Scene == <<"scene">>

VARIABLES
  code,     \* what is left of each thread's script
  owner,    \* of each mutex, and of the one inside the scene's lock
  readers,  \* of the scene
  joined    \* connections between onConnect and onDisconnect

vars == <<code, owner, readers, joined>>

-----------------------------------------------------------------------------
(* Scripts. *)

Step(op, what) == <<[op |-> op, what |-> what]>>
Reading(data) == Step("read", data)
Writing(data) == Step("write", data)

BugIn(l, body) == Step("lock", l) \o body      \* the lock is kept

In(l, body) == Step("lock", l) \o body \o Step("unlock", l)

(* A writer of the scene keeps new readers out and waits for the others.   *)
PxSceneWriteLock(body) == In(Scene, Step("drain", Scene) \o body)

PxSceneReadLock(body) == Step("enter", Scene) \o body \o Step("leave", Scene)

(* What a loop has left to do: a step of this kind for these players.      *)
Each(kind, left) == Step("each", <<kind, left>>)

ForEachPlayer(kind) == Reading(<<"players">>) \o Each(kind, Conns)

UpdatePlayer(h) ==
  In(<<"input", h>>, Reading(<<"input", h>>))
  \o Reading(<<"tick">>) \o PxSceneWriteLock(Writing(<<"scene">>))

UpdatePlayers == In(<<"player">>, ForEachPlayer("update"))

(* The last is send(), which uses ctx->stream.                             *)
UpdateState(h) ==
  PxSceneReadLock(Reading(<<"objects">>) \o Reading(<<"scene">>)
                  \o Reading(<<"stream", h>>))

UpdateNet == In(<<"player">>, ForEachPlayer("net"))

Body(kind, h) == IF kind = "update" THEN UpdatePlayer(h)
                                    ELSE UpdateState(h)

(* addObject<T, false>, with the locks held.                               *)
AddObject == Writing(<<"scene">>) \o Writing(<<"objects">>)

StepAdd == PxSceneWriteLock(In(<<"object">>, AddObject))

StepRemove ==
  PxSceneReadLock(In(<<"object">>, Reading(<<"objects">>) \o Reading(<<"scene">>)))

Simulate == PxSceneWriteLock(Writing(<<"scene">>) \o Writing(<<"tick">>))

SyncSim == PxSceneWriteLock(Writing(<<"scene">>))

Gc == In(<<"object">>, PxSceneWriteLock(Writing(<<"objects">>) \o Writing(<<"scene">>)))

Tick(net) ==
  UpdatePlayers \o StepAdd \o StepRemove \o Simulate
  \o (IF net THEN UpdateNet \o SyncSim \o Gc ELSE SyncSim)

BugSpawn ==  \* keeps the scene until the player is in objects
  PxSceneWriteLock(In(<<"player">>, Writing(<<"players">>)) \o Writing(<<"scene">>)
                   \o In(<<"object">>, Writing(<<"objects">>)))

Spawn ==
  PxSceneWriteLock(Writing(<<"scene">>))
  \o Reading(<<"tick">>)
  \o In(<<"object">>, Writing(<<"objects">>))
  \o In(<<"player">>, Writing(<<"players">>))

OnConnect(h) ==
  In(<<"handle">>, Writing(<<"allHandles">>))
  \o In(<<"world", h>>, Spawn)
  \o In(<<"connections">>, Writing(<<"connections">>))

OnData(h) == In(<<"input", h>>, Writing(<<"input", h>>))

(***************************************************************************)
(* Connection::disconnect, which recv calls on a message it cannot take.   *)
(* conn is used by the connection's own callbacks only.  (StreamOpen wrote *)
(* ctx->stream before onConnect, when no other thread could reach it.)     *)
(***************************************************************************)
Disconnect(h) == Reading(<<"stream", h>>) \o Writing(<<"stream", h>>)

BugDestroy == Writing(<<"players">>)         \* without the lock

(* released is set first, an atomic.                                       *)
Destroy == In(<<"player">>, Writing(<<"players">>))

OnDisconnect(h) ==
  In(<<"connections">>, Writing(<<"connections">>))
  \o In(<<"handle">>, Writing(<<"allHandles">>))
  \o In(<<"world", h>>, Destroy)

Render == PxSceneReadLock(Reading(<<"scene">>))

-----------------------------------------------------------------------------
(* Threads. *)

Init ==
  /\ code = [t \in Threads |-> <<>>]
  /\ owner = [l \in Mutexes \cup {Scene} |-> Free]
  /\ readers = {} /\ joined = {}

Run(t, script) == code[t] = <<>> /\ code' = [code EXCEPT ![t] = script]

StartTick ==
  (\E net \in BOOLEAN : Run("tick", Tick(net))) /\ UNCHANGED <<owner, readers, joined>>

StartRender == Run("renderer", Render) /\ UNCHANGED <<owner, readers, joined>>

Callback(h) ==
  /\ \/ h \notin joined /\ Run(h, OnConnect(h)) /\ joined' = joined \cup {h}
     \/ h \in joined /\ Run(h, OnData(h)) /\ UNCHANGED joined
     \/ h \in joined /\ Run(h, Disconnect(h)) /\ UNCHANGED joined
     \/ h \in joined /\ Run(h, OnDisconnect(h)) /\ joined' = joined \ {h}
  /\ UNCHANGED <<owner, readers>>

Go(t) == code' = [code EXCEPT ![t] = Tail(code[t])]

Doing(t, op) == code[t] # <<>> /\ Head(code[t]).op = op

What(t) == Head(code[t]).what

Lock(t) ==
  /\ Doing(t, "lock") /\ owner[What(t)] = Free
  /\ owner' = [owner EXCEPT ![What(t)] = t]
  /\ Go(t) /\ UNCHANGED <<readers, joined>>

Drain(t) ==
  /\ Doing(t, "drain") /\ readers = {}
  /\ Go(t) /\ UNCHANGED <<owner, readers, joined>>

Enter(t) ==
  /\ Doing(t, "enter") /\ owner[Scene] = Free
  /\ readers' = readers \cup {t}
  /\ Go(t) /\ UNCHANGED <<owner, joined>>

(* What does not wait.                                                     *)
Proceed(t) ==
  /\ \/ Doing(t, "unlock") /\ owner' = [owner EXCEPT ![What(t)] = Free] /\ UNCHANGED readers
     \/ Doing(t, "leave") /\ readers' = readers \ {t} /\ UNCHANGED owner
     \/ (Doing(t, "read") \/ Doing(t, "write")) /\ UNCHANGED <<owner, readers>>
  /\ Go(t) /\ UNCHANGED joined

(* A loop goes on with any player it has not come to, or ends.             *)
Loop(t) ==
  /\ Doing(t, "each")
  /\ LET kind == What(t)[1]
         left == What(t)[2]
     IN  \/ left = {} /\ Go(t)
         \/ \E h \in left :
              code' = [code EXCEPT ![t] =
                         Body(kind, h) \o Each(kind, left \ {h}) \o Tail(code[t])]
  /\ UNCHANGED <<owner, readers, joined>>

Work(t) == Lock(t) \/ Drain(t) \/ Enter(t) \/ Proceed(t) \/ Loop(t)

Next ==
  \/ StartTick \/ StartRender
  \/ \E h \in Conns : Callback(h)
  \/ \E t \in Threads : Work(t)

Spec == Init /\ [][Next]_vars

(* The timer goes on, the threads run, and no mutex passes over a thread   *)
(* that waits for it for ever.                                             *)
FairSpec ==
  /\ Spec
  /\ WF_vars(StartTick)
  /\ \A t \in Threads : /\ WF_vars(Proceed(t)) /\ WF_vars(Loop(t)) /\ WF_vars(Drain(t))
                        /\ SF_vars(Lock(t)) /\ SF_vars(Enter(t))

-----------------------------------------------------------------------------
(* Properties. *)

(***************************************************************************)
(* Types, and a lock is owned by exactly the thread whose way to the end   *)
(* of its script gives it back before taking it again.                     *)
(***************************************************************************)
GivesBack(t, l) ==
  \E i \in DOMAIN code[t] :
    /\ code[t][i] = [op |-> "unlock", what |-> l]
    /\ \A j \in 1..i - 1 : code[t][j] # [op |-> "lock", what |-> l]

TypeOK ==
  /\ owner \in [Mutexes \cup {Scene} -> Threads \cup {Free}]
  /\ readers \subseteq Threads /\ joined \subseteq Conns
  /\ \A l \in Mutexes \cup {Scene}, t \in Threads : owner[l] = t <=> GivesBack(t, l)

(***************************************************************************)
(* Nobody waits, directly or through others, for itself: gc takes          *)
(* object_mutex and then the scene, step and addObject the scene and then  *)
(* object_mutex, and only their sharing a thread keeps them apart          *)
(* (world.cpp:265, 293, 319, 329).                                         *)
(***************************************************************************)
WaitsFor(t) ==
  CASE Doing(t, "lock") \/ Doing(t, "enter") -> {owner[What(t)]} \ {Free}
    [] Doing(t, "drain") -> readers
    [] OTHER -> {}

NobodyStuck ==
  ~ \E S \in (SUBSET Threads) \ {{}} : \A t \in S : WaitsFor(t) \cap S # {}

(***************************************************************************)
(* What several threads use is used under a lock they share, but for three *)
(* things: spawn appends to objects while updateState walks them, and      *)
(* reads tick while step counts (world.cpp:150, 155, 240, 311), and        *)
(* disconnect() clears ctx->stream while updateState sends on it           *)
(* (quic/server.cpp:297, 303).                                             *)
(***************************************************************************)
Racing(t, u) ==
  /\ t # u /\ Doing(t, "write") /\ (Doing(u, "read") \/ Doing(u, "write"))
  /\ What(t) = What(u)

OnlyKnownRaces ==
  \A t, u \in Threads : Racing(t, u) =>
    \/ What(t) = <<"objects">> /\ t \in Conns /\ u = "tick"
    \/ What(t) = <<"tick">> /\ t = "tick" /\ u \in Conns
    \/ What(t) = <<"stream", t>> /\ t \in Conns /\ u = "tick"

(***************************************************************************)
(* Ticks end and begin again, and who connects is let in, whatever the     *)
(* others do.                                                              *)
(***************************************************************************)
TickGoesOn == []<>(code["tick"] = <<>>)

CallbacksEnd == \A h \in Conns : []<>(code[h] = <<>>)
=============================================================================
