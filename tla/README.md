# A TLA+ model of physx-test

`physx-test` is a small networked physics demo. A server simulates a PhysX
world and sends every client, at a fixed rate, what has changed in it; a client
keeps a copy of the world for a renderer. The transport is one QUIC stream per
connection (MsQuic). The paths below are relative to the repository; the
program is under `src/`.

This directory holds the specifications (`*.tla`), the TLC configurations
(`*.cfg`), the proofs (`*Proofs.tla`) and `PROJECT.json`, which ties each
definition to the lines it models, each run to its properties, each property to
a defect that breaks it, and lists the hazards the properties are for.

    tlc -config GameServerSafety.cfg MCGameServer     model-check one run
    tlapm ReplicationProofs.tla                       check the proofs of a module

## 1. The system

Three kinds of thread matter on the server. The libuv thread runs the timer
callback, `PhysXServer::tick`, again and again. MsQuic's worker threads run the
callbacks of connections and streams; those of one connection are serialised,
those of different connections are not. The debug program draws the scene on a
thread of its own. On a client, MsQuic's thread runs
`BaseClient::onData`, and a render thread reads what that has written.

| Component | State | Operations | Talks to |
|---|---|---|---|
| World (`world/`) | `objects`, `trashQ`, `players`, `free_object_ids`, `used_obj_masks`, `tick`, the static `objCount`; per object `released`, `id`, `actor`; the PhysX scene | `initScene`, `spawn`, `destroy`, `step`, `syncSim`, `updateNet`, `updatePlayers`, `gc` | called by tick and by handles; calls `Player::updateState` |
| Tick and handles (`server/game.*`) | `last_net`, `last_tick`, `allHandles`, `pid` | `tick`, `addHandle`, `removeHandle`, `onConnect`, `onDisconnect` | World, QUIC server |
| Replication, server (`server-tick.cpp`) | `Handle::cache`, `cache_set` | `updateState`, `onData` (input) | reads `objects`, `used_obj_masks`, actors; sends |
| Replication, client (`client-tick.cpp`, `client/base.hpp`) | `data`, `player_map`, `my_pid` | `onData`, `syncObj`, `syncPlayer` | called by framing; calls the renderer's objects |
| Message framing (`quic/message.hpp`) | `header`, `cursor`, `pool`, `temp_header`, `temp_header_offset` | `recv` | fed by RECEIVE events, calls `onData` |
| QUIC server (`quic/server.*`) | `connections`, per connection `conn`, `stream` | listener, connection and stream callbacks, `send`, `broadcast`, `disconnect`, `stop` | MsQuic; handles |
| QUIC client (`quic/client.*`) | `conn`, `stream`, `cv` | callbacks, `connect`, `disconnect`, `send` | MsQuic; BaseClient |
| Delta codec (`util/bitmagic.hpp`) | none | quantise positions and quaternions, with write-back | both ends of replication |
| Reader, Writer (`util/`) | a cursor | typed reads and writes, LZ4 | both ends of replication |
| Programs (`main/`, `misc/repl.hpp`) | | start-up, console, shutdown | everything |
| Renderers (`gl/`, `client/gui.*`, `server/debug/`) | OpenGL objects | drawing, input polling | the world and the client's data, under their locks |

What is hard in each, and what would make it correct:

* **World and handles.** A tick takes and leaves `player_mutex`, `object_mutex`
  and the scene's lock several times; connection callbacks get in between.
  Objects are referred to by raw pointers from `objects`, `players`, `trashQ`,
  every handle's `cache`, and by ids that are recycled. Correct means: nothing
  that is read has been deleted; an id stands for one object at a time, for
  every cache that still knows it; `objCount` counts; what is released is
  deleted in the end.
* **Replication.** A message names no object: its i-th entry is for the i-th
  entry of an array that both ends compact while they go through it, and poses
  travel as rounded differences against what the client is believed to have.
  Correct means: the arrays stay in step, entry for entry and bit for bit, and
  the client shows what the server's world was at some net tick, in order.
* **Framing.** Headers and bodies arrive cut anywhere, in any number of
  callbacks, and a peer may announce more than fits. Correct means: each
  message is reported once, in order, and no buffer is overrun.
* **QUIC server and client.** Handles of streams and connections outlive the
  things they name; failures of single calls are mostly ignored. Correct means:
  nothing closed is used, what is opened is closed, a disconnect ends even if
  its notification was missed.
* **Sending.** A broadcast's request is freed by whoever finishes last, while
  its loop is still running. Correct means: freed once, not before the last user
  is done, and in the end.
* **Codec.** Four ranges of seven bits for a difference, three of four
  components for a rotation. Correct means that both ends compute the same pose,
  that it is near the real one and catches up with it.
* **Tick timer.** A one-shot timer that starts itself again, in milliseconds,
  and a network clock that advances by whole intervals. Correct means: ticks
  are not too close, net ticks keep coming, lost time is made up.
* **Player motion and input.** Keys become flags, flags become motion, the
  jump's speed counts in real time and gravity in ticks. Correct means: a
  player does what the keys say, comes down again, and no higher than it may.
* **Programs.** The loop ends, the world and the server are deleted while
  connections are still open. Correct means: no callback meets what is deleted,
  and the program ends.
* **Renderers.** Frames are drawn between messages, and take locks of their
  own. Correct means: nothing is drawn ahead of what was received or jumps
  back, and nobody waits for ever.

The whole list, with lines, is under `hazards` in `PROJECT.json`.

## 2. The modules

    WorldMirror    <--refines-- Replication        <-- MCReplication,     ReplicationProofs
    World          <--EXTENDS-- GameServer         <-- MCGameServer,      GameServerProofs, HandleProofs
    MessageChannel <--refines-- MessageFraming     <-- MCMessageFraming,  MessageFramingProofs
    Bitmagic       <--EXTENDS-- DeltaTracking      <-- MCPoses,           PosesProofs
                   RotationCodec, ClientView       <-- MCPoses,           PosesProofs
                   TickTimer, PlayerMotion         <-- MCTicks,           TicksProofs
                   ClientInput, SceneLocks         <-- MCTicks,           TicksProofs
                   SendRequest, PlayerRoster       <-- MCSending,         SendingProofs
                   ServerConnection                <-- MCConnections,     ConnectionsProofs
                   ClientConnection, Shutdown      <-- MCConnections,     ConnectionsProofs

The last four MC modules each put several specifications side by side. These
share no state, so their product would only multiply what is already known: a
variable `part`, chosen in `PartsInit`, says which of them a behaviour runs, and
the others stay in their initial states. Fairness is each component's own
`FairSpec`, written out with `part` as a guard. The properties of an MC module
are conjunctions of the components' named properties.

### World, GameServer

`World` has the world's variables and one operator for each critical section of
`world.cpp`; `GameServer` puts these on the threads that run them and adds the
tick, the handles, the connections, and `updateState` as far as pointers and
ids go.

| Code | Model |
|---|---|
| a `WorldObject*` | the heap address it lives at (`Obj`, or `Handle` for a Player); `heap` is what is allocated, so addresses are reused |
| `objects`, `trashQ`, `players`, `free_object_ids`, `used_obj_masks` | variables of the same names, as sets: order plays no part in what is stated |
| `WorldObject::released`, `id`, `actor` | `released`, `id`, `actors` |
| the order of `tick` | `phase`: `UpdatePlayers`, `StepAdd`, `StepRemoveDead`, `Simulate`, then `SyncSim` or `LockPlayers`, `UpdateNet`, `SyncAndCollect` |
| `now > last_net + netIntervalNano` | a choice, of which at most `MaxSkips` in a row say no |
| which bodies sleep | any set of dynamic bodies |
| a connection's callbacks | `stage[h]`: `NewConnection`, `AddHandle`, `OnConnectActor`, `OnConnectObject`, `OnConnectPlayer`, `PushConnection`; `RemoveConnection`, `RemoveHandle`, `OnDisconnectRelease`, `OnDisconnectRemove`, `OnDisconnectUnlock` |
| use of memory that is gone | the process stops: `crashed` |

Abstractions: the free ids are a set (the code pops and pushes at the back, any
id is allowed here); `compare_exchange_weak` in `release` fails only if the
flag is set, as on the x64 targets of `CMakeSettings.json` (elsewhere it may
fail without cause, and `destroy` does not try again); a controller that gc has
taken the actor from may or may not bring the process down when it is moved.
`gc`'s check of `isReleasable()` is there (`Releasable`), but always true: it is
false of parts of other bodies, and the code makes none.

### Replication, WorldMirror

One connection. `UpdateState` is `Handle::updateState` at one net tick; `OnData`
is `BaseClient::onData` for one message; between them lies `wire`.

| Code | Model |
|---|---|
| the vectors `objects`, `cache`, `data` | sequences in the vectors' order; compaction by `write_id` is `Pick`, which keeps the order of what stays |
| an entry | `[obj, slept, pos]`; `obj` is the object, on the client the shape that came with it |
| an entry's bytes in a message | a `Token`: operation, sleep bit, and a pose, a difference or nothing |
| `vec3_24_delta`, `vec3_48`, `quat_sm3` | constants `Quant` and `Grid`, any functions |
| reading bytes for what they are not, a failed check, `exit(1)` | `client = "exited"` |
| `PROTO_VER` | `sameVersion`, chosen at the start |
| `isSleeping()`, `getGlobalPose()` | `asleep` and `pos`, which change in `fetchResults` only, since PhysX keeps what is read during a simulation apart from what it computes |
| MsQuic's stream | `wire`; `stream` says whether it takes messages; `Lossy` allows `StreamSend` to fail nevertheless |

Left out: the players' part of the message (players have id 0 and are in no
cache; `PlayerRoster` has it) and the shapes. That an object may stand for its
id here is what `GameServer` shows (`IdsAgree`). The field `after` of a message
is not sent; properties and the refinement look at it, no action does.

`WorldMirror` says what this is for: pictures of the world are published one
per net tick, each of all the objects there are, and the client shows them one
after the other. `Replication` maps a message to the picture it should lead to
and the client's array to the picture shown.

### MessageFraming, MessageChannel

`MessageFraming` has the bytes of the stream, each named by its message and its
place there, and the state of `recv`; each call of `recv`, recursive ones
included, is a step. A header assembled from bytes that are not a header may
hold anything. A message that is too long or does not decompress makes `recv`
call `disconnect()`, after which the stream ends sooner or later
(`Disconnected`); until then `recv` goes on with what it is given, as the code
does. `MessageChannel` is the promise: `onData` is called once per message in
order, until one was too long.

### Bitmagic, DeltaTracking, RotationCodec

`Bitmagic` is `bitmagic.hpp` for positions: lengths are integers in units of
1/42165270, a common multiple of every scale, so that `roundf` is exact and only
the rounding of single-precision numbers is left out. `DeltaTracking` is one
awake object: `Move` (the simulation, any number of moves between two messages,
`MaxMoves` in all) and `Send` (`server-tick.cpp:111-119` with
`vec3_24_delta_encode`, and the client's decoding). `cache` is the server's
`prevPos` with what the encoder writes back, `shown` the client's `obj.pos`; the
auxiliary `backlog` is how much of the way made messages have had no room for,
since none brings more than `Reach`, 4.1 units. The object is added with
`vec3_48`. `RotationCodec` is `quat_sm3_encode` and `quat_sm3_decode` on the
integer quaternions whose squares sum to `Norm * Norm`; the component that is
left out is known by its square, which needs no root.

### ClientView

`client/gui.*` and the pose fields of `client/base.hpp`: `Stamp` sets
`last_packet` when a message arrives, `Decode` is its effect under `m`
(`OnUpdate`, `OnAdd`), `Tick` the clock, `Render` a frame's steps: the stamp and
the time since (`ReadStamp`, `ReadTime`) before `m` is taken (`gui.cpp:31`),
then `DrawObjects`, then `DrawPlayers`. A pose is a number on the way of a thing
that moves forward.

### TickTimer, PlayerMotion, ClientInput, SceneLocks

`TickTimer`: `tick_timer_cb` and the head of `tick`, in time (`InTime`) or after
the loop was held up (`Stalled`). Its variables are distances: to the last tick
(`gap`), to `last_net` (`lag`), the delay (`wait`), the plain ticks since a net
tick (`plain`). libuv's part, whole milliseconds counted from the start of the
loop's turn, is external.

`PlayerMotion`: one player through `spawn` and `updatePlayers`, with `vy`,
`heading`, `ground`, `air` (ticks since `lastGroundTick`); the floor under a
move is any of `Floors`; inputs may change at any time. Heights are integers.

`ClientInput`: key callbacks of GLUT (`gl/base.cpp`, `gui.cpp`) set and clear
flags and `downKeys`; `PostRender` and key presses send the input, `OnData`
replaces it at the server. Escape (`Esc`) goes down like any key, sets no flag,
and changes the mode when it comes up. `pressed` is what the player's fingers
do; `loose` and `shifted` remember the uses the code has no answer to (arrows, a
change of mode or of shift with a key down).

`SceneLocks`: each thread runs a script of locks and accesses in the order of
the code (`UpdatePlayers`, `StepAdd`, `StepRemove`, `Simulate`, `UpdateNet`,
`SyncSim`, `Gc`, `OnConnect`, `OnData`, `Disconnect`, `OnDisconnect`, `Render`),
built by operators for the scoped locks. A loop over the players is one step of
a script (`Each`); `Loop` takes a player out of it, any that is left, and puts
what is done for it in front (`UpdatePlayer`, `UpdateState`, which sends and so
reads `ctx->stream`). PhysX's lock, which waits for readers after it has shut
out writers, is `Scene` with the steps `drain` and `enter`.

### SendRequest, PlayerRoster

`SendRequest`: `send`, `broadcast` with its loop over `connections`, and the
SEND_COMPLETE callback split where the code is: load of the reference count,
compare-exchange, delete. Sends may fail, streams may go, MsQuic may return a
request before the loop has come to the next connection.

`PlayerRoster`: `addHandle`, `spawn`, `removeHandle`, `destroy`, the list of
players `updateState` writes, the receiver first, and the client's `my_pid` and
`player_map`. A player's state stands for whose it is, so that mixed-up players
show.

### ServerConnection, ClientConnection, Shutdown

`ServerConnection`: for each connection what MsQuic has (`quic`, `strm`), where
its callback is (`at`), the fields `conn` and `stream` of its `Connection`
(`ptr`), its Handle's memory, and the lists it is in; the tick's `updateNet`
reads `stream` (`ReadStream`) and then calls `StreamSend`. `World::destroy` is
three steps, `Release`, `Destroy` and `Unlock`, since it releases the player
before it waits for `player_mutex`, and `onDisconnect` unlocks the Handle's own
`world_mutex` after both: in that gap gc may delete the Handle, the one
exception in `HandleAlive`. The order of events is MsQuic's documented one.

`ClientConnection`: the main thread of a client program (`Connect`, `Frame`,
`Destroy`, `Check`, `ShutDown`, `Wake`, `Free`, `Cleanup`), MsQuic's thread
with the callbacks, and the network. `misuse` collects what is used after its
end.

`Shutdown`: the two server programs from the loop to `exit`: `Interrupt`,
`DeleteWorld`, `CloseListener`, `DeleteServer`, `Cleanup`, `Return`; with
connections that come, live and end meanwhile, and gc's deletion of handles. The
last event of a connection is two steps, `Complete` up to the release of the
player and `Destroy` from there on, and gc may come between. `misuse` names the
callbacks that used freed memory.

## 3. What is checked

Every run is exhaustive over its instance.

| Run | Instance | Shows |
|---|---|---|
| `server_safety` | 2 connections, 3 addresses, 3 ids, cubes in batches of 2, one tick in two a net tick | `PointersValid`: caches, players and `connections` lead to nothing deleted, the scene holds what it should; `IdsAgree`: an id is not recycled too early, never shared, and `cache` and `cache_set` agree; `NetViewComplete`: a net tick leaves every client with all objects; `CountExact`: `objCount`; `PidsDistinct`: but for a departing player's |
| `server_liveness` | 1 connection, 3 addresses, 3 ids, `IdsNeeded` for its batch | no id ever lacks (`IdsSuffice`); what slept or left is deleted in the end (`Reclaimed`) |
| `server_ontick` | 1 connection | **violation** of `OnTickAccess`, see below |
| `framing` | 2 messages of five kinds: empty, of one byte, compressed and of several pieces, one that does not decompress, one too long; a header of 3 bytes | buffers are never overrun and cuts do not matter (`RecvCorrect`), `MessageChannel` is implemented; a message arrives unless `recv` disconnects because of it or one before it (`MessagesArrive`) |
| `replication` | 2 cubes in a batch of 2, the coarsest rounding, 3 messages under way, a client that joins and leaves | `ClientStays`: the client never misreads; `NeverWakes`: nothing wakes up on the wire; `EntriesAgree`: nothing is shown twice, an up-to-date client has its handle's cache; `WorldMirror` is implemented; `Converges`: differences between world and client go away |
| `replication_loss` | as above, with a `StreamSend` that may fail | **violation** of `StrictCheck`, see below |
| `poses` | positions around every boundary of both codecs; every rotation with `Norm` 11; an object and a player, 3 messages | `PositionKept`: both ends have the same position; `NeverWorse`: no message makes an error larger; `LagBounded`: the error is at most 3.5 units and what the clamp has kept back of a fast object's way; `RotationRight`; `NeverAhead`, `SmoothUnlessMixed`: the screen between messages; `PosesSettle` |
| `ticks` | intervals 8 and 16 with 2 units to a millisecond, ticks of up to 9; jumps of four rising ticks; a letter, the space bar and an arrow; one connection | `TicksBounded`, `KeepsTime`: net ticks keep coming and time is made up; `MotionRight`, `KeysRight`, `PlayersServed`; `LocksRight`, `LocksGo`: nobody waits for ever, no races but the three known |
| `sending` | 2 requests, 3 connections; 2 clients, 5 joins, 2 messages under way | `RequestsCounted`: the count is exact and nobody is left with a freed request; `LeaksOnlyOnFailure`, `Freed`; `RosterRight`, `OnceRight`, `AllShown`: who is shown to whom |
| `connections` | 2 connections; 1 client; both server programs | `ConnectionRight`: no message after a lost one, handles outlive their callbacks; `ClosedInTheEnd`: what goes down is closed and freed; `ProgramsSafe`: no callback of a running server uses freed memory but in `destroy`'s gap; `ProgramsEnd` |
| `connection_stream` | 2 connections | **violation** of `ClosedStreamUnused`, see below |
| `shutdown_clean_up` | 2 connections, the headless program | **violation** of `CleanedUpSafely`, see below |

Each property has at least one mutant in `PROJECT.json`: a change of one
definition, of the kind a slip in the code would be, with which TLC finds the
property violated. The definitions named `Bug...` are these and nothing else;
a conjunction has mutants for several of its parts.

**Why the bounds are enough.** In `GameServer` three addresses hold the plane,
a cube in the world and one in the trash, so that an address and an id are
recycled while a cache still knows their last owner; two connections are needed
for shared pids and for a player that joins between two net ticks; a batch of
two against `TotalObj = 1` reaches the overshoot of `objCount`. The liveness run
has one connection and no skipped net tick; for `IdsSuffice` the theorem
`IdsNeverRunOut` covers all other values. In `Replication` two cubes around a
removed entry are what it takes to shift an array; `CoarseGrid` puts an added
object elsewhere than it is and `Saturating` lets no more than 2 of a difference
through, so that a pose lags for more than one message though the bodies have
one pose. In `MessageFraming` a header of 3 bytes is split twice, and so is a
body. In `DeltaTracking` the 15 distances lie at, just before and just after
each boundary between ranges and at and beyond the clamp (7.5 and 14 units: a
launched cube makes about 11 in the five or six ticks of 1/60 s between two
messages, `world.cpp:281-282,310`), and the places at both ends of 16 bits; two
moves, with any number of messages before, between and after them, reach each
range from a cache that already carries an error. In `ClientInput` eight key
events (`MaxEvents`) press and release a letter around a change of mode and of
shift. In `ClientView` the third message is the one that can come between two
halves of a frame drawn from the first two. In `TickTimer` a tick can take
longer than its interval and a stall can cost more than two net intervals. In
`SceneLocks` tick, renderer and one connection can each wait for another; two
connections meet in no lock that either holds together with another, and
`LocksAreRight` covers any number of them. In `SendRequest` the
third connection lets the loop be ahead of one completion and behind another.
In `PlayerRoster` pids are reused when a third client joins. In
`ServerConnection` a second connection is served by the same tick while the
first one ends. Cubes are created once each in `Replication` (`NewCubes`), which
bounds the run; reuse is `GameServer`'s subject. Symmetry is used only in
`server_safety`, which has no liveness property.

**Fairness.**
* `GameServer`: the timer callback starts its timer again before it returns
  (`game.cpp:29,33`), so the tick goes on; a callback of MsQuic that has begun
  runs to its end. Nobody has to connect or disconnect. `MaxSkips` stands for
  the net interval: after a bounded number of ticks there is a net tick, which
  `TickTimer` shows (`TicksBounded`).
* `Replication`: strong fairness for a tick that is a net tick, for the same
  reason; MsQuic's delivery is weakly fair.
* `MessageFraming`: `recv` is sequential code and MsQuic delivers what the
  stream holds.
* `DeltaTracking`: net ticks go on. `ClientView`: frames, the clock and the
  decoding of a message that has come go on; no message has to come.
* `TickTimer`: the loop calls back in time again and again; stalls are not
  fair, and `CatchesUp` assumes that they end. `PlayerMotion`: ticks go on, and
  a connection that spawns gets to be listed. `ClientInput`: frames and delivery
  go on, fingers need not move.
* `SceneLocks`: running threads go on, a lock that is free again and again is
  taken (a mutex, or PhysX's lock, does not pass over one thread for ever);
  no callback has to come.
* `SendRequest`: the loop and a completion that has begun go on, and MsQuic
  returns each request it accepted, however many others it returns meanwhile
  (strong fairness for each request). `PlayerRoster`: ticks, callbacks that have
  begun, and delivery.
* `ServerConnection`: the tick goes on; a callback waits for `player_mutex` at
  most while `updateNet` holds it, so strong fairness. Nothing makes a client
  leave, and the idle timeout (`server.cpp:214`) ends silent connections only, so
  `Lost` is not fair: `ClosedInTheEnd` speaks of connections that are down or
  that the server disconnects.
* `ClientConnection`: the main thread and MsQuic's go on; the network owes
  nothing. `Shutdown`: the main thread and callbacks that are due (`Complete`,
  `Destroy`) go on; `ProgramsEnd` assumes of the clients that they leave, since
  nothing makes them.

**Findings.**
* `server_ontick`: `World::destroy` sets `released` before it takes
  `player_mutex` and leaves `players`, so `gc` may queue and delete a player
  that `updatePlayers` and `updateNet` still walk, while `world.cpp:320-321`
  promises that what is freed stays accessible for a tick.
* `replication_loss`: the cache is advanced before the message is sent and the
  status of `StreamSend` leads to nothing but the request's deletion; a lost
  message that neither added nor removed anything passes the client's "Strict
  integrity check" (`client-tick.cpp:180`), which compares counts, and its
  differences are missing from then on.
* `connection_stream`: the stream's SHUTDOWN_COMPLETE closes the stream, "now
  safely cleaned up" (`server.cpp:63-64`), but `ctx->stream` keeps naming it
  until the player leaves, and `updateState` may call `StreamSend` on it.
* `shutdown_clean_up`: the programs delete world and server before they wait for
  the connections, whose SHUTDOWN_COMPLETE (`server.cpp:126-127`) then uses
  them.

Met while modelling, and allowed for in the models without a run of their own:
the client keeps the handles of a closed stream (`client.cpp:51`) and of a
closed connection (`client.cpp:88,223`) and may use them; the render thread
reads `last_packet` outside the mutex (`gui.cpp:31`) whose use `gui.hpp:85`
takes for granted, which `SmoothUnlessMixed` names as the only cause of things
jumping back; `disconnect` of the client may leave while a callback is still due
(`DeletedLast`); `spawn` appends to `objects` and reads `tick` without the locks
that the tick's readers hold, and `Connection::disconnect` clears `ctx->stream`
(`server.cpp:297`) while `updateState` may be sending on it (`server.cpp:303`),
which are the three races of `OnlyKnownRaces`; `World::destroy` releases the
player before it leaves `players` and before `onDisconnect` unlocks the Handle's
`world_mutex` (`world.cpp:247-250`, `game.cpp:107-112`), so that gc may delete
the Handle under a callback of a running server, the exception in
`SafeWhileRunning` and `HandleAlive`.

`NoHoles` in `ConnectionRight` (no message reaches a client after one that was
lost) assumes that `StreamSend` on a started stream never fails in passing, for
want of memory say: in `ServerConnection` it fails when the stream has not been
started, or has ended, and then for good. `replication_loss` explores the
opposite.

Deadlock is checked in every run but `sending`, `connections` and
`connection_stream`, where everybody may have come and gone. `Halted` (after a
crash) and `Idle` (nothing left to send) are where a model may rest.

## 4. What is proved

TLAPS proves the following for all values of the constants that satisfy the
named assumptions, each declared in the module of its constants and evaluated by
TLC in the runs: `WorldAssumption`, `ServerAssumption`, `FramingAssumption`,
`ReplicationAssumption`, `MoveAssumption`, `CountAssumption`, `TimerAssumption`,
`SendAssumption`, `ConnectionAssumption`. The components that an MC module takes
by INSTANCE state theirs as a definition, which the MC module assumes:
`RotationAssumption`, `ViewAssumption`, `MotionAssumption`, `KeysAssumption`,
`LocksAssumption`, `RosterAssumption`, `ProgramsAssumption`. Their theorems are
about `PartsSpec`.

* `GameServerProofs`: `TypeOK`, `NetViewComplete`, and `IdsAgree` from its three
  parts; also `CachedInMemory`. None is inductive alone. `IInv` adds that
  allocated objects are either in `objects` or in `trashQ` and that listed ones
  have their actors (`HeapInv`), at which stages a player is listed, and that
  its cache is empty before (`StageInv`), and that what a listed player has
  cached is allocated and, when `gc` is about to run, listed (`CacheInv`). The
  argument is the code's: an object stays in `trashQ` from one `gc` to the next,
  each `gc` follows an `updateNet`, and that has dropped it from every cache.
  Second part: `CountExact` and `IdsSuffice`, from what is known of the plane
  (`PlaneInv`) and of released cubes (`FlagInv`), a bound on what is added
  between net ticks (`AddsInv`: at most `MaxSkips + 1` batches per interval) and
  on the dead that wait for a gc (`BacklogInv`).
* `HandleProofs`: `PointersValid` (with `SceneMatches`, `ConnectedUsable`,
  `ConnectionsAlive`) and `PidsDistinct`. `HInv`, inductive given `IInv`, says
  at which stage of its connection a Handle is allocated, listed and in the
  trash (`MemoryInv`, `TrashInv`), has an actor (`SpawnedInv`), is in
  `connections` (`ConnectionInv`) and holds a pid (`PidInv`).
* `MessageFramingProofs`: `RecvCorrect`, that is types, every `memcpy` within
  its destination whatever the peer sends (`RecvInBounds`), and that cuts do
  not matter (`CutsHarmless`); and `ImplementsChannel`, the refinement of
  `MessageChannel`. The invariant `InStream` says which byte of which message
  comes next (`Reading`) and what has been reported (`Handed`), as a function of
  what has been taken from the stream.
* `ReplicationProofs`. `NothingWakesUp`: no object wakes up on the wire, lost
  messages or not; the invariant is `SleepersGo` (an entry that slept is of a
  released object, gone from the world by the next message). `NobodyExits`,
  `EntriesStayInAgreement` and `ImplementsMirror` (the refinement of
  `WorldMirror`) assume `~ Lossy`: the invariant `Joined` says that the messages
  under way form a chain, each taking the array the one before left
  (`Before(n)`) to the one it was written for, and the last one to the server's
  cache. `MessageUnderstood` adds a link: a message written from a cache is
  understood by whoever has that cache and leads to the next one. The rounding
  functions are arbitrary, so none of this rests on the codec. The lemmas on
  `Pick` rest on `PlacesOrdered`, that a set of places can be put in order,
  proved from the well-foundedness of `<` by a least counterexample.
* `PosesProofs`, positions: `PositionKept`, `NeverWorse` and `LagBounded`, for
  every place and every move, from arithmetic on the four ranges (`Coded`): an
  encoded difference is at most half a step of its range off, or beyond the
  clamp and 4.1 units smaller after the message (`Reach`). `LagBounded` is
  inductive as it stands, with no assumption on how fast the object is: the
  auxiliary `backlog` counts what the clamp has kept back. `PositionPart`
  carries these from `DeltaTracking`'s `Spec` to `PartsSpec`.
* `PosesProofs`, view: `NeverAhead` and `SmoothUnlessMixed`, for any window and
  any number of messages and things. `VInv` says what the stamps of messages
  and frames say of each other (`Stamps`), that a thing is drawn between its
  last two poses (`Behind`), and, for each lerp that a frame may still come to
  use, that nothing is drawn beyond it yet (`InTime`). A lerp from an older
  message than the pose is what `mixed` marks, and where `InTime` ends.
* `PosesProofs`, rotations: `RotationRight`, for every `Norm`. The largest part
  is chosen the same for both ends, its sign is what `q` and `-q` differ in, and
  the rest that stands for the part left out is off by no more than three
  roundings allow (`RoundingError` for one part, `Budget` for three, all in
  integers). `QInv` says that what was last sent is the code of some rotation.
* `TicksProofs`, timer: `TicksBounded` (each plain tick costs at least half an
  interval less a millisecond, and they fit between two net ticks) and
  `TicksApart`.
* `TicksProofs`, motion: `MotionRight` and `Ballistic`, for any lengths of ticks
  and any floors. `MInv` adds `Aloft`: in the air, a player is above where it
  left the ground by no more than the ticks since can have carried it.
* `TicksProofs`, input: `KeysRight`, for any keys. `KInv` adds that a flag that
  is still set while roaming is one that coming back will excuse (`Excused`),
  and which codes of a key are in `downKeys` (`Camera`).
* `TicksProofs`, locks: `LocksRight`, for any number of connections. `LInv` says
  that what a thread holds is what the rest of its script goes on from. `Runs(t,
  s, K)` gives a script the sets it holds at each of its steps, from `K` to
  none, with a `Link` for each step: what is unlocked is held, what is locked is
  not, and what may be waited for while something is held. The scripts have such
  sequences by the lemmas on `Part`, one for each operator that scripts are
  built with. That nobody holds what it waits for, or touches what it should
  hold, is read off the links (`GivenBack`); that no set of threads waits for
  itself (`NobodyStuck`) follows from which waits they allow: callbacks wait
  while they hold at most their own `world_mutex`, the renderer while it holds
  nothing, and the tick, inside the scene, for nothing but `object_mutex`, which
  no other thread holds while it waits. `LInv` speaks of all such sequences,
  which TLC cannot enumerate; TLC checks `LocksRight` itself.
* `SendingProofs`, requests: `RequestsCounted` and `LeaksOnlyOnFailure`. `SInv`
  adds where each connection's callback may be with a request; the count is the
  cardinality of those who still know it (`Knowers`).
* `SendingProofs`, players: `RosterRight` and `OnceRight`, for any number of
  clients, joins and messages under way. In `RInv`, who is here has its pid for
  itself and there are never more pids than players at a time (`PidsGiven`),
  every entry under way has the pid that belongs to its state (`OnTheWay`,
  `OnShow`), of two listed players with one pid the earlier is on its way out
  (`GhostsFirst`), and a message that tells of a player is followed by none that
  does not (`AllSteady`), which is what `OnceRight` needs.
* `ConnectionsProofs`, server: `ConnectionRight`, that is types, `NoHoles` and
  `HandleAlive`. In `CInv` the place of a connection's callback (`at`) says what
  MsQuic still has of the connection and its stream (`StreamStage`,
  `GoneStage`), when it may be a player or in `connections` (`PlayerStage`,
  `ListStage`), that only `onDisconnect` lets go of a Handle (`HandleStage`),
  and that a message is lost only if the stream has ended for good
  (`SendStage`): the argument is the order of the steps of CONNECTED and of
  SHUTDOWN_COMPLETE.
* `ConnectionsProofs`, programs: `ProgramsSafe`. `ClientInv` says what MsQuic
  has of the client's connection while its callbacks are where they are
  (`NeverStarted`, `WorkerStage`) and how a disconnect can have ended
  (`DisconnectStage`); `EndInv` says what of the server is still in memory when
  the main thread is where it is (`MainStage`), that gc deletes only handles
  whose player has been released (`HandlesKept`), and that the GUI program does
  not get past the thread it deletes (`HeadlessStage`).

Every safety invariant of a passing run is a theorem, and so is every action
property. Only model-checked are the liveness properties, since fairness and
ENABLED are out of the prover's reach: `Reclaimed`, `MessagesArrive`,
`Converges`, `PosesSettle`, `CatchesUp` in `KeepsTime`, `Lands` and
`ServerAgrees` in `PlayersServed`, `LocksGo`, `Freed`, `AllShown`,
`ClosedInTheEnd`, `ProgramsEnd`. So are the violations, which are behaviours of
an instance.

## 5. What is not modelled

* `Reader` and `Writer`: cursors in one buffer, sequential; that a read past the
  end fails a message is part of `Replication`'s checks.
* The order in which a compiler evaluates the arguments of one call, on which
  the bytes of a new object's position depend (`server-tick.cpp:151`); both ends
  are taken to agree.
* Single-precision rounding in the codec and in the motion.
* OpenGL: drawing, matrices, text, shaders. The console's commands and the
  parsing of addresses.
* PhysX and MsQuic themselves, but for what the code sees of them.
* Reconnection: `BaseClient` keeps its data when a connection ends, but no
  program connects twice, so no state of theirs gets there.

## 6. Plan

The order followed was that of dependence: memory and identity of objects
(`World`, `GameServer`), the messages (`MessageFraming`, `Replication`), then
sending and connections, the codec, time, motion and locks, and the programs'
ends. The safety properties have been proved in the same order. What is left:

1. `Replication` with `Bitmagic`'s functions for `Quant` and `Grid`, as an
   instance in three dimensions, so that `LagBounded` holds of the whole array.
2. The refinement of `GameServer`'s handles by `ServerConnection`'s, which both
   model `onConnect` and `onDisconnect` from their own side.
