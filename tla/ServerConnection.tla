-------------------------- MODULE ServerConnection --------------------------
(***************************************************************************)
(* A server's connections with their streams (network/quic/server.cpp):    *)
(* MsQuic's callbacks, serialised per connection, against the tick thread, *)
(* which calls StreamSend with the pointer it finds in the Connection.     *)
(* MsQuic itself, external, is what its states `quic' and `strm' say.      *)
(***************************************************************************)
EXTENDS FiniteSets

CONSTANTS
  Conn,   \* connections that come, each with the Handle allocated for it
  None    \* no connection

ASSUME ConnectionAssumption == None \notin Conn

VARIABLES
  quic,         \* quic[c]: the HQUIC of connection c
  strm,         \* strm[c]: the HQUIC of its stream
  handle,       \* handle[c]: the Connection object, a Handle
  ptr,          \* ptr[c]: which of ctx->conn and ctx->stream are not null
  at,           \* at[c]: where MsQuic's callback for c is
  connections,  \* QuicServer::connections
  players,      \* World::players
  todo,         \* the players updateNet has not come to; it holds player_mutex
  call,         \* updateState's call of StreamSend
  received,     \* received[c]: what c gets of the messages written for it
  crashed       \* the process died of undefined behaviour

vars == <<quic, strm, handle, ptr, at, connections, players, todo, call,
          received, crashed>>

NoCall == [on |-> None, stream |-> FALSE]

TypeOK ==
  /\ quic \in [Conn -> {"none", "new", "connected", "down", "gone", "refused"}]
  /\ strm \in [Conn -> {"none", "open", "started", "ending", "closed"}]
  /\ handle \in [Conn -> {"none", "allocated", "released", "queued", "deleted"}]
  /\ ptr \in [Conn -> SUBSET {"conn", "stream"}]
  /\ at \in [Conn -> {"idle", "open", "start", "spawn", "list", "shutStream",
                      "shutConn", "nullify", "remove", "release", "destroy",
                      "unlock", "close"}]
  /\ connections \subseteq Conn /\ players \subseteq Conn
  /\ todo \subseteq players
  /\ call \in [on : Conn \cup {None}, stream : BOOLEAN]
  /\ received \in [Conn -> {"all", "prefix", "holes"}]
  /\ crashed \in BOOLEAN

Init ==
  /\ quic = [c \in Conn |-> "none"]
  /\ strm = [c \in Conn |-> "none"]
  /\ handle = [c \in Conn |-> "none"]
  /\ ptr = [c \in Conn |-> {}]
  /\ at = [c \in Conn |-> "idle"]
  /\ connections = {} /\ players = {} /\ todo = {}
  /\ call = NoCall
  /\ received = [c \in Conn |-> "all"]
  /\ crashed = FALSE

Goto(c, place) == at' = [at EXCEPT ![c] = place]

(* What follows if freed memory is used.                                   *)
MayCrash(freed) == crashed' = FALSE \/ (freed /\ crashed' = TRUE)

-----------------------------------------------------------------------------
(* ServerListenerCallback.  A Handle whose connection cannot be configured *)
(* is refused by MsQuic and stays allocated.                               *)
Accept(c) ==
  /\ quic[c] = "none"
  /\ handle' = [handle EXCEPT ![c] = "allocated"]
  /\ ptr' = [ptr EXCEPT ![c] = {"conn"}]
  /\ \E s \in {"new", "refused"} : quic' = [quic EXCEPT ![c] = s]
  /\ UNCHANGED <<strm, at, connections, players, todo, call, received, crashed>>

(* CONNECTED, and the order of its steps. *)
BugOrder ==                            \* onConnect first
  [begin |-> "spawn", spawn |-> "open", open |-> "start", start |-> "list"]

Order ==
  [begin |-> "open", open |-> "start", start |-> "spawn", spawn |-> "list"]

Connected(c) ==
  /\ at[c] = "idle" /\ quic[c] = "new"
  /\ quic' = [quic EXCEPT ![c] = "connected"]
  /\ Goto(c, Order.begin)
  /\ UNCHANGED <<strm, handle, ptr, connections, players, todo, call, received,
                 crashed>>

(* StreamOpen ... *)
Open(c) ==
  /\ at[c] = "open"
  /\ \/ /\ strm' = [strm EXCEPT ![c] = "open"]
        /\ ptr' = [ptr EXCEPT ![c] = @ \cup {"stream"}]
        /\ Goto(c, Order.open)
     \/ Goto(c, "idle") /\ UNCHANGED <<strm, ptr>>
  /\ UNCHANGED <<quic, handle, connections, players, todo, call, received,
                 crashed>>

(* ... StreamStart, which if it fails leaves ctx->stream as it is ...      *)
Start(c) ==
  /\ at[c] = "start"
  /\ \/ /\ strm' = [strm EXCEPT ![c] = IF quic[c] = "down" THEN "ending"
                                                           ELSE "started"]
        /\ Goto(c, Order.start)
     \/ strm' = [strm EXCEPT ![c] = "closed"] /\ Goto(c, "idle")
  /\ UNCHANGED <<quic, handle, ptr, connections, players, todo, call, received,
                 crashed>>

(* ... onConnect, which waits for player_mutex ...                         *)
Spawn(c) ==
  /\ at[c] = "spawn" /\ todo = {}
  /\ players' = players \cup {c}
  /\ Goto(c, Order.spawn)
  /\ UNCHANGED <<quic, strm, handle, ptr, connections, todo, call, received,
                 crashed>>

(* ... and the list. *)
List(c) ==
  /\ at[c] = "list"
  /\ connections' = connections \cup {c}
  /\ Goto(c, "idle")
  /\ UNCHANGED <<quic, strm, handle, ptr, players, todo, call, received, crashed>>

Running(c) == strm[c] \in {"started", "ending"}

Ending(c) == IF strm[c] = "started" THEN [strm EXCEPT ![c] = "ending"] ELSE strm

(* RECEIVE of bytes recv rejects: onOverflow or onError call disconnect.   *)
Receive(c) ==
  /\ at[c] = "idle" /\ strm[c] = "started"
  /\ ptr[c] # {} /\ Goto(c, "shutStream")
  /\ UNCHANGED <<quic, strm, handle, ptr, connections, players, todo, call,
                 received, crashed>>

ShutStream(c) ==
  /\ at[c] = "shutStream"
  /\ strm' = Ending(c) /\ Goto(c, "shutConn")
  /\ UNCHANGED <<quic, handle, ptr, connections, players, todo, call, received,
                 crashed>>

ShutConn(c) ==
  /\ at[c] = "shutConn"
  /\ quic' = [quic EXCEPT ![c] = "down"]
  /\ Goto(c, "nullify")
  /\ UNCHANGED <<strm, handle, ptr, connections, players, todo, call, received,
                 crashed>>

Nullify(c) ==
  /\ at[c] = "nullify"
  /\ ptr' = [ptr EXCEPT ![c] = {}] /\ Goto(c, "idle")
  /\ UNCHANGED <<quic, strm, handle, connections, players, todo, call, received,
                 crashed>>

(* PEER_SEND_ABORTED. *)
Abort(c) ==
  /\ at[c] = "idle" /\ strm[c] = "started"
  /\ strm' = Ending(c)
  /\ UNCHANGED <<quic, handle, ptr, at, connections, players, todo, call,
                 received, crashed>>

(* The stream's SHUTDOWN_COMPLETE. *)
BugClosed == "ending"                  \* without StreamClose

Closed == "closed"

CloseStream(c) ==
  /\ at[c] = "idle" /\ strm[c] = "ending"
  /\ strm' = [strm EXCEPT ![c] = Closed]
  /\ UNCHANGED <<quic, handle, ptr, at, connections, players, todo, call,
                 received, crashed>>

(* The connection's SHUTDOWN_COMPLETE: remove, onDisconnect,               *)
(* ConnectionClose.                                                        *)
BugEnding ==                           \* onDisconnect first
  [complete |-> "release", remove |-> "close", destroy |-> "remove"]

Finish == [complete |-> "remove", remove |-> "release", destroy |-> "close"]

Complete(c) ==
  /\ at[c] = "idle" /\ quic[c] = "down" /\ ~ Running(c)
  /\ Goto(c, Finish.complete)
  /\ UNCHANGED <<quic, strm, handle, ptr, connections, players, todo, call,
                 received, crashed>>

Remove(c) ==
  /\ at[c] = "remove"
  /\ connections' = connections \ {c} /\ Goto(c, Finish.remove)
  /\ UNCHANGED <<quic, strm, handle, ptr, players, todo, call, received, crashed>>

(* World::destroy, which releases the player before it waits for           *)
(* player_mutex.  One that never became a player is in no list of gc's.    *)
Release(c) ==
  /\ at[c] = "release"
  /\ handle' = [handle EXCEPT ![c] = IF c \in players THEN "released" ELSE @]
  /\ Goto(c, "destroy")
  /\ UNCHANGED <<quic, strm, ptr, connections, players, todo, call, received,
                 crashed>>

BugUnlocked == TRUE                    \* destroy without player_mutex

Unlocked == todo = {}

Destroy(c) ==
  /\ at[c] = "destroy" /\ Unlocked
  /\ players' = players \ {c} /\ Goto(c, "unlock")
  /\ UNCHANGED <<quic, strm, handle, ptr, connections, todo, call, received,
                 crashed>>

(* world_mutex is unlocked last: it is the Handle's, which may be gone.    *)
Unlock(c) ==
  /\ at[c] = "unlock"
  /\ Goto(c, Finish.destroy)
  /\ MayCrash(handle[c] = "deleted")
  /\ UNCHANGED <<quic, strm, handle, ptr, connections, players, todo, call,
                 received>>

Close(c) ==
  /\ at[c] = "close"
  /\ quic' = [quic EXCEPT ![c] = "gone"] /\ Goto(c, "idle")
  /\ UNCHANGED <<strm, handle, ptr, connections, players, todo, call, received,
                 crashed>>

(* A connection ends: its client leaves, or is silent for 5 s, or the      *)
(* transport fails.                                                        *)
Down(c) ==
  /\ quic[c] \in {"new", "connected"}
  /\ quic' = [quic EXCEPT ![c] = "down"]
  /\ strm' = Ending(c)
  /\ UNCHANGED <<handle, ptr, at, connections, players, todo, call, received,
                 crashed>>

-----------------------------------------------------------------------------
(* The tick thread: updateNet, updateState for one player after the other, *)
(* and gc, which deletes the Handles that have left.                       *)
UpdateNet ==
  /\ todo = {} /\ players # {}
  /\ todo' = players
  /\ UNCHANGED <<quic, strm, handle, ptr, at, connections, players, call,
                 received, crashed>>

(* In a Handle that has been deleted the pointer may be anything.          *)
ReadStream(c) ==
  /\ c \in todo /\ call = NoCall
  /\ \E stream \in BOOLEAN :
       /\ handle[c] # "deleted" => stream = ("stream" \in ptr[c])
       /\ call' = [on |-> c, stream |-> stream]
  /\ MayCrash(handle[c] = "deleted")
  /\ UNCHANGED <<quic, strm, handle, ptr, at, connections, players, todo,
                 received>>

Result(c, ok) ==
  /\ received' = [received EXCEPT ![c] =
       IF ~ ok THEN "prefix" ELSE IF @ = "prefix" THEN "holes" ELSE @]
  /\ call' = NoCall /\ todo' = todo \ {c}
  /\ UNCHANGED <<quic, strm, handle, ptr, at, connections, players>>

(* A null stream, or one not started or shut down, is refused by MsQuic;   *)
(* with one that is closed, anything may happen.                           *)
StreamSend(c) ==
  /\ call.on = c
  /\ \/ Result(c, call.stream /\ strm[c] = "started") /\ UNCHANGED crashed
     \/ /\ call.stream /\ strm[c] = "closed"
        /\ crashed' = TRUE
        /\ UNCHANGED <<quic, strm, handle, ptr, at, connections, players, todo,
                       call, received>>

(* The first gc takes it off the world's objects, the second deletes it.   *)
Collect(c) ==
  /\ todo = {} /\ handle[c] \in {"released", "queued"}
  /\ handle' = [handle EXCEPT ![c] = IF @ = "released" THEN "queued" ELSE "deleted"]
  /\ UNCHANGED <<quic, strm, ptr, at, connections, players, todo, call, received,
                 crashed>>

Callback(c) ==
  /\ ~ crashed
  /\ \/ Connected(c) \/ Open(c) \/ Start(c) \/ Spawn(c) \/ List(c)
     \/ ShutStream(c) \/ ShutConn(c) \/ Nullify(c)
     \/ CloseStream(c)
     \/ Complete(c) \/ Remove(c) \/ Release(c) \/ Destroy(c) \/ Unlock(c)
     \/ Close(c)

Tick ==
  /\ ~ crashed
  /\ UpdateNet \/ \E c \in Conn : ReadStream(c) \/ StreamSend(c)

Network(c) == ~ crashed /\ (Accept(c) \/ Receive(c) \/ Abort(c))

Lost(c) == ~ crashed /\ Down(c)

Gc(c) == ~ crashed /\ Collect(c)

Next ==
  \/ \E c \in Conn : Callback(c) \/ Network(c) \/ Lost(c) \/ Gc(c)
  \/ Tick

Spec == Init /\ [][Next]_vars

(* MsQuic runs its callbacks; the tick thread and the callbacks get        *)
(* player_mutex in the end.  Nothing makes a client leave.                 *)
FairSpec ==
  /\ Spec
  /\ WF_vars(Tick)
  /\ \A c \in Conn : SF_vars(Callback(c)) /\ SF_vars(Gc(c))

-----------------------------------------------------------------------------
(* Properties. *)

(***************************************************************************)
(* No message reaches a client after one that was lost: a StreamSend only  *)
(* fails for good, so that a cache advanced for a message that was not     *)
(* sent (server-tick.cpp:191) never meets a client that reads on.  It rests*)
(* on the order of CONNECTED, stream first, player second, and on MsQuic:  *)
(* with a started stream it does not fail for want of memory (Replication  *)
(* shows what follows if it does).                                         *)
(***************************************************************************)
NoHoles == \A c \in Conn : received[c] # "holes"

(***************************************************************************)
(* Every callback that still needs the Connection, and updateState, find   *)
(* it in memory and not even released: no callback follows onDisconnect,   *)
(* and connections is left before it (server.cpp:131-134). What is left is *)
(* the gap in World::destroy (world.cpp:247-250).                          *)
(***************************************************************************)
HandleAlive ==
  \A c \in Conn :
    at[c] \notin {"idle", "close"} \/ Running(c) \/ call.on = c \/ c \in connections
    => handle[c] = "allocated" \/ at[c] \in {"destroy", "unlock"}

(***************************************************************************)
(* A connection as a whole: its state is well formed and the tick walks    *)
(* only those listed, a client never reads on after a lost message, and    *)
(* whoever needs a Connection finds it in memory (server.cpp:31-136).      *)
(***************************************************************************)
ConnectionRight == TypeOK /\ NoHoles /\ HandleAlive

(***************************************************************************)
(* What is opened is closed, once the connection is down or the server     *)
(* itself disconnects (server.cpp:291-299): the connection, its stream,    *)
(* and, unless it never became a player, its Handle (the others are never  *)
(* freed).  A client that stays active may keep all of them.               *)
(***************************************************************************)
Leaving(c) == quic[c] = "down" \/ at[c] = "shutStream"

Over(c) == quic[c] = "gone" /\ strm[c] \in {"none", "closed"}

ClosedInTheEnd ==
  \A c \in Conn :
    /\ Leaving(c) ~> Over(c) \/ crashed
    /\ (c \in players /\ Leaving(c)) ~> handle[c] = "deleted" \/ crashed

(***************************************************************************)
(* A stream is not used once it has been closed (server.cpp:63-64: `It can *)
(* now be safely cleaned up').  The code does: ctx->stream keeps the       *)
(* pointer until, at best, the player leaves the world.                    *)
(***************************************************************************)
ClosedStreamUnused ==
  \A c \in Conn : call.on = c /\ call.stream => strm[c] # "closed"
=============================================================================
