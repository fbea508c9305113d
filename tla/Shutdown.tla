------------------------------ MODULE Shutdown ------------------------------
(***************************************************************************)
(* The end of a server program (main/server-headless.cpp,                  *)
(* main/server-gui.cpp, misc/repl.hpp): SIGINT closes the handles of the   *)
(* event loop, run returns, the server is deleted - first the world, then  *)
(* the listener - and the transport is closed, which blocks until every    *)
(* connection has been closed.  Nobody shuts the connections down, so      *)
(* their callbacks go on meanwhile.                                        *)
(*                                                                         *)
(* `misuse' names the callbacks that have used freed memory.  Such a       *)
(* callback either brings the process down or goes on as if nothing was.   *)
(***************************************************************************)

CONSTANTS
  Conns,    \* connections
  Programs  \* of "headless" and "gui"

VARIABLES
  program,   \* which program runs
  main,      \* where the main thread is
  renderer,  \* the server's own renderer: "none", "drawing", "closed"
  world,     \* server->world has not been deleted
  server,    \* "whole", "base" (~PhysXServer has ended), "freed"
  listener,  \* the listener is open
  conn,      \* MsQuic's connection: "none", "new", "connected", "down",
             \* "leaving" (in onDisconnect, the player is released), "closed"
  handle,    \* its Connection: "none", "handle", "plain", "freed"
  spawned,   \* the handles in the world's objects
  misuse,    \* callbacks that have used freed memory
  end        \* "running", "exited", "aborted" (std::terminate), "crashed"

vars == <<program, main, renderer, world, server, listener, conn, handle,
          spawned, misuse, end>>

TypeOK ==
  /\ program \in Programs
  /\ main \in {"loop", "stopped", "worldless", "closed", "deleted", "waiting",
               "returned"}
  /\ renderer \in {"none", "drawing", "closed"}
  /\ world \in BOOLEAN /\ listener \in BOOLEAN
  /\ server \in {"whole", "base", "freed"}
  /\ conn \in [Conns -> {"none", "new", "connected", "down", "leaving", "closed"}]
  /\ handle \in [Conns -> {"none", "handle", "plain", "freed"}]
  /\ spawned \subseteq {c \in Conns : handle[c] = "handle"}
  /\ misuse \subseteq {"accept", "connected", "receive", "complete", "destroy",
                 "render"}
  /\ end \in {"running", "exited", "aborted", "crashed"}

(* main up to run: the listener is open, the console is read.              *)
Init ==
  /\ program \in Programs
  /\ main = "loop"
  /\ renderer = (IF program = "gui" THEN "drawing" ELSE "none")
  /\ world = TRUE /\ server = "whole" /\ listener = TRUE
  /\ conn = [c \in Conns |-> "none"] /\ handle = [c \in Conns |-> "none"]
  /\ spawned = {} /\ misuse = {} /\ end = "running"

Use(callback, gone) ==
  IF gone THEN misuse' = misuse \cup {callback} /\ end' \in {"running", "crashed"}
          ELSE UNCHANGED <<misuse, end>>

-----------------------------------------------------------------------------
(* The main thread. *)

(* A tick's gc deletes the handles of players that are released, even if   *)
(* their onDisconnect has not ended.                                       *)
BugLeft(c) == TRUE                     \* gc does not look at released

Left(c) == conn[c] \in {"leaving", "closed"}

BugKept(gone) == spawned               \* objects still has them

Kept(gone) == spawned \ gone

Collect ==
  /\ main = "loop" /\ end = "running"
  /\ LET gone == {c \in spawned : Left(c)} IN
       /\ gone # {}
       /\ spawned' = Kept(gone)
       /\ handle' = [c \in Conns |-> IF c \in gone THEN "freed" ELSE handle[c]]
  /\ UNCHANGED <<program, main, renderer, world, server, listener, conn, misuse, end>>

(* SIGINT, `exit', end of input, or the renderer's window: on_sigint       *)
(* closes every handle of the loop, so uv_run returns.                     *)
Interrupt ==
  /\ main = "loop" /\ end = "running"
  /\ main' = "stopped"
  /\ UNCHANGED <<program, renderer, world, server, listener, conn, handle, spawned,
                 misuse, end>>

(* ~PhysXServer: delete world, and ~World deletes its objects, the players *)
(* among them.                                                             *)
DeleteWorld ==
  /\ main = "stopped" /\ end = "running"
  /\ main' = "worldless"
  /\ world' = FALSE /\ server' = "base"
  /\ handle' = [c \in Conns |-> IF c \in spawned THEN "freed" ELSE handle[c]]
  /\ spawned' = {}
  /\ UNCHANGED <<program, renderer, listener, conn, misuse, end>>

(* ~QuicServer: stop, and ListenerClose waits for its callback.            *)
BugStop == listener' = listener        \* the destructor does not stop

Stop == listener' = FALSE

CloseListener ==
  /\ main = "worldless" /\ end = "running"
  /\ main' = "closed" /\ Stop
  /\ UNCHANGED <<program, renderer, world, server, conn, handle, spawned, misuse, end>>

(* The server's memory; and the GUI program then deletes a thread that     *)
(* nobody has joined, which calls std::terminate.                          *)
DeleteServer ==
  /\ main = "closed" /\ end = "running"
  /\ main' = "deleted" /\ server' = "freed"
  /\ end' = (IF program = "gui" THEN "aborted" ELSE "running")
  /\ UNCHANGED <<program, renderer, world, listener, conn, handle, spawned, misuse>>

(* World::cleanup, ConfigurationClose, and into RegistrationClose.         *)
Cleanup ==
  /\ main = "deleted" /\ end = "running"
  /\ main' = "waiting"
  /\ UNCHANGED <<program, renderer, world, server, listener, conn, handle, spawned,
                 misuse, end>>

(* RegistrationClose returns when no connection is open; MsQuicClose.      *)
BugOutstanding == {c \in Conns : conn[c] = "connected"}

Outstanding == {c \in Conns : conn[c] \notin {"none", "closed"}}

Return ==
  /\ main = "waiting" /\ end = "running" /\ Outstanding = {}
  /\ main' = "returned" /\ end' = "exited"
  /\ UNCHANGED <<program, renderer, world, server, listener, conn, handle, spawned,
                 misuse>>

Main == DeleteWorld \/ CloseListener \/ DeleteServer \/ Cleanup \/ Return

-----------------------------------------------------------------------------
(* The server's renderer, with the world it was given; closing its window  *)
(* raises SIGINT.                                                          *)
Frame ==
  /\ renderer = "drawing" /\ end = "running"
  /\ Use("render", ~ world)
  /\ UNCHANGED <<program, main, renderer, world, server, listener, conn, handle,
                 spawned>>

CloseWindow ==
  /\ renderer = "drawing" /\ end = "running"
  /\ renderer' = "closed"
  /\ main' = (IF main = "loop" THEN "stopped" ELSE main)
  /\ UNCHANGED <<program, world, server, listener, conn, handle, spawned, misuse, end>>

-----------------------------------------------------------------------------
(* MsQuic's callbacks. *)

(* NEW_CONNECTION: client() is virtual, and once ~PhysXServer has ended it *)
(* makes a Connection that does nothing.                                   *)
Accept(c) ==
  /\ listener /\ conn[c] = "none" /\ end = "running"
  /\ conn' = [conn EXCEPT ![c] = "new"]
  /\ handle' = [handle EXCEPT ![c] = IF server = "whole" THEN "handle" ELSE "plain"]
  /\ Use("accept", server = "freed")
  /\ UNCHANGED <<program, main, renderer, world, server, listener, spawned>>

(* CONNECTED with a stream: onConnect (addHandle and spawn), connections.  *)
Connected(c) ==
  /\ conn[c] = "new" /\ end = "running"
  /\ conn' = [conn EXCEPT ![c] = "connected"]
  /\ Use("connected", server = "freed" \/ (handle[c] = "handle" /\ ~ world))
  /\ spawned' = (IF handle[c] = "handle" /\ world THEN spawned \cup {c} ELSE spawned)
  /\ UNCHANGED <<program, main, renderer, world, server, listener, handle>>

(* CONNECTED, but the stream cannot be opened or started.                  *)
Streamless(c) ==
  /\ conn[c] = "new" /\ end = "running"
  /\ conn' = [conn EXCEPT ![c] = "connected"]
  /\ UNCHANGED <<program, main, renderer, world, server, listener, handle, spawned,
                 misuse, end>>

(* RECEIVE on the stream: recv and onData of the handle.                   *)
Receive(c) ==
  /\ conn[c] = "connected" /\ end = "running"
  /\ Use("receive", handle[c] = "freed")
  /\ UNCHANGED <<program, main, renderer, world, server, listener, conn, handle,
                 spawned>>

(* The client closes the connection, or is silent for IdleTimeoutMs.       *)
Lose(c) ==
  /\ conn[c] \in {"new", "connected"} /\ end = "running"
  /\ conn' = [conn EXCEPT ![c] = "down"]
  /\ UNCHANGED <<program, main, renderer, world, server, listener, handle, spawned,
                 misuse, end>>

(* SHUTDOWN_COMPLETE: connections, and onDisconnect up to the release of   *)
(* the player ...                                                          *)
Complete(c) ==
  /\ conn[c] = "down" /\ end = "running"
  /\ conn' = [conn EXCEPT ![c] = "leaving"]
  /\ Use("complete", \/ handle[c] = "freed" \/ server = "freed"
                     \/ handle[c] = "handle" /\ ~ world)
  /\ UNCHANGED <<program, main, renderer, world, server, listener, handle, spawned>>

(* ... player_mutex and players, the unlock of the Handle's world_mutex,   *)
(* and ConnectionClose.                                                    *)
BugAfterShutdown == "over"             \* no ConnectionClose

AfterShutdown == "closed"

Destroy(c) ==
  /\ conn[c] = "leaving" /\ end = "running"
  /\ conn' = [conn EXCEPT ![c] = AfterShutdown]
  /\ Use("destroy", \/ handle[c] = "freed"
                    \/ handle[c] = "handle" /\ ~ world)
  /\ UNCHANGED <<program, main, renderer, world, server, listener, handle, spawned>>

Callback(c) ==
  \/ Accept(c) \/ Connected(c) \/ Streamless(c) \/ Receive(c) \/ Lose(c)
  \/ Complete(c) \/ Destroy(c)

(* After the end of the process nothing happens.                           *)
Ended == end # "running" /\ UNCHANGED vars

Next == Collect \/ Interrupt \/ Main \/ Frame \/ CloseWindow
          \/ (\E c \in Conns : Callback(c)) \/ Ended

Spec == Init /\ [][Next]_vars

(* The main thread goes on unless it is blocked, MsQuic delivers the last  *)
(* event of a connection that is down, and the handler ends.               *)
FairSpec ==
  /\ Spec /\ WF_vars(Main)
  /\ \A c \in Conns : WF_vars(Complete(c)) /\ WF_vars(Destroy(c))

-----------------------------------------------------------------------------
(* Properties. *)

(***************************************************************************)
(* While the loop runs, and until the world is deleted, no callback and no *)
(* frame uses freed memory, although gc deletes handles (world.cpp:322),   *)
(* but for one: World::destroy releases the player first (world.cpp:247),  *)
(* so that gc may delete the Handle that onDisconnect still has to unlock  *)
(* (game.cpp:109-112).                                                     *)
(***************************************************************************)
SafeWhileRunning == main \in {"loop", "stopped"} => misuse \subseteq {"destroy"}

(***************************************************************************)
(* The listener's callback, which reads the server, is never late: a       *)
(* connection may come as long as the server's destructor runs, but none   *)
(* after it (server.hpp:76).                                               *)
(***************************************************************************)
AcceptInTime == "accept" \notin misuse

(***************************************************************************)
(* The transport is closed only when every connection has been closed, and *)
(* only by a headless server: the GUI program never gets there.            *)
(***************************************************************************)
ExitClean ==
  end = "exited" => /\ \A c \in Conns : conn[c] \in {"none", "closed"}
                    /\ program = "headless"

(***************************************************************************)
(* If every client goes in the end, an interrupted server ends.            *)
(***************************************************************************)
Down(c) == conn[c] \in {"down", "leaving", "closed"}

Ends ==
  (\A c \in Conns : (conn[c] \in {"new", "connected"}) ~> Down(c))
    => ((main # "loop") ~> (end # "running"))

(***************************************************************************)
(* server.cpp:126 says that with SHUTDOWN_COMPLETE a connection is ready   *)
(* to be safely cleaned up: the handler finds its handle, the server and   *)
(* the world in memory.  The order of main lets all of them go before.     *)
(***************************************************************************)
CleanedUpSafely == "complete" \notin misuse
=============================================================================
