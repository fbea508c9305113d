-------------------------- MODULE ClientConnection --------------------------
(***************************************************************************)
(* A client program and its one connection (network/quic/client.cpp, and   *)
(* client-headless.cpp or client-gui.cpp for the main thread): the main    *)
(* thread connects, sends an input per frame, deletes the client and       *)
(* closes the registration; MsQuic's callbacks run one at a time on a      *)
(* thread of its own.  The pointers conn and stream, the condition         *)
(* variable cv and the client itself are shared without a lock.            *)
(*                                                                         *)
(* `misuse' records what was used after its end.  The process may survive  *)
(* that or not; after `crashed' nothing more happens.                      *)
(***************************************************************************)

VARIABLES
  main,     \* where the main thread is
  worker,   \* where MsQuic's callback is
  quic,     \* MsQuic's connection
  strm,     \* MsQuic's stream
  conn,     \* conn is not null
  stream,   \* stream is not null
  client,   \* "whole", "base" (only the QuicClient is left), "freed"
  ended,    \* how the main thread's disconnect ended
  misuse,   \* what has been used after its end
  exit      \* how the process ended

vars == <<main, worker, quic, strm, conn, stream, client, ended, misuse, exit>>

Kinds == {"stream", "conn", "members", "client"}

TypeOK ==
  /\ main \in {"connect", "loop", "send", "destroy", "check", "shut", "wait",
               "free", "cleanup", "done"}
  /\ worker \in {"idle", "data", "shut", "wait", "waitExit", "close",
                 "onDisconnect", "notify"}
  /\ quic \in {"none", "new", "connected", "down", "gone"}
  /\ strm \in {"none", "started", "ending", "closed"}
  /\ conn \in BOOLEAN /\ stream = (strm # "none")
  /\ client \in {"whole", "base", "freed"}
  /\ ended \in {"not", "skipped", "notified", "woken"}
  /\ misuse \subseteq Kinds
  /\ exit \in {"running", "crashed", "exited"}

Init ==
  /\ main = "connect" /\ worker = "idle"
  /\ quic = "none" /\ strm = "none"
  /\ conn = FALSE /\ stream = FALSE
  /\ client = "whole" /\ ended = "not"
  /\ misuse = {} /\ exit = "running"

(* A step that uses something of kind k: `gone' if that has ended before.  *)
Use(k, gone) ==
  IF gone THEN misuse' = misuse \cup {k} /\ exit' \in {"running", "crashed"}
          ELSE UNCHANGED <<misuse, exit>>

-----------------------------------------------------------------------------
(* The main thread. *)

(* connect: the status of ConnectionStart is not looked at.                *)
Connect ==
  /\ main = "connect" /\ main' = "loop"
  /\ \/ quic' = "new" /\ conn' = TRUE
     \/ UNCHANGED <<quic, conn>>
  /\ UNCHANGED <<worker, strm, stream, client, ended, misuse, exit>>

(* postRender, sendInput: without a stream, send does nothing.             *)
Frame ==
  /\ main = "loop" /\ stream
  /\ main' = "send"
  /\ UNCHANGED <<worker, quic, strm, conn, stream, client, ended, misuse, exit>>

StreamSend ==
  /\ main = "send" /\ main' = "loop"
  /\ Use("stream", strm = "closed")
  /\ UNCHANGED <<worker, quic, strm, conn, stream, client, ended>>

(* `delete client': first the members of BaseClient end ...                *)
Destroy ==
  /\ main = "loop" /\ main' = "check"
  /\ client' = "base"
  /\ UNCHANGED <<worker, quic, strm, conn, stream, ended, misuse, exit>>

(* ... then ~QuicClient calls disconnect ...                               *)
Check ==
  /\ main = "check"
  /\ \/ conn /\ main' = "shut" /\ UNCHANGED ended
     \/ ~ conn /\ main' = "free" /\ ended' = "skipped"
  /\ UNCHANGED <<worker, quic, strm, conn, stream, client, misuse, exit>>

ShutDown ==
  /\ quic' = IF quic \in {"new", "connected"} THEN "down" ELSE quic
  /\ strm' = IF strm = "started" THEN "ending" ELSE strm

Shut ==
  /\ main = "shut" /\ main' = "wait"
  /\ Use("conn", conn /\ quic = "gone")
  /\ ShutDown
  /\ UNCHANGED <<worker, conn, stream, client, ended>>

(* ... and waits on cv, without a predicate: ten seconds, or less if it    *)
(* wakes up for no reason.                                                 *)
BugWaitEnds == FALSE                   \* wait instead of wait_for

WaitEnds == TRUE

Wake ==
  /\ main = "wait" /\ WaitEnds
  /\ main' = "free" /\ ended' = "woken"
  /\ UNCHANGED <<worker, quic, strm, conn, stream, client, misuse, exit>>

Free ==
  /\ main = "free" /\ main' = "cleanup"
  /\ client' = "freed"
  /\ UNCHANGED <<worker, quic, strm, conn, stream, ended, misuse, exit>>

(* cleanup: RegistrationClose waits for what is still open. *)
Cleanup ==
  /\ main = "cleanup" /\ main' = "done"
  /\ quic \in {"none", "gone"} /\ strm \in {"none", "closed"} /\ worker = "idle"
  /\ UNCHANGED <<worker, quic, strm, conn, stream, client, ended, misuse, exit>>

-----------------------------------------------------------------------------
(* MsQuic's callbacks.  Each uses the client; freed memory may hold it yet. *)

UseClient == Use("client", client = "freed")

Connected ==
  /\ worker = "idle" /\ quic = "new"
  /\ quic' = "connected" /\ UseClient
  /\ UNCHANGED <<main, worker, strm, conn, stream, client, ended>>

BugNewStream == stream                 \* the handler is set, stream is not

NewStream == TRUE

PeerStream ==
  /\ worker = "idle" /\ quic = "connected" /\ strm = "none"
  /\ strm' = "started" /\ stream' = NewStream /\ UseClient
  /\ UNCHANGED <<main, worker, quic, conn, client, ended>>

(* recv calls BaseClient::onData, and once ~BaseClient is over             *)
(* QuicClient's, which does nothing.                                       *)
Receive ==
  /\ worker = "idle" /\ strm = "started"
  /\ worker' = IF client = "whole" THEN "data" ELSE "idle"
  /\ UseClient
  /\ UNCHANGED <<main, quic, strm, conn, stream, client, ended>>

(* onData has taken the message in, or it calls disconnect.                *)
Taken ==
  /\ worker = "data" /\ worker' \in {"idle", "shut"}
  /\ Use("members", client # "whole")
  /\ UNCHANGED <<main, quic, strm, conn, stream, client, ended>>

(* disconnect on MsQuic's thread waits for a callback that cannot run      *)
(* before it returns.  After a version mismatch onData returns, after      *)
(* anything else it exits.                                                 *)
SelfShut ==
  /\ worker = "shut" /\ conn
  /\ worker' \in {"wait", "waitExit"}
  /\ ShutDown /\ UseClient
  /\ UNCHANGED <<main, conn, stream, client, ended>>

SelfWake ==
  /\ worker = "wait" /\ WaitEnds
  /\ worker' = "idle" /\ UseClient
  /\ UNCHANGED <<main, quic, strm, conn, stream, client, ended>>

Exit ==
  /\ worker = "waitExit" /\ WaitEnds
  /\ exit' = "exited"
  /\ UNCHANGED <<main, worker, quic, strm, conn, stream, client, ended, misuse>>

CloseStream ==
  /\ worker = "idle" /\ strm = "ending"
  /\ strm' = "closed" /\ UseClient
  /\ UNCHANGED <<main, worker, quic, conn, stream, client, ended>>

(* SHUTDOWN_COMPLETE: ConnectionClose, onDisconnect, notify_all.           *)
BugOrder ==                            \* notify_all first
  [begin |-> "notify", notify |-> "close", close |-> "onDisconnect",
   onDisconnect |-> "idle"]

Order ==
  [begin |-> "close", close |-> "onDisconnect", onDisconnect |-> "notify",
   notify |-> "idle"]

Complete ==
  /\ worker = "idle" /\ quic = "down" /\ strm \in {"none", "closed"}
  /\ worker' = Order.begin
  /\ UNCHANGED <<main, quic, strm, conn, stream, client, ended, misuse, exit>>

Close ==
  /\ worker = "close" /\ worker' = Order.close
  /\ quic' = "gone"
  /\ UNCHANGED <<main, strm, conn, stream, client, ended, misuse, exit>>

OnDisconnect ==
  /\ worker = "onDisconnect" /\ worker' = Order.onDisconnect
  /\ conn' = FALSE /\ UseClient
  /\ UNCHANGED <<main, quic, strm, stream, client, ended>>

Notify ==
  /\ worker = "notify" /\ worker' = Order.notify
  /\ UseClient
  /\ IF main = "wait" THEN main' = "free" /\ ended' = "notified"
                      ELSE UNCHANGED <<main, ended>>
  /\ UNCHANGED <<quic, strm, conn, stream, client>>

(* MsQuic ends the connection: idle for 5 s, the server, the transport. *)
Down ==
  /\ quic \in {"new", "connected"} /\ ShutDown
  /\ UNCHANGED <<main, worker, conn, stream, client, ended, misuse, exit>>

Main ==
  /\ exit = "running"
  /\ \/ Connect \/ Frame \/ StreamSend \/ Destroy \/ Check \/ Shut \/ Wake
     \/ Free \/ Cleanup

Worker ==
  /\ exit = "running"
  /\ \/ Connected \/ PeerStream \/ Receive \/ Taken \/ SelfShut \/ SelfWake
     \/ Exit \/ CloseStream \/ Complete \/ Close \/ OnDisconnect \/ Notify

Network == exit = "running" /\ Down

Next == Main \/ Worker \/ Network

Spec == Init /\ [][Next]_vars

(* Both threads run, and a wait of ten seconds ends. *)
FairSpec == Spec /\ WF_vars(Main) /\ WF_vars(Worker)

-----------------------------------------------------------------------------
(* Properties. *)

(***************************************************************************)
(* The client is deleted while MsQuic may still call it only if the wait   *)
(* of its disconnect ended without the notification, or, by a hair, if     *)
(* disconnect found conn already null and the notification was all that    *)
(* was left (client.cpp:87-91, 222-230).                                   *)
(***************************************************************************)
CallbacksOver ==
  quic \in {"none", "gone"} /\ strm \in {"none", "closed"} /\ worker = "idle"

DeletedLast ==
  client = "freed" =>
    \/ CallbacksOver
    \/ ended = "woken"
    \/ ended = "skipped" /\ quic = "gone" /\ worker = "notify"

(***************************************************************************)
(* The program ends once its client is deleted: disconnect returns even if *)
(* MsQuic's thread sits in a disconnect of its own, whose notification     *)
(* can only come after it (client.cpp:228, client-tick.cpp:27), and        *)
(* RegistrationClose finds everything closed.                              *)
(***************************************************************************)
Ends == main = "check" ~> main = "done" \/ exit # "running"
=============================================================================
