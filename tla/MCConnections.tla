--------------------------- MODULE MCConnections ---------------------------
(***************************************************************************)
(* The life of a connection: at the server, at the client, and when the    *)
(* server's program ends.  The three share no state in the models, so a    *)
(* behaviour runs the one that `part' names and leaves the others in their *)
(* initial states.                                                         *)
(***************************************************************************)
EXTENDS ServerConnection

CONSTANT Programs

ASSUME ProgramsAssumption == Programs \subseteq {"headless", "gui"}

VARIABLES
  part,
  main, worker, clientQuic, clientStrm, conn, stream, client, ended, misuse, exit,
  program, endMain, renderer, world, server, listener, endConn, endHandle,
  spawned, endMisuse, end

clientVars == <<main, worker, clientQuic, clientStrm, conn, stream, client,
                ended, misuse, exit>>
endVars == <<program, endMain, renderer, world, server, listener, endConn,
             endHandle, spawned, endMisuse, end>>

Client == INSTANCE ClientConnection WITH quic <- clientQuic, strm <- clientStrm

End == INSTANCE Shutdown WITH
  Conns <- Conn, main <- endMain, conn <- endConn, handle <- endHandle,
  misuse <- endMisuse

PartsInit ==
  /\ part \in {"server", "client", "end"}
  /\ program \in IF part = "end" THEN Programs ELSE {"headless"}
  /\ Init /\ Client!Init /\ End!Init

PartsNext ==
  \/ part = "server" /\ Next /\ UNCHANGED <<part, clientVars, endVars>>
  \/ part = "client" /\ Client!Next /\ UNCHANGED <<part, vars, endVars>>
  \/ part = "end" /\ End!Next /\ UNCHANGED <<part, vars, clientVars>>

PartsSpec == PartsInit /\ [][PartsNext]_<<part, vars, clientVars, endVars>>

(* The fairness of each part's FairSpec, while it is the one that runs. *)
ServerRuns ==
  /\ WF_vars(part = "server" /\ Tick)
  /\ \A c \in Conn : /\ SF_vars(part = "server" /\ Callback(c))
                     /\ SF_vars(part = "server" /\ Gc(c))

ClientRuns ==
  /\ WF_clientVars(part = "client" /\ Client!Main)
  /\ WF_clientVars(part = "client" /\ Client!Worker)

EndRuns ==
  /\ WF_endVars(part = "end" /\ End!Main)
  /\ \A c \in Conn : /\ WF_endVars(part = "end" /\ End!Complete(c))
                     /\ WF_endVars(part = "end" /\ End!Destroy(c))

FairPartsSpec == PartsSpec /\ ServerRuns /\ ClientRuns /\ EndRuns

-----------------------------------------------------------------------------
(***************************************************************************)
(* The client is deleted after its last callback, but for the two ways     *)
(* DeletedLast names; at the server no callback and no frame uses freed    *)
(* memory until main deletes the world, but for World::destroy, which has  *)
(* released the Handle it is called for; the listener is never late, and   *)
(* only a clean headless server closes its transport.                      *)
(***************************************************************************)
ProgramsSafe ==
  /\ Client!TypeOK /\ Client!DeletedLast
  /\ End!TypeOK /\ End!SafeWhileRunning /\ End!AcceptInTime /\ End!ExitClean

(***************************************************************************)
(* The client's program ends once its client is deleted, and an            *)
(* interrupted server ends if every client goes.                           *)
(***************************************************************************)
ProgramsEnd == Client!Ends /\ End!Ends
=============================================================================
