-------------------------- MODULE ConnectionsProofs --------------------------
(***************************************************************************)
(* What the runs of MCConnections show of connections and programs, for    *)
(* any number of connections: first the server's connections, of which how *)
(* far a callback has come says what MsQuic still has of them, and with it *)
(* whether anyone may still ask for the Connection object.                 *)
(***************************************************************************)
EXTENDS MCConnections, TLAPS

-----------------------------------------------------------------------------
(* The invariant. *)

Ended(c) == strm[c] \in {"ending", "closed"}

(* Nothing of a connection that has not come, or was refused, is anywhere. *)
NotYet(c) ==
  quic[c] \in {"none", "refused", "new"} =>
    /\ strm[c] = "none" /\ at[c] = "idle"
    /\ c \notin players \cup connections
    /\ quic[c] = "none" => handle[c] = "none"

(* The stream, by the place of the callback. *)
StreamStage(c) ==
  /\ at[c] = "open" => strm[c] = "none"
  /\ strm[c] = "open" <=> at[c] = "start"
  /\ at[c] \in {"spawn", "list", "shutStream"} => Running(c)
  /\ at[c] \in {"shutConn", "nullify"} => strm[c] = "ending"
  /\ at[c] \in {"remove", "release", "destroy", "unlock", "close"} =>
       strm[c] \in {"none", "closed"} /\ quic[c] = "down"
  /\ at[c] \in {"start", "spawn"} => "stream" \in ptr[c]

(* A player's stream has been started, and ctx->stream names it unless it  *)
(* has ended: what CONNECTED does first and disconnect does last.          *)
PlayerStage(c) ==
  c \in players =>
    /\ at[c] \notin {"open", "start", "spawn", "unlock", "close"}
    /\ quic[c] \in {"connected", "down"}
    /\ strm[c] = "started" \/ Ended(c)
    /\ "stream" \in ptr[c] \/ Ended(c)

(* What the list of connections holds MsQuic has not ended. *)
ListStage(c) ==
  c \in connections =>
    /\ at[c] \notin {"open", "start", "spawn", "list", "release", "destroy",
                     "unlock", "close"}
    /\ quic[c] \in {"connected", "down"}

(* Nothing of it is left at the end. *)
GoneStage(c) ==
  quic[c] = "gone" =>
    /\ at[c] = "idle" /\ strm[c] \in {"none", "closed"}
    /\ c \notin players \cup connections

(* Only onDisconnect lets go of a Handle. *)
HandleStage(c) ==
  quic[c] \notin {"none", "gone"} /\ at[c] \notin {"destroy", "unlock", "close"}
    => handle[c] = "allocated"

(* A message is lost only once the stream has ended, or will be: then the  *)
(* pointer updateState has read was null.                                  *)
SendStage(c) ==
  /\ call.on = c => c \in todo /\ (call.stream \/ Ended(c))
  /\ received[c] # "all" => Ended(c)
  /\ received[c] # "holes"

Stage(c) ==
  /\ NotYet(c) /\ StreamStage(c) /\ PlayerStage(c) /\ ListStage(c)
  /\ GoneStage(c) /\ HandleStage(c) /\ SendStage(c)

CInv == TypeOK /\ \A c \in Conn : Stage(c)

-----------------------------------------------------------------------------
(* Nothing of d changes. *)
Same(d) ==
  /\ quic'[d] = quic[d] /\ strm'[d] = strm[d] /\ handle'[d] = handle[d]
  /\ ptr'[d] = ptr[d] /\ at'[d] = at[d] /\ received'[d] = received[d]
  /\ d \in connections' <=> d \in connections
  /\ d \in players' <=> d \in players
  /\ call'.on = d => call' = call /\ (d \in todo => d \in todo')

LEMMA SameStage ==
  ASSUME NEW d \in Conn, Stage(d), Same(d)
  PROVE  Stage(d)'
BY DEF Stage, Same, NotYet, StreamStage, PlayerStage, ListStage, GoneStage,
       HandleStage, SendStage, Ended, Running

LEMMA OneStep ==
  ASSUME CInv, NEW c \in Conn, TypeOK', Stage(c)', \A d \in Conn \ {c} : Same(d)
  PROVE  CInv'
BY SameStage DEF CInv

(* The listener and CONNECTED. *)
LEMMA AcceptStep ==
  ASSUME CInv, NEW c \in Conn, Accept(c)
  PROVE  CInv'
<1>1. TypeOK'
  BY DEF CInv, TypeOK, Accept
<1>2. \A d \in Conn \ {c} : Same(d)
  BY DEF CInv, TypeOK, Same, Accept
<1>3. Stage(c)'
  BY DEF CInv, TypeOK, Stage, NotYet, StreamStage, PlayerStage, ListStage,
       GoneStage, HandleStage, SendStage, Ended, Accept, Running
<1> QED
  BY <1>1, <1>2, <1>3, OneStep

LEMMA ConnectedStep ==
  ASSUME CInv, NEW c \in Conn, Connected(c)
  PROVE  CInv'
<1>1. TypeOK'
  BY DEF CInv, TypeOK, Connected, Goto, Order
<1>2. \A d \in Conn \ {c} : Same(d)
  BY DEF CInv, TypeOK, Same, Connected, Goto, Order
<1>3. Stage(c)'
  BY DEF CInv, TypeOK, Stage, NotYet, StreamStage, PlayerStage, ListStage,
       GoneStage, HandleStage, SendStage, Ended, Connected, Goto, Order,
       Running
<1> QED
  BY <1>1, <1>2, <1>3, OneStep

LEMMA OpenStep ==
  ASSUME CInv, NEW c \in Conn, Open(c)
  PROVE  CInv'
<1>1. TypeOK'
  BY DEF CInv, TypeOK, Open, Goto, Order
<1>2. \A d \in Conn \ {c} : Same(d)
  BY DEF CInv, TypeOK, Same, Open, Goto, Order
<1>3. Stage(c)'
  BY DEF CInv, TypeOK, Stage, NotYet, StreamStage, PlayerStage, ListStage,
       GoneStage, HandleStage, SendStage, Ended, Open, Goto, Order, Running
<1> QED
  BY <1>1, <1>2, <1>3, OneStep

LEMMA StartStep ==
  ASSUME CInv, NEW c \in Conn, Start(c)
  PROVE  CInv'
<1>1. TypeOK'
  BY DEF CInv, TypeOK, Start, Goto, Order
<1>2. \A d \in Conn \ {c} : Same(d)
  BY DEF CInv, TypeOK, Same, Start, Goto, Order
<1>3. Stage(c)'
  BY DEF CInv, TypeOK, Stage, NotYet, StreamStage, PlayerStage, ListStage,
       GoneStage, HandleStage, SendStage, Ended, Start, Goto, Order, Running
<1> QED
  BY <1>1, <1>2, <1>3, OneStep

LEMMA SpawnStep ==
  ASSUME CInv, NEW c \in Conn, Spawn(c)
  PROVE  CInv'
<1>1. TypeOK'
  BY DEF CInv, TypeOK, Spawn, Goto, Order
<1>2. \A d \in Conn \ {c} : Same(d)
  BY DEF CInv, TypeOK, Same, Spawn, Goto, Order
<1>3. Stage(c)'
  BY DEF CInv, TypeOK, Stage, NotYet, StreamStage, PlayerStage, ListStage,
       GoneStage, HandleStage, SendStage, Ended, Spawn, Goto, Order, Running
<1> QED
  BY <1>1, <1>2, <1>3, OneStep

LEMMA ListStep ==
  ASSUME CInv, NEW c \in Conn, List(c)
  PROVE  CInv'
<1>1. TypeOK'
  BY DEF CInv, TypeOK, List, Goto
<1>2. \A d \in Conn \ {c} : Same(d)
  BY DEF CInv, TypeOK, Same, List, Goto
<1>3. Stage(c)'
  BY DEF CInv, TypeOK, Stage, NotYet, StreamStage, PlayerStage, ListStage,
       GoneStage, HandleStage, SendStage, Ended, List, Goto, Running
<1> QED
  BY <1>1, <1>2, <1>3, OneStep

(* What the peer makes the server do. *)
LEMMA ReceiveStep ==
  ASSUME CInv, NEW c \in Conn, Receive(c)
  PROVE  CInv'
<1>1. TypeOK'
  BY DEF CInv, TypeOK, Receive, Goto
<1>2. \A d \in Conn \ {c} : Same(d)
  BY DEF CInv, TypeOK, Same, Receive, Goto
<1>3. Stage(c)'
  BY DEF CInv, TypeOK, Stage, NotYet, StreamStage, PlayerStage, ListStage,
       GoneStage, HandleStage, SendStage, Ended, Receive, Goto, Running
<1> QED
  BY <1>1, <1>2, <1>3, OneStep

LEMMA ShutStreamStep ==
  ASSUME CInv, NEW c \in Conn, ShutStream(c)
  PROVE  CInv'
<1>1. TypeOK'
  BY DEF CInv, TypeOK, ShutStream, Goto, Ending
<1>2. \A d \in Conn \ {c} : Same(d)
  BY DEF CInv, TypeOK, Same, ShutStream, Goto, Ending
<1>3. Stage(c)'
  BY DEF CInv, TypeOK, Stage, NotYet, StreamStage, PlayerStage, ListStage,
       GoneStage, HandleStage, SendStage, Ended, ShutStream, Goto, Ending,
       Running
<1> QED
  BY <1>1, <1>2, <1>3, OneStep

LEMMA ShutConnStep ==
  ASSUME CInv, NEW c \in Conn, ShutConn(c)
  PROVE  CInv'
<1>1. TypeOK'
  BY DEF CInv, TypeOK, ShutConn, Goto
<1>2. \A d \in Conn \ {c} : Same(d)
  BY DEF CInv, TypeOK, Same, ShutConn, Goto
<1>3. Stage(c)'
  BY DEF CInv, TypeOK, Stage, NotYet, StreamStage, PlayerStage, ListStage,
       GoneStage, HandleStage, SendStage, Ended, ShutConn, Goto, Running
<1> QED
  BY <1>1, <1>2, <1>3, OneStep

LEMMA NullifyStep ==
  ASSUME CInv, NEW c \in Conn, Nullify(c)
  PROVE  CInv'
<1>1. TypeOK'
  BY DEF CInv, TypeOK, Nullify, Goto
<1>2. \A d \in Conn \ {c} : Same(d)
  BY DEF CInv, TypeOK, Same, Nullify, Goto
<1>3. Stage(c)'
  BY DEF CInv, TypeOK, Stage, NotYet, StreamStage, PlayerStage, ListStage,
       GoneStage, HandleStage, SendStage, Ended, Nullify, Goto, Running
<1> QED
  BY <1>1, <1>2, <1>3, OneStep

LEMMA AbortStep ==
  ASSUME CInv, NEW c \in Conn, Abort(c)
  PROVE  CInv'
<1>1. TypeOK'
  BY DEF CInv, TypeOK, Abort, Ending
<1>2. \A d \in Conn \ {c} : Same(d)
  BY DEF CInv, TypeOK, Same, Abort, Ending
<1>3. Stage(c)'
  BY DEF CInv, TypeOK, Stage, NotYet, StreamStage, PlayerStage, ListStage,
       GoneStage, HandleStage, SendStage, Ended, Abort, Ending, Running
<1> QED
  BY <1>1, <1>2, <1>3, OneStep

(* The end of the stream and of the connection. *)
LEMMA CloseStreamStep ==
  ASSUME CInv, NEW c \in Conn, CloseStream(c)
  PROVE  CInv'
<1>1. TypeOK'
  BY DEF CInv, TypeOK, CloseStream, Closed
<1>2. \A d \in Conn \ {c} : Same(d)
  BY DEF CInv, TypeOK, Same, CloseStream, Closed
<1>3. Stage(c)'
  BY DEF CInv, TypeOK, Stage, NotYet, StreamStage, PlayerStage, ListStage,
       GoneStage, HandleStage, SendStage, Ended, CloseStream, Closed,
       Running
<1> QED
  BY <1>1, <1>2, <1>3, OneStep

LEMMA CompleteStep ==
  ASSUME CInv, NEW c \in Conn, Complete(c)
  PROVE  CInv'
<1>1. TypeOK'
  BY DEF CInv, TypeOK, Complete, Goto, Running, Finish
<1>2. \A d \in Conn \ {c} : Same(d)
  BY DEF CInv, TypeOK, Same, Complete, Goto, Running, Finish
<1>3. Stage(c)'
  BY DEF CInv, TypeOK, Stage, NotYet, StreamStage, PlayerStage, ListStage,
       GoneStage, HandleStage, SendStage, Ended, Complete, Goto, Running,
       Finish
<1> QED
  BY <1>1, <1>2, <1>3, OneStep

LEMMA RemoveStep ==
  ASSUME CInv, NEW c \in Conn, Remove(c)
  PROVE  CInv'
<1>1. TypeOK'
  BY DEF CInv, TypeOK, Remove, Goto, Finish
<1>2. \A d \in Conn \ {c} : Same(d)
  BY DEF CInv, TypeOK, Same, Remove, Goto, Finish
<1>3. Stage(c)'
  BY DEF CInv, TypeOK, Stage, NotYet, StreamStage, PlayerStage, ListStage,
       GoneStage, HandleStage, SendStage, Ended, Remove, Goto, Finish,
       Running
<1> QED
  BY <1>1, <1>2, <1>3, OneStep

LEMMA ReleaseStep ==
  ASSUME CInv, NEW c \in Conn, Release(c)
  PROVE  CInv'
<1>1. TypeOK'
  BY DEF CInv, TypeOK, Release, Goto
<1>2. \A d \in Conn \ {c} : Same(d)
  BY DEF CInv, TypeOK, Same, Release, Goto
<1>3. Stage(c)'
  BY DEF CInv, TypeOK, Stage, NotYet, StreamStage, PlayerStage, ListStage,
       GoneStage, HandleStage, SendStage, Ended, Release, Goto, Running
<1> QED
  BY <1>1, <1>2, <1>3, OneStep

LEMMA DestroyStep ==
  ASSUME CInv, NEW c \in Conn, Destroy(c)
  PROVE  CInv'
<1>1. TypeOK'
  BY SMT DEF CInv, TypeOK, Destroy, Goto, Unlocked
<1>2. \A d \in Conn \ {c} : Same(d)
  BY DEF CInv, TypeOK, Same, Destroy, Goto, Unlocked
<1>3. Stage(c)'
  BY DEF CInv, TypeOK, Stage, NotYet, StreamStage, PlayerStage, ListStage,
       GoneStage, HandleStage, SendStage, Ended, Destroy, Goto,
       Unlocked, Running
<1> QED
  BY <1>1, <1>2, <1>3, OneStep

LEMMA UnlockStep ==
  ASSUME CInv, NEW c \in Conn, Unlock(c)
  PROVE  CInv'
<1>1. TypeOK'
  <2>1. crashed' \in BOOLEAN
    BY DEF CInv, TypeOK, Unlock, MayCrash
  <2> QED
    BY <2>1, SMT DEF CInv, TypeOK, Unlock, Goto, Finish
<1>2. \A d \in Conn \ {c} : Same(d)
  BY DEF CInv, TypeOK, Same, Unlock, Goto, Finish, MayCrash
<1>3. Stage(c)'
  BY DEF CInv, TypeOK, Stage, NotYet, StreamStage, PlayerStage, ListStage,
       GoneStage, HandleStage, SendStage, Ended, Unlock, Goto, Finish, Running
<1> QED
  BY <1>1, <1>2, <1>3, OneStep

LEMMA CloseStep ==
  ASSUME CInv, NEW c \in Conn, Close(c)
  PROVE  CInv'
<1>1. TypeOK'
  BY DEF CInv, TypeOK, Close, Goto
<1>2. \A d \in Conn \ {c} : Same(d)
  BY DEF CInv, TypeOK, Same, Close, Goto
<1>3. Stage(c)'
  BY DEF CInv, TypeOK, Stage, NotYet, StreamStage, PlayerStage, ListStage,
       GoneStage, HandleStage, SendStage, Ended, Close, Goto, Running
<1> QED
  BY <1>1, <1>2, <1>3, OneStep

(* MsQuic's timeouts. *)
LEMMA DownStep ==
  ASSUME CInv, NEW c \in Conn, Down(c)
  PROVE  CInv'
<1>1. TypeOK'
  BY DEF CInv, TypeOK, Down, Ending
<1>2. \A d \in Conn \ {c} : Same(d)
  BY DEF CInv, TypeOK, Same, Down, Ending
<1>3. Stage(c)'
  BY DEF CInv, TypeOK, Stage, NotYet, StreamStage, PlayerStage, ListStage,
       GoneStage, HandleStage, SendStage, Ended, Down, Ending, Running
<1> QED
  BY <1>1, <1>2, <1>3, OneStep

(* The tick thread. *)
LEMMA ReadStreamStep ==
  ASSUME CInv, NEW c \in Conn, ReadStream(c)
  PROVE  CInv'
<1>1. TypeOK'
  <2>1. crashed' \in BOOLEAN
    BY DEF CInv, TypeOK, ReadStream, MayCrash
  <2> QED
    BY <2>1, SMT DEF CInv, TypeOK, ReadStream, NoCall
<1>2. \A d \in Conn \ {c} : Same(d)
  BY DEF CInv, TypeOK, Same, ReadStream, MayCrash, NoCall
<1>3. Stage(c)'
  BY DEF CInv, TypeOK, Stage, NotYet, StreamStage, PlayerStage, ListStage,
       GoneStage, HandleStage, SendStage, Ended, ReadStream, MayCrash,
       NoCall, Running
<1> QED
  BY <1>1, <1>2, <1>3, OneStep

LEMMA StreamSendStep ==
  ASSUME CInv, NEW c \in Conn, StreamSend(c)
  PROVE  CInv'
<1>1. TypeOK'
  <2>1. ASSUME NEW ok, Result(c, ok), UNCHANGED crashed PROVE TypeOK'
    <3>1. crashed' \in BOOLEAN
      BY <2>1 DEF CInv, TypeOK
    <3>2. call' \in [on : Conn \cup {None}, stream : BOOLEAN]
      BY <2>1 DEF Result, NoCall
    <3>3. /\ todo' \subseteq players'
          /\ received' \in [Conn -> {"all", "prefix", "holes"}]
      BY <2>1 DEF CInv, TypeOK, Result
    <3> QED
      BY <2>1, <3>1, <3>2, <3>3 DEF CInv, TypeOK, Result
  <2>2. ASSUME crashed' = TRUE,
               UNCHANGED <<quic, strm, handle, ptr, at, connections, players,
                           todo, call, received>>
        PROVE  TypeOK'
    BY <2>2 DEF CInv, TypeOK
  <2> QED
    BY <2>1, <2>2 DEF StreamSend
<1>2. \A d \in Conn \ {c} : Same(d)
  BY ConnectionAssumption DEF CInv, TypeOK, Same, StreamSend, Result, NoCall
<1>3. Stage(c)'
  BY ConnectionAssumption DEF CInv, TypeOK, Stage, NotYet, StreamStage,
       PlayerStage, ListStage, GoneStage, HandleStage, SendStage, Ended,
       StreamSend, Result, NoCall, Running
<1> QED
  BY <1>1, <1>2, <1>3, OneStep

LEMMA CollectStep ==
  ASSUME CInv, NEW c \in Conn, Collect(c)
  PROVE  CInv'
<1>1. TypeOK'
  BY DEF CInv, TypeOK, Collect
<1>2. \A d \in Conn \ {c} : Same(d)
  BY DEF CInv, TypeOK, Same, Collect
<1>3. Stage(c)'
  BY DEF CInv, TypeOK, Stage, NotYet, StreamStage, PlayerStage, ListStage,
       GoneStage, HandleStage, SendStage, Ended, Collect, Running
<1> QED
  BY <1>1, <1>2, <1>3, OneStep

-----------------------------------------------------------------------------
(* CInv is inductive. *)

LEMMA InitCInv == Init => CInv
<1> SUFFICES ASSUME Init PROVE CInv
  OBVIOUS
<1>1. TypeOK
  <2>1. call \in [on : Conn \cup {None}, stream : BOOLEAN]
    BY DEF Init, NoCall
  <2> QED
    BY <2>1 DEF Init, TypeOK
<1>2. ASSUME NEW c \in Conn PROVE Stage(c)
  BY <1>2, ConnectionAssumption
     DEF Init, NoCall, Stage, NotYet, StreamStage, PlayerStage, ListStage,
       GoneStage, HandleStage, SendStage, Ended, Running
<1> QED
  BY <1>1, <1>2 DEF CInv

LEMMA UpdateNetStep ==
  ASSUME CInv, UpdateNet
  PROVE  CInv'
<1>1. TypeOK'
  BY DEF CInv, TypeOK, UpdateNet
<1>2. \A d \in Conn : Same(d)
  BY DEF Same, UpdateNet
<1> QED
  BY <1>1, <1>2, SameStage DEF CInv

LEMMA StutterStep ==
  ASSUME CInv, UNCHANGED vars
  PROVE  CInv'
<1>1. TypeOK'
  BY DEF CInv, TypeOK, vars
<1>2. \A d \in Conn : Same(d)
  BY DEF Same, vars
<1> QED
  BY <1>1, <1>2, SameStage DEF CInv

LEMMA CallbackStep ==
  ASSUME CInv, NEW c \in Conn, Callback(c)
  PROVE  CInv'
BY ConnectedStep, OpenStep, StartStep, SpawnStep, ListStep, ShutStreamStep,
   ShutConnStep, NullifyStep, CloseStreamStep, CompleteStep, RemoveStep,
   ReleaseStep, DestroyStep, UnlockStep, CloseStep DEF Callback

(* The place of a connection's callback says what MsQuic has of it, and    *)
(* whether its Handle is listed and in memory (server.cpp:31-136).         *)
THEOREM Invariance == Spec => []CInv
<1>1. CInv /\ [Next]_vars => CInv'
  <2> SUFFICES ASSUME CInv, [Next]_vars PROVE CInv'
    OBVIOUS
  <2>1. ASSUME NEW c \in Conn, Callback(c) PROVE CInv'
    BY <2>1, CallbackStep
  <2>2. ASSUME NEW c \in Conn, Network(c) PROVE CInv'
    BY <2>2, AcceptStep, ReceiveStep, AbortStep DEF Network
  <2>3. ASSUME NEW c \in Conn, Lost(c) \/ Gc(c) PROVE CInv'
    BY <2>3, DownStep, CollectStep DEF Lost, Gc
  <2>4. CASE Tick
    BY <2>4, UpdateNetStep, ReadStreamStep, StreamSendStep DEF Tick
  <2>5. CASE UNCHANGED vars
    BY <2>5, StutterStep
  <2> QED
    BY <2>1, <2>2, <2>3, <2>4, <2>5 DEF Next
<1> QED
  BY <1>1, InitCInv, PTL DEF Spec

-----------------------------------------------------------------------------
(* What follows from it. *)

(* A player's callbacks stop before its Handle goes, and its messages stop *)
(* with its stream: the tick, the callbacks and the list of connections    *)
(* find a Connection in memory, and no client gets a message after one     *)
(* that was lost (server.cpp:31-136), for any number of connections.       *)
THEOREM ConnectionsStayRight == Spec => []ConnectionRight
<1>1. CInv => NoHoles
  BY DEF CInv, Stage, SendStage, NoHoles
<1>2. CInv => HandleAlive
  <2> SUFFICES ASSUME CInv, NEW c \in Conn,
                      \/ at[c] \notin {"idle", "close"} \/ Running(c)
                      \/ call.on = c \/ c \in connections,
                      at[c] \notin {"destroy", "unlock"}
               PROVE  handle[c] = "allocated"
    BY DEF HandleAlive
  <2>1. quic[c] \notin {"none", "gone"} /\ at[c] # "close"
    BY DEF CInv, TypeOK, Stage, NotYet, StreamStage, PlayerStage, ListStage,
         GoneStage, SendStage, Running
  <2> QED
    BY <2>1 DEF CInv, Stage, HandleStage
<1> QED
  BY <1>1, <1>2, Invariance, PTL DEF ConnectionRight, CInv

-----------------------------------------------------------------------------
(* The client's program: what MsQuic still has of its connection, and what *)
(* the way its disconnect ended says of that.                              *)

NeverStarted ==
  /\ main = "connect" => clientQuic = "none"
  /\ clientQuic = "none" => ~ conn /\ clientStrm = "none" /\ worker = "idle"
  /\ ~ conn => clientQuic \in {"none", "gone"}

StreamOver == clientStrm \in {"none", "closed"}

WorkerStage ==
  /\ clientStrm \in {"started", "ending"} => clientQuic \in {"connected", "down"}
  /\ worker \in {"data", "shut", "wait", "waitExit"} => ~ StreamOver
  /\ worker = "close" => StreamOver /\ clientQuic = "down"
  /\ worker \in {"onDisconnect", "notify"} => clientQuic = "gone"
  /\ clientQuic = "gone" => worker \in {"onDisconnect", "notify", "idle"}
  /\ clientQuic = "gone" => (worker = "onDisconnect" <=> conn)

DisconnectStage ==
  /\ main \in {"free", "cleanup", "done"} <=> ended # "not"
  /\ client = "freed" => ended # "not"
  /\ ended = "notified" => clientQuic = "gone" /\ worker = "idle"
  /\ ended = "skipped" => \/ clientQuic = "none"
                          \/ clientQuic = "gone" /\ worker \in {"notify", "idle"}

ClientInv == Client!TypeOK /\ NeverStarted /\ WorkerStage /\ DisconnectStage

(* The server's program: the main thread decides what is still in memory,  *)
(* and a Connection that gc has deleted is one whose player is released.   *)

MainStage ==
  /\ world <=> endMain \in {"loop", "stopped"}
  /\ listener <=> endMain \in {"loop", "stopped", "worldless"}
  /\ server = CASE endMain \in {"loop", "stopped"} -> "whole"
                [] endMain \in {"worldless", "closed"} -> "base"
                [] OTHER -> "freed"

HandlesKept ==
  /\ \A c \in Conn : endConn[c] = "none" => endHandle[c] = "none"
  /\ world => /\ \A c \in Conn : endHandle[c] = "freed" => End!Left(c)
              /\ endMisuse \subseteq {"destroy"}

(* A GUI program does not get past the thread it deletes.                  *)
HeadlessStage ==
  endMain \in {"deleted", "waiting", "returned"} =>
    program = "headless" \/ end = "aborted"

EndInv == 
  /\ End!TypeOK /\ MainStage /\ HandlesKept /\ HeadlessStage
  /\ End!AcceptInTime /\ End!ExitClean

LEMMA ClientInit == Client!Init => ClientInv
BY DEF Client!Init, Client!Kinds, ClientInv, Client!TypeOK, NeverStarted,
       StreamOver, WorkerStage, DisconnectStage

LEMMA ClientMainStep ==
  ASSUME ClientInv, Client!Main
  PROVE  ClientInv'
<1> USE DEF ClientInv, Client!TypeOK, Client!Kinds, NeverStarted, StreamOver,
            WorkerStage, DisconnectStage
<1>1. CASE Client!Connect
  <2>1. CASE clientQuic' = "new" /\ conn' = TRUE
    BY <1>1, <2>1 DEF Client!Connect
  <2>2. CASE UNCHANGED <<clientQuic, conn>>
    BY <1>1, <2>2 DEF Client!Connect
  <2> QED
    BY <1>1, <2>1, <2>2 DEF Client!Connect
<1>2. CASE Client!Frame
  BY <1>2 DEF Client!Frame
<1>3. CASE Client!StreamSend
  BY <1>3 DEF Client!StreamSend, Client!Use
<1>4. CASE Client!Destroy
  BY <1>4 DEF Client!Destroy
<1>5. CASE Client!Check
  <2>1. CASE conn /\ main' = "shut" /\ UNCHANGED ended
    BY <1>5, <2>1 DEF Client!Check
  <2>2. CASE ~ conn /\ main' = "free" /\ ended' = "skipped"
    BY <1>5, <2>2 DEF Client!Check
  <2> QED
    BY <1>5, <2>1, <2>2 DEF Client!Check
<1>6. CASE Client!Shut
  BY <1>6 DEF Client!Shut, Client!Use, Client!ShutDown
<1>7. CASE Client!Wake
  BY <1>7 DEF Client!Wake, Client!WaitEnds
<1>8. CASE Client!Free
  BY <1>8 DEF Client!Free
<1>9. CASE Client!Cleanup
  BY <1>9 DEF Client!Cleanup
<1> QED
  BY <1>1, <1>2, <1>3, <1>4, <1>5, <1>6, <1>7, <1>8, <1>9 DEF Client!Main

LEMMA ClientWorkerStep ==
  ASSUME ClientInv, Client!Worker
  PROVE  ClientInv'
<1> USE DEF ClientInv, Client!TypeOK, Client!Kinds, NeverStarted, StreamOver,
            WorkerStage, DisconnectStage
<1>1. CASE Client!Connected
  BY <1>1 DEF Client!Connected, Client!UseClient, Client!Use
<1>2. CASE Client!PeerStream
  BY <1>2 DEF Client!PeerStream, Client!NewStream, Client!UseClient,
     Client!Use
<1>3. CASE Client!Receive
  BY <1>3 DEF Client!Receive, Client!UseClient, Client!Use
<1>4. CASE Client!Taken
  BY <1>4 DEF Client!Taken, Client!Use
<1>5. CASE Client!SelfShut
  BY <1>5 DEF Client!SelfShut, Client!ShutDown, Client!UseClient, Client!Use
<1>6. CASE Client!SelfWake
  BY <1>6 DEF Client!SelfWake, Client!WaitEnds, Client!UseClient, Client!Use
<1>7. CASE Client!Exit
  BY <1>7 DEF Client!Exit, Client!WaitEnds
<1>8. CASE Client!CloseStream
  BY <1>8 DEF Client!CloseStream, Client!UseClient, Client!Use
<1>9. CASE Client!Complete
  BY <1>9 DEF Client!Complete, Client!Order
<1>10. CASE Client!Close
  BY <1>10 DEF Client!Close, Client!Order
<1>11. CASE Client!OnDisconnect
  BY <1>11 DEF Client!OnDisconnect, Client!Order, Client!UseClient,
     Client!Use
<1>12. CASE Client!Notify
  BY <1>12 DEF Client!Notify, Client!Order, Client!UseClient, Client!Use
<1> QED
  BY <1>1, <1>2, <1>3, <1>4, <1>5, <1>6, <1>7, <1>8, <1>9, <1>10, <1>11,
     <1>12 DEF Client!Worker

LEMMA ClientDown ==
  ASSUME ClientInv, Client!Down
  PROVE  ClientInv'
BY DEF ClientInv, Client!TypeOK, Client!Kinds, NeverStarted, StreamOver,
       WorkerStage, DisconnectStage, Client!Down, Client!ShutDown

LEMMA ClientStep == ClientInv /\ [Client!Next]_clientVars => ClientInv'
<1> SUFFICES ASSUME ClientInv, [Client!Next]_clientVars PROVE ClientInv'
  OBVIOUS
<1>1. CASE UNCHANGED clientVars
  BY <1>1 DEF clientVars, ClientInv, Client!TypeOK, Client!Kinds, NeverStarted,
       StreamOver, WorkerStage, DisconnectStage
<1> QED
  BY <1>1, ClientMainStep, ClientWorkerStep, ClientDown
     DEF Client!Next, Client!Network

(* No callback of MsQuic's finds its client deleted, unless disconnect did *)
(* not wait for it.                                                        *)
LEMMA ClientSafe == ClientInv => Client!DeletedLast
BY DEF ClientInv, NeverStarted, WorkerStage, DisconnectStage, StreamOver,
       Client!TypeOK, Client!DeletedLast, Client!CallbacksOver

-----------------------------------------------------------------------------

LEMMA EndInit == End!Init => EndInv
BY DEF End!Init, EndInv, End!TypeOK, MainStage, HandlesKept, HeadlessStage,
       End!AcceptInTime, End!ExitClean

LEMMA EndCollect ==
  ASSUME EndInv, End!Collect
  PROVE  EndInv'
<1>1. End!TypeOK'
  BY DEF EndInv, End!TypeOK, MainStage, HandlesKept, End!Collect, End!Kept,
     End!Left
<1>2. MainStage'
  BY DEF EndInv, MainStage, End!TypeOK, End!Collect, End!Kept, End!Left
<1>3. HandlesKept'
  BY DEF EndInv, MainStage, HandlesKept, End!TypeOK, End!Collect, End!Kept,
     End!Left
<1>4. HeadlessStage' /\ End!AcceptInTime' /\ End!ExitClean'
  BY DEF EndInv, MainStage, HeadlessStage, End!AcceptInTime, End!ExitClean,
     End!TypeOK, End!Collect, End!Kept, End!Left
<1> QED
  BY <1>1, <1>2, <1>3, <1>4 DEF EndInv

LEMMA EndInterrupt ==
  ASSUME EndInv, End!Interrupt
  PROVE  EndInv'
<1>1. End!TypeOK'
  BY DEF EndInv, End!TypeOK, MainStage, HandlesKept, End!Left, End!Interrupt
<1>2. MainStage'
  BY DEF EndInv, MainStage, End!TypeOK, End!Interrupt
<1>3. HandlesKept'
  BY DEF EndInv, MainStage, HandlesKept, End!Left, End!TypeOK, End!Interrupt
<1>4. HeadlessStage' /\ End!AcceptInTime' /\ End!ExitClean'
  BY DEF EndInv, MainStage, HeadlessStage, End!AcceptInTime, End!ExitClean,
     End!TypeOK, End!Interrupt
<1> QED
  BY <1>1, <1>2, <1>3, <1>4 DEF EndInv

LEMMA EndDeleteWorld ==
  ASSUME EndInv, End!DeleteWorld
  PROVE  EndInv'
<1>1. End!TypeOK'
  BY DEF EndInv, End!TypeOK, MainStage, HandlesKept, End!Left, End!DeleteWorld
<1>2. MainStage'
  BY DEF EndInv, MainStage, End!TypeOK, End!DeleteWorld
<1>3. HandlesKept'
  BY DEF EndInv, MainStage, HandlesKept, End!Left, End!TypeOK, End!DeleteWorld
<1>4. HeadlessStage' /\ End!AcceptInTime' /\ End!ExitClean'
  BY DEF EndInv, MainStage, HeadlessStage, End!AcceptInTime, End!ExitClean,
     End!TypeOK, End!DeleteWorld
<1> QED
  BY <1>1, <1>2, <1>3, <1>4 DEF EndInv

LEMMA EndCloseListener ==
  ASSUME EndInv, End!CloseListener
  PROVE  EndInv'
<1>1. End!TypeOK'
  BY DEF EndInv, End!TypeOK, MainStage, HandlesKept, End!Left, End!CloseListener,
     End!Stop
<1>2. MainStage'
  BY DEF EndInv, MainStage, End!TypeOK, End!CloseListener, End!Stop
<1>3. HandlesKept'
  BY DEF EndInv, MainStage, HandlesKept, End!Left, End!TypeOK, End!CloseListener,
     End!Stop
<1>4. HeadlessStage' /\ End!AcceptInTime' /\ End!ExitClean'
  BY DEF EndInv, MainStage, HeadlessStage, End!AcceptInTime, End!ExitClean,
     End!TypeOK, End!CloseListener, End!Stop
<1> QED
  BY <1>1, <1>2, <1>3, <1>4 DEF EndInv

LEMMA EndDeleteServer ==
  ASSUME EndInv, End!DeleteServer
  PROVE  EndInv'
<1>1. End!TypeOK'
  BY DEF EndInv, End!TypeOK, MainStage, HandlesKept, End!Left, End!DeleteServer
<1>2. MainStage'
  BY DEF EndInv, MainStage, End!TypeOK, End!DeleteServer
<1>3. HandlesKept'
  BY DEF EndInv, MainStage, HandlesKept, End!Left, End!TypeOK, End!DeleteServer
<1>4. HeadlessStage' /\ End!AcceptInTime' /\ End!ExitClean'
  BY ProgramsAssumption
     DEF EndInv, MainStage, HeadlessStage, End!AcceptInTime, End!ExitClean,
     End!TypeOK, End!DeleteServer
<1> QED
  BY <1>1, <1>2, <1>3, <1>4 DEF EndInv

LEMMA EndCleanup ==
  ASSUME EndInv, End!Cleanup
  PROVE  EndInv'
<1>1. End!TypeOK'
  BY DEF EndInv, End!TypeOK, MainStage, HandlesKept, End!Left, End!Cleanup
<1>2. MainStage'
  BY DEF EndInv, MainStage, End!TypeOK, End!Cleanup
<1>3. HandlesKept'
  BY DEF EndInv, MainStage, HandlesKept, End!Left, End!TypeOK, End!Cleanup
<1>4. HeadlessStage' /\ End!AcceptInTime' /\ End!ExitClean'
  BY DEF EndInv, MainStage, HeadlessStage, End!AcceptInTime, End!ExitClean,
     End!TypeOK, End!Cleanup
<1> QED
  BY <1>1, <1>2, <1>3, <1>4 DEF EndInv

LEMMA EndReturn ==
  ASSUME EndInv, End!Return
  PROVE  EndInv'
<1>1. End!TypeOK'
  BY DEF EndInv, End!TypeOK, MainStage, HandlesKept, End!Left, End!Return,
     End!Outstanding
<1>2. MainStage'
  BY DEF EndInv, MainStage, End!TypeOK, End!Return, End!Outstanding
<1>3. HandlesKept'
  BY DEF EndInv, MainStage, HandlesKept, End!Left, End!TypeOK, End!Return,
     End!Outstanding
<1>4. HeadlessStage' /\ End!AcceptInTime' /\ End!ExitClean'
  BY DEF EndInv, MainStage, HeadlessStage, End!AcceptInTime, End!ExitClean,
     End!TypeOK, End!Return, End!Outstanding
<1> QED
  BY <1>1, <1>2, <1>3, <1>4 DEF EndInv

LEMMA EndFrame ==
  ASSUME EndInv, End!Frame
  PROVE  EndInv'
<1>1. End!TypeOK'
  BY DEF EndInv, End!TypeOK, MainStage, HandlesKept, End!Left, End!Frame, End!Use
<1>2. MainStage'
  BY DEF EndInv, MainStage, End!TypeOK, End!Frame, End!Use
<1>3. HandlesKept'
  BY DEF EndInv, MainStage, HandlesKept, End!Left, End!TypeOK, End!Frame, End!Use
<1>4. HeadlessStage' /\ End!AcceptInTime' /\ End!ExitClean'
  BY DEF EndInv, MainStage, HeadlessStage, End!AcceptInTime, End!ExitClean,
     End!TypeOK, End!Frame, End!Use
<1> QED
  BY <1>1, <1>2, <1>3, <1>4 DEF EndInv

LEMMA EndCloseWindow ==
  ASSUME EndInv, End!CloseWindow
  PROVE  EndInv'
<1>1. End!TypeOK'
  BY DEF EndInv, End!TypeOK, MainStage, HandlesKept, End!Left, End!CloseWindow
<1>2. MainStage'
  BY DEF EndInv, MainStage, End!TypeOK, End!CloseWindow
<1>3. HandlesKept'
  BY DEF EndInv, MainStage, HandlesKept, End!Left, End!TypeOK, End!CloseWindow
<1>4. HeadlessStage' /\ End!AcceptInTime' /\ End!ExitClean'
  BY DEF EndInv, MainStage, HeadlessStage, End!AcceptInTime, End!ExitClean,
     End!TypeOK, End!CloseWindow
<1> QED
  BY <1>1, <1>2, <1>3, <1>4 DEF EndInv

LEMMA EndAccept ==
  ASSUME EndInv, NEW c \in Conn, End!Accept(c)
  PROVE  EndInv'
<1>1. End!TypeOK'
  BY DEF EndInv, End!TypeOK, MainStage, HandlesKept, End!Left, End!Accept, End!Use
<1>2. MainStage'
  BY DEF EndInv, MainStage, End!TypeOK, End!Accept, End!Use
<1>3. HandlesKept'
  BY DEF EndInv, MainStage, HandlesKept, End!Left, End!TypeOK, End!Accept, End!Use
<1>4. HeadlessStage' /\ End!AcceptInTime' /\ End!ExitClean'
  BY DEF EndInv, MainStage, HeadlessStage, End!AcceptInTime, End!ExitClean,
     End!TypeOK, End!Accept, End!Use
<1> QED
  BY <1>1, <1>2, <1>3, <1>4 DEF EndInv

LEMMA EndConnected ==
  ASSUME EndInv, NEW c \in Conn, End!Connected(c)
  PROVE  EndInv'
<1>1. End!TypeOK'
  BY DEF EndInv, End!TypeOK, MainStage, HandlesKept, End!Left, End!Connected, End!Use
<1>2. MainStage'
  BY DEF EndInv, MainStage, End!TypeOK, End!Connected, End!Use
<1>3. HandlesKept'
  BY DEF EndInv, MainStage, HandlesKept, End!Left, End!TypeOK, End!Connected, End!Use
<1>4. HeadlessStage' /\ End!AcceptInTime' /\ End!ExitClean'
  BY DEF EndInv, MainStage, HeadlessStage, End!AcceptInTime, End!ExitClean,
     End!TypeOK, End!Connected, End!Use
<1> QED
  BY <1>1, <1>2, <1>3, <1>4 DEF EndInv

LEMMA EndStreamless ==
  ASSUME EndInv, NEW c \in Conn, End!Streamless(c)
  PROVE  EndInv'
<1>1. End!TypeOK'
  BY DEF EndInv, End!TypeOK, MainStage, HandlesKept, End!Left, End!Streamless
<1>2. MainStage'
  BY DEF EndInv, MainStage, End!TypeOK, End!Streamless
<1>3. HandlesKept'
  BY DEF EndInv, MainStage, HandlesKept, End!Left, End!TypeOK, End!Streamless
<1>4. HeadlessStage' /\ End!AcceptInTime' /\ End!ExitClean'
  BY DEF EndInv, MainStage, HeadlessStage, End!AcceptInTime, End!ExitClean,
     End!TypeOK, End!Streamless
<1> QED
  BY <1>1, <1>2, <1>3, <1>4 DEF EndInv

LEMMA EndReceive ==
  ASSUME EndInv, NEW c \in Conn, End!Receive(c)
  PROVE  EndInv'
<1>1. End!TypeOK'
  BY DEF EndInv, End!TypeOK, MainStage, HandlesKept, End!Left, End!Receive, End!Use
<1>2. MainStage'
  BY DEF EndInv, MainStage, End!TypeOK, End!Receive, End!Use
<1>3. HandlesKept'
  BY DEF EndInv, MainStage, HandlesKept, End!Left, End!TypeOK, End!Receive, End!Use
<1>4. HeadlessStage' /\ End!AcceptInTime' /\ End!ExitClean'
  BY DEF EndInv, MainStage, HeadlessStage, End!AcceptInTime, End!ExitClean,
     End!TypeOK, End!Receive, End!Use
<1> QED
  BY <1>1, <1>2, <1>3, <1>4 DEF EndInv

LEMMA EndLose ==
  ASSUME EndInv, NEW c \in Conn, End!Lose(c)
  PROVE  EndInv'
<1>1. End!TypeOK'
  BY DEF EndInv, End!TypeOK, MainStage, HandlesKept, End!Left, End!Lose
<1>2. MainStage'
  BY DEF EndInv, MainStage, End!TypeOK, End!Lose
<1>3. HandlesKept'
  BY DEF EndInv, MainStage, HandlesKept, End!Left, End!TypeOK, End!Lose
<1>4. HeadlessStage' /\ End!AcceptInTime' /\ End!ExitClean'
  BY DEF EndInv, MainStage, HeadlessStage, End!AcceptInTime, End!ExitClean,
     End!TypeOK, End!Lose
<1> QED
  BY <1>1, <1>2, <1>3, <1>4 DEF EndInv

LEMMA EndComplete ==
  ASSUME EndInv, NEW c \in Conn, End!Complete(c)
  PROVE  EndInv'
<1>1. End!TypeOK'
  BY DEF EndInv, End!TypeOK, MainStage, HandlesKept, End!Left, End!Complete, End!Use
<1>2. MainStage'
  BY DEF EndInv, MainStage, End!TypeOK, End!Complete, End!Use
<1>3. HandlesKept'
  BY DEF EndInv, MainStage, HandlesKept, End!Left, End!TypeOK, End!Complete, End!Use
<1>4. HeadlessStage' /\ End!AcceptInTime' /\ End!ExitClean'
  BY DEF EndInv, MainStage, HeadlessStage, End!AcceptInTime, End!ExitClean,
     End!TypeOK, End!Complete, End!Use
<1> QED
  BY <1>1, <1>2, <1>3, <1>4 DEF EndInv

LEMMA EndDestroy ==
  ASSUME EndInv, NEW c \in Conn, End!Destroy(c)
  PROVE  EndInv'
<1>1. End!TypeOK'
  BY DEF EndInv, End!TypeOK, MainStage, HandlesKept, End!Left, End!Destroy, End!Use,
     End!AfterShutdown
<1>2. MainStage'
  BY DEF EndInv, MainStage, End!TypeOK, End!Destroy, End!Use,
     End!AfterShutdown
<1>3. HandlesKept'
  BY DEF EndInv, MainStage, HandlesKept, End!Left, End!TypeOK, End!Destroy, End!Use,
     End!AfterShutdown
<1>4. HeadlessStage' /\ End!AcceptInTime' /\ End!ExitClean'
  BY DEF EndInv, MainStage, HeadlessStage, End!AcceptInTime, End!ExitClean,
     End!TypeOK, End!Destroy, End!Use, End!AfterShutdown
<1> QED
  BY <1>1, <1>2, <1>3, <1>4 DEF EndInv

LEMMA EndStep == EndInv /\ [End!Next]_endVars => EndInv'
<1> SUFFICES ASSUME EndInv, [End!Next]_endVars PROVE EndInv'
  OBVIOUS
<1>1. CASE UNCHANGED endVars
  BY <1>1 DEF endVars, EndInv, End!TypeOK, MainStage, HandlesKept, End!Left,
       HeadlessStage, End!AcceptInTime, End!ExitClean
<1>2. CASE End!Ended
  BY <1>1, <1>2 DEF End!Ended, End!vars, endVars
<1>3. CASE End!Collect \/ End!Interrupt \/ End!Main \/ End!Frame \/ End!CloseWindow
  BY <1>3, EndCollect, EndInterrupt, EndDeleteWorld, EndCloseListener,
     EndDeleteServer, EndCleanup, EndReturn, EndFrame, EndCloseWindow DEF
     End!Main
<1>4. ASSUME NEW c \in Conn, End!Callback(c) PROVE EndInv'
  BY <1>4, EndAccept, EndConnected, EndStreamless, EndReceive, EndLose,
     EndComplete, EndDestroy DEF End!Callback
<1> QED
  BY <1>1, <1>2, <1>3, <1>4 DEF End!Next

LEMMA EndSafe == EndInv => End!SafeWhileRunning
BY DEF EndInv, MainStage, HandlesKept, End!SafeWhileRunning

(* How far the main thread has come says what is still in memory, at the   *)
(* client and at the two servers, whatever MsQuic calls meanwhile.         *)
THEOREM ProgramsInvariance == PartsSpec => [](ClientInv /\ EndInv)
<1>1. PartsInit => ClientInv /\ EndInv
  BY ClientInit, EndInit DEF PartsInit
<1>2. ClientInv /\ EndInv /\ [PartsNext]_<<part, vars, clientVars, endVars>>
        => (ClientInv /\ EndInv)'
  BY ClientStep, EndStep DEF PartsNext
<1> QED
  BY <1>1, <1>2, PTL DEF PartsSpec

(***************************************************************************)
(* For any number of connections: the client is deleted after its last     *)
(* callback, but for the two ways DeletedLast names; at the server nothing *)
(* uses freed memory until main deletes the world, but for the end of an   *)
(* onDisconnect whose player gc has taken in the meantime; the listener is *)
(* never late, and only a headless server whose connections have all been  *)
(* closed ends in good order (client.cpp:87-91, 222-230; world.cpp:246-251;*)
(* server.hpp:76).                                                         *)
(***************************************************************************)
THEOREM ProgramsStaySafe == PartsSpec => []ProgramsSafe
<1>1. ClientInv /\ EndInv => ProgramsSafe
  BY ClientSafe, EndSafe DEF ProgramsSafe, ClientInv, EndInv
<1> QED
  BY <1>1, ProgramsInvariance, PTL
=============================================================================
