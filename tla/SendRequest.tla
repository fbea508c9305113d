---------------------------- MODULE SendRequest ----------------------------
(***************************************************************************)
(* The life of a QuicServer::SendReq (network/quic/server.hpp): allocated  *)
(* by send or broadcast, lent to MsQuic by StreamSend, and deleted by      *)
(* whichever SEND_COMPLETE callback takes its count from 1 to 0.           *)
(* broadcast lends one request to many streams; its loop and the callbacks *)
(* of the streams it has already served run at the same time.              *)
(*                                                                         *)
(* MsQuic returns every request it accepted exactly once, callbacks of one *)
(* connection are serialised, and a connection leaves the list only after  *)
(* its sends have been returned.                                           *)
(***************************************************************************)
EXTENDS Integers, FiniteSets

CONSTANTS
  Conn,   \* connections
  Req,    \* heap addresses `new SendReq` may return
  None    \* no request

ASSUME SendAssumption == IsFiniteSet(Conn) /\ None \notin Req

VARIABLES
  live,         \* the requests allocated at present
  ref,          \* RefCounter::ref, an atomic<uint32_t>
  connections,  \* QuicServer::connections
  pending,      \* pending[c]: requests MsQuic holds for the stream of c
  callback,     \* callback[c]: the SEND_COMPLETE that runs on c, if any
  cast,         \* the request broadcast is sending; it holds the mutex m
  todo          \* the connections its loop has not come to yet

vars == <<live, ref, connections, pending, callback, cast, todo>>

(* A callback: its request, the value of ref it has seen, and its place.   *)
Idle == [at |-> "idle", req |-> None, seen |-> 0]

Callback == [at : {"idle", "loaded", "deleting"}, req : Req \cup {None},
             seen : Nat]

TypeOK ==
  /\ live \subseteq Req
  /\ ref \in [Req -> Nat]
  /\ connections \subseteq Conn
  /\ pending \in [Conn -> SUBSET Req]
  /\ callback \in [Conn -> Callback]
  /\ cast \in Req \cup {None}
  /\ todo \subseteq Conn

Init ==
  /\ live = {} /\ ref = [r \in Req |-> 0]
  /\ connections = {}
  /\ pending = [c \in Conn |-> {}]
  /\ callback = [c \in Conn |-> Idle]
  /\ cast = None /\ todo = {}

-----------------------------------------------------------------------------
(* connections.push_back and remove, under m. *)
Join(c) ==
  /\ cast = None /\ c \notin connections
  /\ connections' = connections \cup {c}
  /\ UNCHANGED <<live, ref, pending, callback, cast, todo>>

Quiet(c) == pending[c] = {} /\ callback[c] = Idle

Leave(c) ==
  /\ cast = None /\ c \in connections /\ Quiet(c)
  /\ connections' = connections \ {c}
  /\ UNCHANGED <<live, ref, pending, callback, cast, todo>>

New(r, count) ==
  /\ r \notin live
  /\ live' = live \cup {r}
  /\ ref' = [ref EXCEPT ![r] = count]

(* Connection::send: a request that StreamSend refuses is deleted at once. *)
Send(c, r) ==
  /\ New(r, 1) /\ pending' = [pending EXCEPT ![c] = @ \cup {r}]
  /\ UNCHANGED <<connections, callback, cast, todo>>

BugInitialCount == 1                   \* one count for all connections

InitialCount == Cardinality(connections)

(* broadcast does nothing if nobody is connected. *)
Broadcast(r) ==
  /\ cast = None /\ connections # {}
  /\ New(r, InitialCount)
  /\ cast' = r /\ todo' = connections
  /\ UNCHANGED <<connections, pending, callback>>

(* One round of the loop; the last one ends broadcast and unlocks m. *)
Done(c) ==
  /\ todo' = todo \ {c}
  /\ cast' = IF todo = {c} THEN None ELSE cast

SendAccepted(c) ==
  /\ c \in todo /\ Done(c)
  /\ pending' = [pending EXCEPT ![c] = @ \cup {cast}]
  /\ UNCHANGED <<live, ref, connections, callback>>

BugCountAfterFailure == ref[cast]      \* without req->ref--

CountAfterFailure == ref[cast] - 1

SendFailed(c) ==
  /\ c \in todo /\ Done(c)
  /\ ref' = [ref EXCEPT ![cast] = CountAfterFailure]
  /\ UNCHANGED <<live, connections, pending, callback>>

-----------------------------------------------------------------------------
(* QUIC_STREAM_EVENT_SEND_COMPLETE. *)

Load(c) ==
  /\ callback[c] = Idle
  /\ \E r \in pending[c] :
       /\ pending' = [pending EXCEPT ![c] = @ \ {r}]
       /\ callback' = [callback EXCEPT
                         ![c] = [at |-> "loaded", req |-> r, seen |-> ref[r]]]
  /\ UNCHANGED <<live, ref, connections, cast, todo>>

Mine(c) == callback[c].req

(* compare_exchange_weak: it may also fail without cause, and then the     *)
(* load that follows sees what the one before has seen.                    *)
BugUnchanged(c) == TRUE                \* ref = c - 1 without comparing

Unchanged(c) == ref[Mine(c)] = callback[c].seen

BugAfterSwap(c) ==                     \* if (c == 0)
  IF callback[c].seen = 0 THEN [callback[c] EXCEPT !.at = "deleting"] ELSE Idle

AfterSwap(c) ==
  IF callback[c].seen = 1 THEN [callback[c] EXCEPT !.at = "deleting"] ELSE Idle

Swap(c) ==
  /\ callback[c].at = "loaded" /\ Unchanged(c)
  /\ ref' = [ref EXCEPT ![Mine(c)] = callback[c].seen - 1]
  /\ callback' = [callback EXCEPT ![c] = AfterSwap(c)]
  /\ UNCHANGED <<live, connections, pending, cast, todo>>

Reload(c) ==
  /\ callback[c].at = "loaded" /\ ~ Unchanged(c)
  /\ callback' = [callback EXCEPT ![c].seen = ref[Mine(c)]]
  /\ UNCHANGED <<live, ref, connections, pending, cast, todo>>

Delete(c) ==
  /\ callback[c].at = "deleting"
  /\ live' = live \ {Mine(c)}
  /\ callback' = [callback EXCEPT ![c] = Idle]
  /\ UNCHANGED <<ref, connections, pending, cast, todo>>

Loop == \E c \in Conn : SendAccepted(c) \/ SendFailed(c)

Complete(c) == Load(c) \/ Swap(c) \/ Reload(c) \/ Delete(c)

Next ==
  \/ \E c \in Conn : Join(c) \/ Leave(c) \/ Complete(c)
  \/ \E c \in Conn, r \in Req : Send(c, r)
  \/ \E r \in Req : Broadcast(r)
  \/ Loop

Spec == Init /\ [][Next]_vars

(* The loop ends, MsQuic returns what it has accepted, callbacks run.      *)
FairSpec ==
  /\ Spec
  /\ WF_vars(Loop)
  /\ \A c \in Conn : WF_vars(Complete(c))
  /\ \A c \in Conn, r \in Req :
       SF_vars(Load(c) /\ r \in pending[c] /\ r \notin pending'[c])

-----------------------------------------------------------------------------
(* Properties. *)

(* Who will still count r down: streams that have it, and broadcast.       *)
Lent(r) ==
  {c \in Conn : r \in pending[c] \/ (Mine(c) = r /\ callback[c].at = "loaded")}

Unserved(r) == IF cast = r THEN todo ELSE {}

Deleting(r) == {c \in Conn : Mine(c) = r /\ callback[c].at = "deleting"}

(***************************************************************************)
(* Whoever can still touch a request, MsQuic, a callback between its load  *)
(* and its delete, or the loop of broadcast, finds it allocated, and no    *)
(* two callbacks delete the same one (server.cpp:38-42, 313-319).          *)
(***************************************************************************)
NeverDangles ==
  \A r \in Req :
    /\ Lent(r) \cup Unserved(r) \cup Deleting(r) # {} => r \in live
    /\ \A c, d \in Deleting(r) : c = d

(***************************************************************************)
(* The count is the number of those who will still count down, whatever    *)
(* sends failed or were returned before the loop came to the next          *)
(* connection: it never reaches 0 early and never wraps.                   *)
(***************************************************************************)
Counted ==
  \A r \in live : ref[r] = Cardinality(Lent(r)) + Cardinality(Unserved(r))

(***************************************************************************)
(* A request's count as a whole: it counts those who still need the        *)
(* request, and lives as long as any of them does (server.cpp:38-42,       *)
(* 301-322).                                                               *)
(***************************************************************************)
RequestsCounted == TypeOK /\ Counted /\ NeverDangles

(***************************************************************************)
(* A request nobody will ever delete.  broadcast brings one about when the *)
(* send that fails is the last to be counted, and nothing else does        *)
(* (server.cpp:315-318).                                                   *)
(***************************************************************************)
Abandoned(r) ==
  r \in live /\ Lent(r) \cup Unserved(r) \cup Deleting(r) = {}

LeaksOnlyOnFailure ==
  [][\A r \in Req :
       Abandoned(r)' => Abandoned(r) \/ \E c \in todo : SendFailed(c)]_vars

(***************************************************************************)
(* Every request is deleted in the end, but for those whose count broadcast *)
(* itself has taken to 0.                                                  *)
(***************************************************************************)
Freed ==
  \A r \in Req :
    r \in live ~> r \notin live \/ (Abandoned(r) /\ ref[r] = 0)
=============================================================================
