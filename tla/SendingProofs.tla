--------------------------- MODULE SendingProofs ---------------------------
(***************************************************************************)
(* Proofs about what the server sends to several clients.  For any number  *)
(* of connections and requests the count of a request is right at every    *)
(* moment of every race between broadcast's loop and the callbacks, so it  *)
(* is deleted once and in time.  For any number of players every client    *)
(* takes its own pid for its own, and once it shows a player that stays it *)
(* goes on to, although a pid may be shared with one that is leaving.      *)
(***************************************************************************)
EXTENDS MCSending, TLAPS, FiniteSetTheorems, SequenceTheorems, WellFoundedInduction

-----------------------------------------------------------------------------
(* The invariant. *)

(* A request is known to those who will count down, or to the one who has  *)
(* counted down to 0.                                                      *)
ReqInv(r) ==
  /\ r \in live => ref[r] = Cardinality(Lent(r)) + Cardinality(Unserved(r))
  /\ Lent(r) \cup Unserved(r) \cup Deleting(r) # {} => r \in live
  /\ Deleting(r) # {} => Lent(r) \cup Unserved(r) = {}
  /\ \A c, d \in Deleting(r) : c = d
  /\ Lent(r) \cap Unserved(r) = {}

(* A callback has taken its request out of MsQuic's hands. *)
CallbackInv ==
  \A c \in Conn :
    \/ callback[c] = Idle
    \/ /\ callback[c].at \in {"loaded", "deleting"}
       /\ Mine(c) \in Req
       /\ callback[c].at = "loaded" => Mine(c) \notin pending[c]

CastInv == cast = None <=> todo = {}

SInv ==
  /\ TypeOK
  /\ CallbackInv
  /\ CastInv
  /\ \A r \in Req : ReqInv(r)

-----------------------------------------------------------------------------
(* Facts about finite sets. *)

LEMMA ConnFinite ==
  ASSUME NEW S \in SUBSET Conn
  PROVE  IsFiniteSet(S) /\ Cardinality(S) \in Nat
BY SendAssumption, FS_Subset, FS_CardinalityType

LEMMA WithOne ==
  ASSUME NEW S \in SUBSET Conn, NEW c \in Conn \ S
  PROVE  Cardinality(S \cup {c}) = Cardinality(S) + 1
BY ConnFinite, FS_AddElement

LEMMA WithoutOne ==
  ASSUME NEW S \in SUBSET Conn, NEW c \in S
  PROVE  Cardinality(S \ {c}) = Cardinality(S) - 1
BY ConnFinite, FS_RemoveElement

(* Nobody is left if the count is 0. *)
LEMMA NoneLeft ==
  ASSUME NEW S \in SUBSET Conn, NEW T \in SUBSET Conn,
         Cardinality(S) + Cardinality(T) = 0
  PROVE  S = {} /\ T = {}
<1>1. Cardinality(S) = 0 /\ Cardinality(T) = 0
  BY ConnFinite
<1> QED
  BY <1>1, ConnFinite, FS_EmptySet

LEMMA NobodyCounts == Cardinality({}) = 0
BY FS_EmptySet

(* Who knows a request are connections. *)
LEMMA Knowers ==
  ASSUME TypeOK, NEW r \in Req
  PROVE  /\ Lent(r) \in SUBSET Conn /\ Unserved(r) \in SUBSET Conn
         /\ Deleting(r) \in SUBSET Conn
BY DEF TypeOK, Lent, Unserved, Deleting

-----------------------------------------------------------------------------
(* SInv is inductive. *)

(* A step that concerns other requests. *)
Untouched(r) ==
  /\ r \in live' <=> r \in live
  /\ ref'[r] = ref[r]
  /\ Lent(r)' = Lent(r)
  /\ Unserved(r)' = Unserved(r)
  /\ Deleting(r)' = Deleting(r)

LEMMA UntouchedInv ==
  ASSUME NEW r \in Req, ReqInv(r), Untouched(r)
  PROVE  ReqInv(r)'
BY DEF ReqInv, Untouched

LEMMA SendInit == Init => SInv
<1> SUFFICES ASSUME Init PROVE SInv
  OBVIOUS
<1>1. TypeOK
  BY DEF Init, TypeOK, Callback, Idle
<1>2. CallbackInv /\ CastInv
  BY DEF Init, CallbackInv, CastInv
<1>3. ASSUME NEW r \in Req PROVE ReqInv(r)
  <2>1. Lent(r) = {} /\ Unserved(r) = {} /\ Deleting(r) = {}
    BY SendAssumption DEF Init, Lent, Unserved, Deleting, Mine, Idle
  <2> QED
    BY <2>1 DEF Init, ReqInv
<1> QED
  BY <1>1, <1>2, <1>3 DEF SInv

LEMMA JoinLeaveInv ==
  ASSUME SInv, NEW c \in Conn, Join(c) \/ Leave(c)
  PROVE  SInv'
<1>1. /\ UNCHANGED <<live, ref, pending, callback, cast, todo>>
      /\ connections' \subseteq Conn
  BY DEF SInv, TypeOK, Join, Leave
<1>2. TypeOK' /\ CallbackInv' /\ CastInv'
  BY <1>1 DEF SInv, TypeOK, CallbackInv, CastInv, Mine
<1>3. \A r \in Req : Untouched(r)
  BY <1>1 DEF Untouched, Lent, Unserved, Deleting, Mine
<1> QED
  BY <1>2, <1>3, UntouchedInv DEF SInv

(* Nobody knows an address that is free. *)
LEMMA FreeUnknown ==
  ASSUME SInv, NEW r \in Req, r \notin live
  PROVE  /\ Lent(r) = {} /\ Unserved(r) = {} /\ Deleting(r) = {}
         /\ cast # r
<1>1. Lent(r) = {} /\ Unserved(r) = {} /\ Deleting(r) = {}
  BY DEF SInv, ReqInv
<1>2. cast # r
  BY <1>1, SendAssumption DEF Unserved, SInv, CastInv
<1> QED
  BY <1>1, <1>2

LEMMA SendInv ==
  ASSUME SInv, NEW c \in Conn, NEW r \in Req, Send(c, r)
  PROVE  SInv'
<1>1. /\ r \notin live /\ live' = live \cup {r}
      /\ ref' = [ref EXCEPT ![r] = 1]
      /\ pending' = [pending EXCEPT ![c] = @ \cup {r}]
      /\ UNCHANGED <<connections, callback, cast, todo>>
  BY DEF Send, New
<1>2. /\ Lent(r) = {} /\ Unserved(r) = {} /\ Deleting(r) = {} /\ cast # r
  BY <1>1, FreeUnknown
<1>3. TypeOK' /\ CastInv'
  BY <1>1 DEF SInv, TypeOK, CastInv
<1>4. CallbackInv'
  <2> SUFFICES ASSUME NEW d \in Conn PROVE CallbackInv!(d)'
    BY DEF CallbackInv
  <2>1. callback[d].at = "loaded" => Mine(d) # r
    BY <1>2 DEF Lent
  <2> QED
    BY <1>1, <2>1 DEF SInv, CallbackInv, TypeOK, Mine, Idle
<1>5. ReqInv(r)'
  <2>1. Lent(r)' = {c} /\ Unserved(r)' = {} /\ Deleting(r)' = {}
    BY <1>1, <1>2 DEF Lent, Unserved, Deleting, Mine, SInv, TypeOK
  <2>2. Cardinality({c}) = 1 /\ Cardinality({}) = 0
    BY FS_Singleton, NobodyCounts
  <2>3. ref'[r] = 1 /\ r \in live'
    BY <1>1 DEF SInv, TypeOK
  <2> QED
    BY <2>1, <2>2, <2>3 DEF ReqInv
<1>6. \A q \in Req \ {r} : Untouched(q)
  BY <1>1 DEF Untouched, Lent, Unserved, Deleting, Mine, SInv, TypeOK
<1> QED
  BY <1>3, <1>4, <1>5, <1>6, UntouchedInv DEF SInv

LEMMA BroadcastInv ==
  ASSUME SInv, NEW r \in Req, Broadcast(r)
  PROVE  SInv'
<1>1. /\ r \notin live /\ live' = live \cup {r}
      /\ ref' = [ref EXCEPT ![r] = InitialCount]
      /\ cast = None /\ cast' = r
      /\ connections # {} /\ todo' = connections
      /\ UNCHANGED <<connections, pending, callback>>
  BY DEF Broadcast, New
<1>2. Lent(r) = {} /\ Deleting(r) = {}
  BY <1>1, FreeUnknown
<1>3. connections \in SUBSET Conn /\ InitialCount \in Nat
  BY ConnFinite DEF SInv, TypeOK, InitialCount
<1>4. TypeOK' /\ CallbackInv' /\ CastInv'
  BY <1>1, <1>3, SendAssumption DEF SInv, TypeOK, CallbackInv, CastInv, Mine
<1>5. ReqInv(r)'
  <2>1. Lent(r)' = {} /\ Unserved(r)' = connections /\ Deleting(r)' = {}
    BY <1>1, <1>2 DEF Lent, Unserved, Deleting, Mine
  <2>2. ref'[r] = Cardinality(connections) /\ r \in live'
    BY <1>1 DEF SInv, TypeOK, InitialCount
  <2>3. Cardinality(connections) \in Nat
    BY <1>3 DEF InitialCount
  <2> QED
    BY <2>1, <2>2, <2>3, NobodyCounts DEF ReqInv
<1>6. \A q \in Req \ {r} : Untouched(q)
  BY <1>1, SendAssumption
     DEF Untouched, Lent, Unserved, Deleting, Mine, SInv, TypeOK
<1> QED
  BY <1>4, <1>5, <1>6, UntouchedInv DEF SInv

(* One round of the loop: c has been served. *)
LEMMA ServedOne ==
  ASSUME SInv, NEW c \in todo, Done(c)
  PROVE  /\ cast \in Req /\ cast \in live
         /\ Unserved(cast) = todo
         /\ c \in Conn /\ c \notin Lent(cast) /\ Deleting(cast) = {}
         /\ cast' \in Req \cup {None} /\ todo' \subseteq Conn /\ CastInv'
         /\ \A r \in Req : Unserved(r)' = Unserved(r) \ {c}
<1>1. cast \in Req
  BY DEF SInv, TypeOK, CastInv
<1>2. Unserved(cast) = todo
  BY DEF Unserved
<1>3. cast \in live /\ c \notin Lent(cast) /\ Deleting(cast) = {}
  BY <1>1, <1>2 DEF SInv, ReqInv
<1>4. c \in Conn /\ todo' \subseteq Conn /\ cast' \in Req \cup {None}
  BY DEF SInv, TypeOK, Done
<1>5. CastInv'
  BY <1>1, SendAssumption DEF Done, CastInv
<1>6. \A r \in Req : Unserved(r)' = Unserved(r) \ {c}
  BY <1>1, SendAssumption DEF Done, Unserved
<1> QED
  BY <1>1, <1>2, <1>3, <1>4, <1>5, <1>6

LEMMA AcceptedInv ==
  ASSUME SInv, NEW c \in Conn, SendAccepted(c)
  PROVE  SInv'
<1>1. /\ c \in todo /\ Done(c)
      /\ pending' = [pending EXCEPT ![c] = @ \cup {cast}]
      /\ UNCHANGED <<live, ref, connections, callback>>
  BY DEF SendAccepted
<1>2. /\ cast \in Req /\ cast \in live /\ Unserved(cast) = todo
      /\ c \notin Lent(cast) /\ Deleting(cast) = {}
      /\ cast' \in Req \cup {None} /\ todo' \subseteq Conn /\ CastInv'
      /\ \A r \in Req : Unserved(r)' = Unserved(r) \ {c}
  BY <1>1, ServedOne
<1>3. TypeOK'
  BY <1>1, <1>2 DEF SInv, TypeOK
<1>4. CallbackInv'
  <2> SUFFICES ASSUME NEW d \in Conn PROVE CallbackInv!(d)'
    BY DEF CallbackInv
  <2>1. d = c /\ callback[d].at = "loaded" => Mine(d) # cast
    BY <1>2 DEF Lent
  <2> QED
    BY <1>1, <2>1 DEF SInv, CallbackInv, TypeOK, Mine, Idle
<1>5. ASSUME NEW r \in Req, r = cast PROVE ReqInv(r)'
  <2>1. /\ Lent(r)' = Lent(r) \cup {c}
        /\ Unserved(r)' = Unserved(r) \ {c}
        /\ Deleting(r)' = Deleting(r)
    BY <1>1, <1>2, <1>5 DEF Lent, Deleting, Mine, SInv, TypeOK
  <2>2. c \in Unserved(r) /\ c \notin Lent(r) /\ Deleting(r) = {}
    BY <1>1, <1>2, <1>5
  <2>3. /\ Cardinality(Lent(r) \cup {c}) = Cardinality(Lent(r)) + 1
        /\ Cardinality(Unserved(r) \ {c}) = Cardinality(Unserved(r)) - 1
        /\ Cardinality(Lent(r)) \in Nat /\ Cardinality(Unserved(r)) \in Nat
    BY <2>2, Knowers, WithOne, WithoutOne, ConnFinite DEF SInv
  <2>4. ref'[r] = ref[r] /\ live' = live /\ r \in live
    BY <1>1, <1>2, <1>5
  <2> QED
    BY <2>1, <2>2, <2>3, <2>4 DEF SInv, ReqInv
<1>6. \A q \in Req : q # cast => Untouched(q)
  BY <1>1, <1>2, SendAssumption
     DEF Untouched, Lent, Unserved, Deleting, Mine, SInv, TypeOK, Done
<1>7. \A q \in Req : ReqInv(q)'
  BY <1>5, <1>6, UntouchedInv DEF SInv
<1> QED
  BY <1>3, <1>4, <1>2, <1>7 DEF SInv

LEMMA FailedInv ==
  ASSUME SInv, NEW c \in Conn, SendFailed(c)
  PROVE  SInv'
<1>1. /\ c \in todo /\ Done(c)
      /\ ref' = [ref EXCEPT ![cast] = ref[cast] - 1]
      /\ UNCHANGED <<live, connections, pending, callback>>
  BY DEF SendFailed, CountAfterFailure
<1>2. /\ cast \in Req /\ cast \in live /\ Unserved(cast) = todo
      /\ c \notin Lent(cast) /\ Deleting(cast) = {}
      /\ cast' \in Req \cup {None} /\ todo' \subseteq Conn /\ CastInv'
      /\ \A r \in Req : Unserved(r)' = Unserved(r) \ {c}
  BY <1>1, ServedOne
<1>3. /\ Cardinality(Unserved(cast) \ {c}) = Cardinality(Unserved(cast)) - 1
      /\ Cardinality(Unserved(cast) \ {c}) \in Nat
      /\ Cardinality(Lent(cast)) \in Nat /\ Cardinality(Unserved(cast)) \in Nat
  BY <1>1, <1>2, Knowers, WithoutOne, ConnFinite DEF SInv
<1>4. ref[cast] = Cardinality(Lent(cast)) + Cardinality(Unserved(cast))
  BY <1>2 DEF SInv, ReqInv
<1>5. TypeOK'
  <2>1. ref[cast] - 1 \in Nat
    BY <1>3, <1>4
  <2> QED
    BY <1>1, <1>2, <2>1 DEF SInv, TypeOK
<1>6. CallbackInv'
  BY <1>1 DEF SInv, CallbackInv, Mine
<1>7. ASSUME NEW r \in Req, r = cast PROVE ReqInv(r)'
  <2>1. /\ Lent(r)' = Lent(r)
        /\ Unserved(r)' = Unserved(r) \ {c}
        /\ Deleting(r)' = Deleting(r)
    BY <1>1, <1>2, <1>7 DEF Lent, Deleting, Mine
  <2>2. ref'[r] = ref[r] - 1 /\ live' = live /\ r \in live
    BY <1>1, <1>2, <1>7 DEF SInv, TypeOK
  <2>3. Deleting(r) = {} /\ Lent(r) \cap Unserved(r) = {}
    BY <1>2, <1>7 DEF SInv, ReqInv
  <2>4. ref'[r] = Cardinality(Lent(r)) + Cardinality(Unserved(r) \ {c})
    BY <1>3, <1>4, <1>7, <2>2
  <2> QED
    BY <2>1, <2>2, <2>3, <2>4 DEF ReqInv
<1>8. \A q \in Req : q # cast => Untouched(q)
  BY <1>1, <1>2, SendAssumption
     DEF Untouched, Lent, Unserved, Deleting, Mine, SInv, TypeOK, Done
<1>9. \A q \in Req : ReqInv(q)'
  BY <1>7, <1>8, UntouchedInv DEF SInv
<1> QED
  BY <1>2, <1>5, <1>6, <1>9 DEF SInv

(* SEND_COMPLETE: MsQuic's hold of a request becomes the callback's. *)
LEMMA LoadInv ==
  ASSUME SInv, NEW c \in Conn, Load(c)
  PROVE  SInv'
<1>1. PICK r \in pending[c] :
        /\ pending' = [pending EXCEPT ![c] = @ \ {r}]
        /\ callback' = [callback EXCEPT
                          ![c] = [at |-> "loaded", req |-> r, seen |-> ref[r]]]
  BY DEF Load
<1>2. /\ callback[c] = Idle /\ r \in Req
      /\ UNCHANGED <<live, ref, connections, cast, todo>>
  BY DEF Load, SInv, TypeOK
<1>3. /\ callback'[c].at = "loaded" /\ callback'[c].req = r
      /\ \A d \in Conn \ {c} : callback'[d] = callback[d]
      /\ callback[c].at = "idle" /\ pending'[c] = pending[c] \ {r}
      /\ \A d \in Conn \ {c} : pending'[d] = pending[d]
  BY <1>1, <1>2 DEF SInv, TypeOK, Idle
<1>4. TypeOK' /\ CastInv'
  BY <1>1, <1>2 DEF SInv, TypeOK, CastInv, Callback
<1>5. CallbackInv'
  BY <1>2, <1>3 DEF SInv, CallbackInv, Mine
<1>6. \A q \in Req : Untouched(q)
  BY <1>1, <1>2, <1>3 DEF Untouched, Lent, Unserved, Deleting, Mine
<1> QED
  BY <1>4, <1>5, <1>6, UntouchedInv DEF SInv

(* A callback that counts down is one of those the count stands for.       *)
LEMMA Loaded ==
  ASSUME SInv, NEW c \in Conn, callback[c].at = "loaded"
  PROVE  /\ Mine(c) \in Req /\ c \in Lent(Mine(c)) /\ Mine(c) \in live
         /\ Mine(c) \notin pending[c]
         /\ Deleting(Mine(c)) = {}
         /\ ref[Mine(c)] \in Nat /\ ref[Mine(c)] # 0
<1>1. Mine(c) \in Req /\ Mine(c) \notin pending[c]
  BY DEF SInv, CallbackInv, Idle
<1>2. c \in Lent(Mine(c))
  BY DEF Lent
<1>3. Mine(c) \in live /\ Deleting(Mine(c)) = {}
  BY <1>1, <1>2 DEF SInv, ReqInv
<1>4. ref[Mine(c)] \in Nat
  BY <1>1 DEF SInv, TypeOK
<1>5. ref[Mine(c)] # 0
  <2>1. ref[Mine(c)] = Cardinality(Lent(Mine(c))) + Cardinality(Unserved(Mine(c)))
    BY <1>1, <1>3 DEF SInv, ReqInv
  <2> QED
    BY <1>1, <1>2, <2>1, Knowers, NoneLeft DEF SInv
<1> QED
  BY <1>1, <1>2, <1>3, <1>4, <1>5

LEMMA SwapInv ==
  ASSUME SInv, NEW c \in Conn, Swap(c)
  PROVE  SInv'
<1> DEFINE r == Mine(c)
<1>1. /\ callback[c].at = "loaded" /\ callback[c].seen = ref[r]
      /\ ref' = [ref EXCEPT ![r] = ref[r] - 1]
      /\ callback' = [callback EXCEPT ![c] = AfterSwap(c)]
      /\ UNCHANGED <<live, connections, pending, cast, todo>>
  BY DEF Swap, Unchanged
<1>2. /\ r \in Req /\ c \in Lent(r) /\ r \in live /\ r \notin pending[c]
      /\ Deleting(r) = {} /\ ref[r] \in Nat /\ ref[r] # 0
  BY <1>1, Loaded
<1>3. /\ callback'[c] = IF ref[r] = 1 THEN [callback[c] EXCEPT !.at = "deleting"]
                                     ELSE Idle
      /\ \A d \in Conn \ {c} : callback'[d] = callback[d]
  BY <1>1 DEF SInv, TypeOK, AfterSwap
<1>4. /\ ref[r] = 1 => callback'[c].at = "deleting" /\ callback'[c].req = r
      /\ ref[r] # 1 => callback'[c] = Idle
      /\ ref[r] = 1 => callback'[c] \in Callback
  BY <1>3 DEF SInv, TypeOK, Callback, Mine
<1>5. TypeOK' /\ CastInv'
  <2>1. ref' \in [Req -> Nat]
    BY <1>1, <1>2 DEF SInv, TypeOK
  <2>2. callback' \in [Conn -> Callback]
    BY <1>1, <1>4 DEF SInv, TypeOK, Callback, Idle
  <2> QED
    BY <1>1, <2>1, <2>2 DEF SInv, TypeOK, CastInv
<1>6. CallbackInv'
  BY <1>1, <1>2, <1>3, <1>4 DEF SInv, CallbackInv, Mine
<1>7. ASSUME NEW q \in Req, q = r PROVE ReqInv(q)'
  <2>1. /\ Lent(q)' = Lent(q) \ {c}
        /\ Unserved(q)' = Unserved(q)
        /\ Deleting(q)' = IF ref[q] = 1 THEN {c} ELSE {}
    BY <1>1, <1>2, <1>3, <1>4, <1>7 DEF Lent, Unserved, Deleting, Mine, Idle
  <2>2. /\ Cardinality(Lent(q) \ {c}) = Cardinality(Lent(q)) - 1
        /\ Cardinality(Lent(q) \ {c}) \in Nat
        /\ Cardinality(Lent(q)) \in Nat /\ Cardinality(Unserved(q)) \in Nat
    BY <1>2, <1>7, Knowers, WithoutOne, ConnFinite DEF SInv
  <2>3. /\ ref[q] = Cardinality(Lent(q)) + Cardinality(Unserved(q))
        /\ Lent(q) \cap Unserved(q) = {}
    BY <1>2, <1>7 DEF SInv, ReqInv
  <2>4. ref'[q] = ref[q] - 1 /\ live' = live /\ q \in live
    BY <1>1, <1>2, <1>7 DEF SInv, TypeOK
  <2>5. ref[q] = 1 => Lent(q) \ {c} = {} /\ Unserved(q) = {}
    <3>1. ref[q] = 1 =>
            Cardinality(Lent(q) \ {c}) + Cardinality(Unserved(q)) = 0
      BY <2>2, <2>3
    <3>2. Lent(q) \ {c} \in SUBSET Conn /\ Unserved(q) \in SUBSET Conn
      BY Knowers DEF SInv
    <3> QED
      BY <3>1, <3>2, NoneLeft
  <2>6. ref'[q] = Cardinality(Lent(q)') + Cardinality(Unserved(q)')
    BY <2>1, <2>2, <2>3, <2>4
  <2> QED
    BY <2>1, <2>3, <2>4, <2>5, <2>6 DEF ReqInv
<1>8. ASSUME NEW q \in Req, q # r PROVE Untouched(q)
  <2>1. Lent(q)' = Lent(q) /\ Deleting(q)' = Deleting(q)
    BY <1>1, <1>2, <1>3, <1>4, <1>8, SendAssumption
       DEF Lent, Deleting, Mine, Idle
  <2>2. /\ Unserved(q)' = Unserved(q) /\ ref'[q] = ref[q]
        /\ q \in live' <=> q \in live
    BY <1>1, <1>2, <1>8 DEF Unserved, SInv, TypeOK
  <2> QED
    BY <2>1, <2>2 DEF Untouched
<1>9. \A q \in Req : ReqInv(q)'
  BY <1>7, <1>8, UntouchedInv DEF SInv
<1> QED
  BY <1>5, <1>6, <1>9 DEF SInv

LEMMA ReloadInv ==
  ASSUME SInv, NEW c \in Conn, Reload(c)
  PROVE  SInv'
<1>1. /\ callback[c].at = "loaded"
      /\ callback' = [callback EXCEPT ![c].seen = ref[Mine(c)]]
      /\ UNCHANGED <<live, ref, connections, pending, cast, todo>>
  BY DEF Reload
<1>2. Mine(c) \in Req /\ ref[Mine(c)] \in Nat
  BY <1>1, Loaded
<1>3. /\ callback' \in [Conn -> Callback]
      /\ \A d \in Conn : /\ callback'[d].at = callback[d].at
                         /\ callback'[d].req = callback[d].req
      /\ \A d \in Conn \ {c} : callback'[d] = callback[d]
  BY <1>1, <1>2 DEF SInv, TypeOK, Callback
<1>4. TypeOK' /\ CastInv'
  BY <1>1, <1>3 DEF SInv, TypeOK, CastInv
<1>5. CallbackInv'
  BY <1>1, <1>3, <1>2, Loaded DEF SInv, CallbackInv, Mine
<1>6. \A q \in Req : Untouched(q)
  BY <1>1, <1>3 DEF Untouched, Lent, Unserved, Deleting, Mine
<1> QED
  BY <1>4, <1>5, <1>6, UntouchedInv DEF SInv

(* The one that has counted down to 0 is the last to know the request.     *)
LEMMA DeleteInv ==
  ASSUME SInv, NEW c \in Conn, Delete(c)
  PROVE  SInv'
<1>1. /\ callback[c].at = "deleting"
      /\ live' = live \ {Mine(c)}
      /\ callback' = [callback EXCEPT ![c] = Idle]
      /\ UNCHANGED <<ref, connections, pending, cast, todo>>
  BY DEF Delete
<1>2. Mine(c) \in Req /\ c \in Deleting(Mine(c))
  BY <1>1 DEF SInv, CallbackInv, Idle, Deleting
<1>3. callback'[c] = Idle /\ \A d \in Conn \ {c} : callback'[d] = callback[d]
  BY <1>1 DEF SInv, TypeOK
<1>4. TypeOK' /\ CallbackInv' /\ CastInv'
  BY <1>1, <1>3 DEF SInv, TypeOK, CallbackInv, CastInv, Callback, Idle, Mine
<1>5. ASSUME NEW q \in Req, q = Mine(c) PROVE ReqInv(q)'
  <2>1. Lent(q) = {} /\ Unserved(q) = {} /\ Deleting(q) = {c}
    BY <1>2, <1>5 DEF SInv, ReqInv
  <2>2. Lent(q)' = {} /\ Unserved(q)' = {} /\ Deleting(q)' = {}
    BY <1>1, <1>3, <1>5, <2>1, SendAssumption
       DEF Lent, Unserved, Deleting, Mine, Idle
  <2>3. q \notin live'
    BY <1>1, <1>5
  <2> QED
    BY <2>2, <2>3 DEF ReqInv
<1>6. ASSUME NEW q \in Req, q # Mine(c) PROVE Untouched(q)
  BY <1>1, <1>3, <1>6, SendAssumption
     DEF Untouched, Lent, Unserved, Deleting, Mine, Idle
<1>7. \A q \in Req : ReqInv(q)'
  BY <1>5, <1>6, UntouchedInv DEF SInv
<1> QED
  BY <1>4, <1>7 DEF SInv

LEMMA SendStutter ==
  ASSUME SInv, UNCHANGED vars
  PROVE  SInv'
<1>1. TypeOK' /\ CallbackInv' /\ CastInv'
  BY DEF SInv, vars, TypeOK, CallbackInv, CastInv, Mine
<1>2. \A q \in Req : Untouched(q)
  BY DEF vars, Untouched, Lent, Unserved, Deleting, Mine
<1> QED
  BY <1>1, <1>2, UntouchedInv DEF SInv

(* Who still knows a request and where each completion is with it stay as  *)
(* SInv says (server.cpp, SendReq).                                        *)
THEOREM SendInvariance == Spec => []SInv
<1>1. Init => SInv
  BY SendInit
<1>2. SInv /\ [Next]_vars => SInv'
  BY JoinLeaveInv, SendInv, BroadcastInv, AcceptedInv, FailedInv, LoadInv,
     SwapInv, ReloadInv, DeleteInv, SendStutter DEF Next, Loop, Complete
<1> QED
  BY <1>1, <1>2, PTL DEF Spec

-----------------------------------------------------------------------------
(* What follows from it. *)

(* Every variable has its type: the count, which is unsigned, never goes   *)
(* below 0.                                                                *)
THEOREM TypeCorrect == Spec => []TypeOK
<1>1. SInv => TypeOK
  BY DEF SInv
<1> QED
  BY <1>1, SendInvariance, PTL

(* The count is right in the middle of any race of broadcast's loop with   *)
(* the callbacks of the connections it has already served.                 *)
THEOREM CountRight == Spec => []Counted
<1>1. SInv => Counted
  BY DEF SInv, ReqInv, TypeOK, Counted
<1> QED
  BY <1>1, SendInvariance, PTL

(* No use after delete, no second delete.                                  *)
THEOREM NoDangling == Spec => []NeverDangles
<1>1. SInv => NeverDangles
  BY DEF SInv, ReqInv, NeverDangles
<1> QED
  BY <1>1, SendInvariance, PTL

(* A request that has just been abandoned was counted down to 0, and not   *)
(* by a callback, which would now be about to delete it.                   *)
LEMMA NoLeakStep ==
  ASSUME SInv, SInv', Next, NEW r \in Req, Abandoned(r)', ~ Abandoned(r)
  PROVE  \E c \in todo : SendFailed(c)
<1>1. r \in live' /\ ref'[r] = 0 /\ Deleting(r)' = {}
  <2>1. r \in live' /\ Lent(r)' = {} /\ Unserved(r)' = {} /\ Deleting(r)' = {}
    BY DEF Abandoned
  <2>2. ref'[r] = Cardinality(Lent(r)') + Cardinality(Unserved(r)')
    BY <2>1 DEF SInv, ReqInv
  <2> QED
    BY <2>1, <2>2, NobodyCounts
<1>2. r \in live
  <2> SUFFICES ASSUME r \notin live PROVE FALSE
    OBVIOUS
  <2>1. (\E c \in Conn : Send(c, r)) \/ Broadcast(r)
    BY <1>1 DEF Next, Loop, Join, Leave, Complete, Load, Swap, Reload, Delete,
         SendAccepted, SendFailed, Send, Broadcast, New
  <2>2. connections \in SUBSET Conn
    BY DEF SInv, TypeOK
  <2>3. Broadcast(r) => Cardinality(connections) # 0
    BY <2>2, ConnFinite, FS_EmptySet DEF Broadcast
  <2> QED
    BY <1>1, <2>1, <2>3
       DEF Send, Broadcast, New, InitialCount, SInv, TypeOK
<1>3. CASE ref[r] = 0
  <2>1. Lent(r) = {} /\ Unserved(r) = {}
    <3>1. Cardinality(Lent(r)) + Cardinality(Unserved(r)) = 0
      BY <1>2, <1>3 DEF SInv, ReqInv
    <3> QED
      BY <3>1, NoneLeft, Knowers DEF SInv
  <2>2. PICK c \in Conn : Mine(c) = r /\ callback[c].at = "deleting"
    BY <1>2, <2>1 DEF Abandoned, Deleting
  <2>3. ~ Delete(c)
    BY <1>1, <2>2 DEF Delete
  <2>4. callback'[c] = callback[c]
    BY <2>2, <2>3
       DEF Next, Loop, Join, Leave, Complete, Load, Swap, Reload, Delete,
         SendAccepted, SendFailed, Send, Broadcast, New, SInv, TypeOK, Idle
  <2> QED
    BY <1>1, <2>2, <2>4 DEF Deleting, Mine
<1>4. CASE ref[r] # 0
  <2>1. ASSUME NEW c \in Conn, Swap(c) PROVE FALSE
    <3>1. /\ callback[c].at = "loaded" /\ callback[c].seen = ref[Mine(c)]
          /\ ref' = [ref EXCEPT ![Mine(c)] = ref[Mine(c)] - 1]
          /\ callback' = [callback EXCEPT ![c] = AfterSwap(c)]
      BY <2>1 DEF Swap, Unchanged
    <3>2. Mine(c) = r /\ ref[r] = 1
      BY <1>1, <1>4, <3>1, Loaded DEF SInv, TypeOK
    <3>3. callback'[c] = [callback[c] EXCEPT !.at = "deleting"]
      BY <3>1, <3>2 DEF AfterSwap, SInv, TypeOK
    <3>4. callback'[c].at = "deleting" /\ callback'[c].req = r
      BY <3>2, <3>3 DEF SInv, TypeOK, Callback, Mine
    <3> QED
      BY <1>1, <3>4 DEF Deleting, Mine
  <2>2. ASSUME NEW c \in Conn, NEW q \in Req, Send(c, q) \/ Broadcast(q)
        PROVE  FALSE
    <3>1. q # r
      BY <1>2, <2>2 DEF Send, Broadcast, New
    <3> QED
      BY <1>1, <1>4, <2>2, <3>1 DEF Send, Broadcast, New, SInv, TypeOK
  <2>3. ~ \E q \in Req : Broadcast(q)
    BY <1>1, <1>2, <1>4 DEF Broadcast, New, SInv, TypeOK
  <2>4. \E c \in Conn : SendFailed(c)
    BY <1>1, <1>4, <2>1, <2>2, <2>3
       DEF Next, Loop, Join, Leave, Complete, Load, Reload, Delete,
         SendAccepted
  <2> QED
    BY <2>4 DEF SendFailed
<1> QED
  BY <1>3, <1>4

(* Only a failed send of broadcast's leaves a request to nobody: the one   *)
(* way in which this server leaks a message.                               *)
THEOREM LeaksExplained == Spec => LeaksOnlyOnFailure
<1>1. SInv /\ SInv' /\ [Next]_vars =>
        [\A r \in Req :
           Abandoned(r)' => Abandoned(r) \/ \E c \in todo : SendFailed(c)]_vars
  BY NoLeakStep
<1> QED
  BY <1>1, SendInvariance, PTL DEF Spec, LeaksOnlyOnFailure

(* Every request lives as long as somebody needs it, counted exactly.      *)
THEOREM RequestsStayCounted == Spec => []RequestsCounted
BY TypeCorrect, CountRight, NoDangling, PTL DEF RequestsCounted

-----------------------------------------------------------------------------
(* The players: who has which pid, and what is said of whom on the way.    *)

Entry == [pid : Roster!Pids, state : 1..MaxJoins]

Here == {h \in Conns : stage[h] \in {"added", "listed"}}

RosterTypes ==
  /\ stage \in [Conns -> {"out", "added", "listed", "removed"}]
  /\ pid \in [Conns -> 0..MaxJoins] /\ state \in [Conns -> 0..MaxJoins]
  /\ players \in Seq(Conns)
  /\ \A h \in Conns :
       (\E i \in 1..Len(players) : players[i] = h) <=> stage[h] \in {"listed", "removed"}
  /\ \A i, j \in 1..Len(players) : players[i] = players[j] => i = j
  /\ wire \in [Conns -> Seq(Seq(Entry))]
  /\ my_pid \in [Conns -> 0..MaxJoins]
  /\ player_map \in [Conns -> [Roster!Pids -> 0..MaxJoins]]
  /\ joins \in 0..MaxJoins /\ peak \in Nat

(* Who is here has its pid for itself, whoever came has its state for      *)
(* itself, and there are never more than came.                             *)
PidsGiven ==
  /\ allHandles = {pid[h] : h \in Here}
  /\ \A g, h \in Here : pid[g] = pid[h] => g = h
  /\ \A h \in Conns : stage[h] # "out" => pid[h] \in 1..peak /\ state[h] > 0
  /\ \A h \in Conns : stage[h] = "out" => pid[h] = 0
  /\ Cardinality(Here) <= joins /\ Cardinality(Here) <= peak
  /\ peak <= joins /\ peak <= Cardinality(Conns)

StatesGiven ==
  /\ \A h \in Conns : state[h] <= joins
  /\ \A g, h \in Conns : state[g] = state[h] => g = h \/ state[g] = 0

(* What a message says of a player.                                        *)
Said(x) == [pid |-> pid[x], state |-> state[x]]

(* A message to h begins with its own entry; every state in it belongs to  *)
(* the pid it comes with, if its player is still there.                    *)
Proper(h, m) ==
  /\ m # <<>> /\ m[1] = Said(h)
  /\ \A k \in 1..Len(m) :
       /\ m[k].pid <= peak /\ m[k].state <= joins
       /\ \A g \in Conns :
            stage[g] # "out" /\ m[k].state = state[g] =>
              stage[g] # "added" /\ m[k].pid = pid[g]

OnTheWay ==
  \A h \in Conns :
    /\ Len(wire[h]) <= MaxWire
    /\ stage[h] \in {"out", "added"} => wire[h] = <<>>
    /\ \A i \in 1..Len(wire[h]) : Proper(h, wire[h][i])

(* What a client shows.                                                    *)
OnShow ==
  \A h \in Conns :
    /\ stage[h] = "added" => my_pid[h] = 0 /\ \A p \in Roster!Pids : player_map[h][p] = 0
    /\ stage[h] # "out" => my_pid[h] \in {0, pid[h]}
    /\ \A p \in Roster!Pids :
         /\ player_map[h][p] # 0 => p <= peak
         /\ player_map[h][p] <= joins
         /\ \A g \in Conns : stage[g] = "added" => player_map[h][p] # state[g]

(* Of two in the list with one pid the earlier is on its way out.          *)
GhostsFirst ==
  \A i, j \in 1..Len(players) :
    i < j /\ pid[players[i]] = pid[players[j]] => stage[players[i]] = "removed"

-----------------------------------------------------------------------------
(* A message tells of g if the last entry with its pid is its own.         *)
Tells(m, g) ==
  \E i \in 1..Len(m) :
    /\ m[i] = [pid |-> pid[g], state |-> state[g]]
    /\ \A j \in 1..Len(m) : j > i => m[j].pid # pid[g]

(* Would the next message to h tell of g?  Nobody's pid hides anyone but   *)
(* the client's own.                                                       *)
NowTells(h, g) ==
  g = h => \A x \in Conns : stage[x] = "removed" => pid[x] # pid[h]

Steady(h, g) ==
  /\ \A i \in 1..Len(wire[h]) :
       Tells(wire[h][i], g) =>
         NowTells(h, g) /\ \A j \in i..Len(wire[h]) : Tells(wire[h][j], g)
  /\ Roster!Shows(h, g) =>
       NowTells(h, g) /\ \A j \in 1..Len(wire[h]) : Tells(wire[h][j], g)

AllSteady ==
  \A h, g \in Conns : stage[h] = "listed" /\ stage[g] = "listed" => Steady(h, g)

RInv ==
  /\ RosterTypes /\ PidsGiven /\ StatesGiven /\ OnTheWay /\ OnShow
  /\ GhostsFirst /\ AllSteady

-----------------------------------------------------------------------------
(* The operators of PlayerRoster. *)

(* PlayerRoster has these of FiniteSets from an instance of its own.       *)
LEMMA SameCounts ==
  /\ \A S : Roster!IsFiniteSet(S) <=> IsFiniteSet(S)
  /\ \A S : Roster!Cardinality(S) = Cardinality(S)
<1>1. \A S : Roster!IsFiniteSet(S) <=> IsFiniteSet(S)
  BY DEF Roster!IsFiniteSet, IsFiniteSet
<1>2. \A S : Roster!Cardinality(S) = Cardinality(S)
  BY DEF Roster!Cardinality, Cardinality
<1> QED
  BY <1>1, <1>2

LEMMA RosterNumbers == MaxJoins \in Nat /\ MaxWire \in Nat /\ IsFiniteSet(Conns)
BY SameCounts, RosterAssumption DEF Roster!RosterConstants

LEMMA Least ==
  ASSUME NEW T, T \subseteq Nat, T # {}
  PROVE  \E m \in T : \A n \in T : m <= n
<1>1. PICK x \in T : \A y \in T : ~ (<<y, x>> \in OpToRel(<, Nat))
  BY NatLessThanWellFounded, WFMin
<1>2. \A y \in T : ~ (y < x)
  BY <1>1 DEF OpToRel
<1> QED
  BY <1>2

LEMMA Greatest ==
  ASSUME NEW n \in Nat, NEW T, T \subseteq 1..n, T # {}
  PROVE  \E m \in T : \A k \in T : m >= k
<1> DEFINE U == {i \in 0..n : n - i \in T}
<1>1. PICK t \in T : TRUE
  OBVIOUS
<1>2. t \in 1..n /\ n - t \in 0..n /\ n - (n - t) = t
  OBVIOUS
<1>3. U \subseteq Nat /\ n - t \in U
  BY <1>1, <1>2
<1>4. PICK u \in U : \A v \in U : u <= v
  BY <1>3, Least
<1>5. ASSUME NEW k \in T PROVE n - u >= k
  <2>1. k \in 1..n /\ n - k \in 0..n /\ n - (n - k) = k
    OBVIOUS
  <2>2. u <= n - k
    BY <1>4, <2>1
  <2> QED
    BY <2>1, <2>2
<1> QED
  BY <1>4, <1>5

LEMMA OthersAre ==
  ASSUME RosterTypes, NEW at \in 1..Len(players)
  PROVE  LET rest == Roster!Others(players[at])
         IN  /\ rest \in Seq(Conns) /\ Len(rest) = Len(players) - 1
             /\ \A j \in 1..Len(players) - 1 :
                  rest[j] = players[IF j < at THEN j ELSE j + 1]
<1> DEFINE front == SubSeq(players, 1, at - 1)
           back == SubSeq(players, at + 1, Len(players))
<1>1. PICK n \in Nat : n = Len(players)
  BY LenProperties DEF RosterTypes
<1>2. /\ players \in Seq(Conns) /\ at \in 1..n /\ DOMAIN players = 1..n
      /\ \A i \in 1..n : players[i] \in Conns
  BY <1>1, LenProperties DEF RosterTypes
<1>3. Roster!Others(players[at]) = front \o back
  <2>1. (CHOOSE i \in DOMAIN players : players[i] = players[at]) = at
    BY <1>1, <1>2 DEF RosterTypes
  <2> QED
    BY <2>1, Zenon DEF Roster!Others, Roster!RemoveAt
<1>4. /\ front \in Seq(Conns) /\ Len(front) = at - 1
      /\ \A i \in 1..at - 1 : front[i] = players[i]
  <2>1. /\ front \in Seq(Conns)
        /\ Len(front) = IF 1 <= at - 1 THEN at - 1 - 1 + 1 ELSE 0
        /\ \A i \in 1..at - 1 - 1 + 1 : front[i] = players[1 + i - 1]
    BY <1>2, SubSeqProperties
  <2> HIDE DEF front
  <2> QED
    BY <1>2, <2>1
<1>5. /\ back \in Seq(Conns) /\ Len(back) = n - at
      /\ \A i \in 1..n - at : back[i] = players[at + i]
  <2>1. /\ back \in Seq(Conns)
        /\ Len(back) = IF at + 1 <= n THEN n - (at + 1) + 1 ELSE 0
        /\ \A i \in 1..n - (at + 1) + 1 : back[i] = players[at + 1 + i - 1]
    BY <1>1, <1>2, SubSeqProperties
  <2> HIDE DEF back
  <2>2. Len(back) = n - at
    BY <1>2, <2>1
  <2>3. ASSUME NEW i \in 1..n - at PROVE back[i] = players[at + i]
    <3>1. i \in 1..n - (at + 1) + 1 /\ at + 1 + i - 1 = at + i
      BY <1>2
    <3> QED
      BY <2>1, <3>1
  <2> QED
    BY <2>1, <2>2, <2>3
<1> HIDE DEF front, back
<1>6. /\ front \o back \in Seq(Conns) /\ Len(front \o back) = n - 1
      /\ \A i \in 1..n - 1 :
           (front \o back)[i] = IF i <= at - 1 THEN front[i] ELSE back[i - (at - 1)]
  <2>1. /\ front \o back \in Seq(Conns)
        /\ Len(front \o back) = Len(front) + Len(back)
        /\ \A i \in 1..Len(front) + Len(back) :
             (front \o back)[i] = IF i <= Len(front) THEN front[i] ELSE back[i - Len(front)]
    BY <1>4, <1>5, ConcatProperties
  <2>2. Len(front) = at - 1 /\ Len(front) + Len(back) = n - 1
    BY <1>2, <1>4, <1>5
  <2> QED
    BY <2>1, <2>2
<1>7. ASSUME NEW j \in 1..n - 1
      PROVE  (front \o back)[j] = players[IF j < at THEN j ELSE j + 1]
  <2>1. CASE j < at
    BY <1>2, <1>4, <1>6, <2>1
  <2>2. CASE ~ (j < at)
    <3>1. j - (at - 1) \in 1..n - at /\ at + (j - (at - 1)) = j + 1 /\ ~ (j <= at - 1)
      BY <1>2, <2>2
    <3>2. (front \o back)[j] = back[j - (at - 1)]
      BY <1>6, <3>1
    <3>3. back[j - (at - 1)] = players[at + (j - (at - 1))]
      BY <1>5, <3>1
    <3> QED
      BY <2>2, <3>1, <3>2, <3>3
  <2> QED
    BY <2>1, <2>2
<1> QED
  BY <1>1, <1>3, <1>6, <1>7

LEMMA EntriesAre ==
  ASSUME RosterTypes, NEW at \in 1..Len(players)
  PROVE  LET m == Roster!Entries(players[at])
         IN  /\ DOMAIN m = 1..Len(players)
             /\ \A k \in 1..Len(players) :
                  m[k] = Said(players[IF k = 1 THEN at ELSE IF k <= at THEN k - 1 ELSE k])
<1> DEFINE rest == Roster!Others(players[at])
           order == <<players[at]>> \o rest
<1>1. /\ rest \in Seq(Conns) /\ Len(rest) = Len(players) - 1
      /\ \A j \in 1..Len(players) - 1 :
           rest[j] = players[IF j < at THEN j ELSE j + 1]
  BY OthersAre
<1>2. Len(players) \in Nat /\ players[at] \in Conns
  BY LenProperties DEF RosterTypes
<1> HIDE DEF rest
<1>3. /\ <<players[at]>> \in Seq(Conns) /\ Len(<<players[at]>>) = 1
      /\ <<players[at]>>[1] = players[at]
  BY <1>2
<1>4. /\ order \in Seq(Conns) /\ Len(order) = Len(players)
      /\ \A i \in 1..Len(players) : order[i] = IF i <= 1 THEN players[at] ELSE rest[i - 1]
  <2>1. /\ order \in Seq(Conns) /\ Len(order) = 1 + Len(rest)
        /\ \A i \in 1..1 + Len(rest) :
             order[i] = IF i <= 1 THEN <<players[at]>>[i] ELSE rest[i - 1]
    BY <1>1, <1>3, ConcatProperties
  <2> HIDE DEF order
  <2>2. 1 + Len(rest) = Len(players)
    BY <1>1, <1>2
  <2> QED
    BY <1>3, <2>1, <2>2
<1>5. DOMAIN order = 1..Len(players)
  BY <1>4, LenProperties
<1>6. Roster!Entries(players[at]) = [i \in 1..Len(players) |-> Said(order[i])]
  BY <1>5 DEF Roster!Entries, Said, rest
<1> HIDE DEF order
<1>7. ASSUME NEW k \in 1..Len(players)
      PROVE  order[k] = players[IF k = 1 THEN at ELSE IF k <= at THEN k - 1 ELSE k]
  <2>1. CASE k = 1
    BY <1>4, <2>1
  <2>2. CASE k # 1
    <3>1. k - 1 \in 1..Len(players) - 1 /\ order[k] = rest[k - 1]
      BY <1>2, <1>4, <2>2
    <3>2. rest[k - 1] = players[IF k - 1 < at THEN k - 1 ELSE k - 1 + 1]
      BY <1>1, <3>1
    <3> QED
      BY <1>2, <2>2, <3>1, <3>2
  <2> QED
    BY <2>1, <2>2
<1> QED
  BY <1>6, <1>7

(* The library's ToSet, on the list.                                       *)
LEMMA ListedAre ==
  ASSUME RosterTypes
  PROVE  \A a : a \in Roster!ToSet(players) <=> \E i \in 1..Len(players) : players[i] = a
<1>1. DOMAIN players = 1..Len(players)
  BY LenProperties DEF RosterTypes
<1>2. \A a : a \in Roster!ToSet(players) <=> \E i \in DOMAIN players : players[i] = a
  BY DEF Roster!ToSet
<1> QED
  BY <1>1, <1>2

LEMMA ShownIs ==
  ASSUME NEW map, NEW m \in Seq(Entry), NEW p \in Roster!Pids
  PROVE  \/ /\ \A k \in 1..Len(m) : m[k].pid # p
            /\ Roster!Shown(map, m)[p] = map[p]
         \/ \E i \in 1..Len(m) :
              /\ m[i].pid = p /\ \A k \in 1..Len(m) : k > i => m[k].pid # p
              /\ Roster!Shown(map, m)[p] = m[i].state
<1> DEFINE at == {i \in DOMAIN m : m[i].pid = p}
<1>1. DOMAIN m = 1..Len(m) /\ Len(m) \in Nat
  BY LenProperties
<1>2. Roster!Shown(map, m)[p] = IF at = {} THEN map[p] ELSE m[Roster!Max(at)].state
  BY DEF Roster!Shown
<1>3. CASE at = {}
  BY <1>1, <1>2, <1>3
<1>4. CASE at # {}
  <2>1. \E i \in at : \A k \in at : i >= k
    BY <1>1, <1>4, Greatest
  <2>2. Roster!Max(at) \in at /\ \A k \in at : Roster!Max(at) >= k
    BY <2>1, Zenon DEF Roster!Max
  <2>3. PICK i : i = Roster!Max(at)
    OBVIOUS
  <2>4. i \in 1..Len(m) /\ m[i].pid = p /\ Roster!Shown(map, m)[p] = m[i].state
    BY <1>1, <1>2, <1>4, <2>2, <2>3
  <2>5. ASSUME NEW k \in 1..Len(m), k > i PROVE m[k].pid # p
    <3>1. k \in at => i >= k
      BY <2>2, <2>3
    <3>2. ~ (i >= k)
      BY <1>1, <2>4, <2>5
    <3> QED
      BY <1>1, <3>1, <3>2
  <2> QED
    BY <2>4, <2>5
<1> QED
  BY <1>3, <1>4

LEMMA NewPidIs ==
  ASSUME RosterTypes, PidsGiven, joins < MaxJoins
  PROVE  /\ Roster!NewPid \in Roster!Pids /\ Roster!NewPid \notin allHandles
         /\ Roster!NewPid <= Cardinality(Here) + 1
<1> DEFINE f == [h \in Here |-> pid[h]]
           Good(i) == i \notin allHandles /\ 1..i - 1 \subseteq allHandles
<1>1. IsFiniteSet(Here)
  <2>1. Here \in SUBSET Conns
    BY DEF Here
  <2> QED
    BY <2>1, RosterNumbers, FS_Subset
<1>2. f \in Surjection(Here, allHandles)
  BY DEF Surjection, PidsGiven
<1>3. IsFiniteSet(allHandles) /\ Cardinality(allHandles) <= Cardinality(Here)
  BY <1>1, <1>2, FS_Surjection
<1>4. MaxJoins \in Nat /\ Cardinality(Here) \in Nat /\ Cardinality(Here) < MaxJoins
      /\ Cardinality(allHandles) \in Nat
  BY RosterNumbers, <1>1, <1>3, FS_CardinalityType DEF PidsGiven, RosterTypes
<1>5. ASSUME NEW n \in Nat, 1..n \subseteq allHandles PROVE n <= Cardinality(Here)
  <2>1. Cardinality(1..n) = n
    BY FS_Interval
  <2>2. Cardinality(1..n) <= Cardinality(allHandles)
    BY <1>3, <1>5, FS_Subset
  <2> QED
    BY <1>3, <1>4, <2>1, <2>2
<1>6. Roster!Pids \ allHandles # {}
  BY <1>4, <1>5 DEF Roster!Pids
<1>7. PICK i \in Roster!Pids \ allHandles : \A k \in Roster!Pids \ allHandles : i <= k
  <2>1. Roster!Pids \ allHandles \subseteq Nat
    BY <1>4 DEF Roster!Pids
  <2> QED
    BY <1>6, <2>1, Least
<1>8. i \in Roster!Pids /\ Good(i)
  BY <1>4, <1>7 DEF Roster!Pids
<1>9. Roster!NewPid \in Roster!Pids /\ Good(Roster!NewPid)
  BY <1>8, Zenon DEF Roster!NewPid
<1>10. Roster!NewPid - 1 \in Nat /\ 1..Roster!NewPid - 1 \subseteq allHandles
  BY <1>4, <1>9 DEF Roster!Pids
<1>11. Roster!NewPid - 1 <= Cardinality(Here)
  BY <1>5, <1>10
<1> QED
  BY <1>4, <1>9, <1>11 DEF Roster!Pids

-----------------------------------------------------------------------------
(* The invariant, one operation after the other. *)

LEMMA SteadyOn ==
  ASSUME NEW a \in Conns, NEW g \in Conns, Steady(a, g),
         wire'[a] = wire[a], pid'[g] = pid[g], state'[g] = state[g],
         player_map'[a] = player_map[a], NowTells(a, g) => NowTells(a, g)'
  PROVE  Steady(a, g)'
<1>1. ASSUME NEW i PROVE Tells(wire[a][i], g)' <=> Tells(wire[a][i], g)
  BY DEF Tells
<1>2. Roster!Shows(a, g)' <=> Roster!Shows(a, g)
  BY DEF Roster!Shows
<1> QED
  BY <1>1, <1>2 DEF Steady

LEMMA InitRInv == Roster!Init => RInv
<1> SUFFICES ASSUME Roster!Init PROVE RInv
  OBVIOUS
<1>1. /\ players = <<>> /\ Len(players) = 0 /\ players \in Seq(Conns)
      /\ \A h \in Conns : wire[h] = <<>> /\ Len(wire[h]) = 0 /\ wire[h] \in Seq(Seq(Entry))
  BY EmptySeq DEF Roster!Init
<1>2. Here = {}
  BY DEF Here, Roster!Init
<1>3. Cardinality({}) = 0 /\ Cardinality(Conns) \in Nat
  BY FS_EmptySet, FS_CardinalityType, RosterNumbers
<1>4. RosterTypes
  BY <1>1, RosterNumbers DEF RosterTypes, Roster!Init
<1>5. PidsGiven /\ StatesGiven
  BY <1>2, <1>3 DEF PidsGiven, StatesGiven, Roster!Init
<1>6. OnTheWay
  BY <1>1, RosterNumbers DEF OnTheWay, Roster!Init
<1>7. OnShow
  BY DEF OnShow, Roster!Init
<1>8. GhostsFirst
  BY <1>1 DEF GhostsFirst
<1>9. AllSteady
  BY DEF AllSteady, Roster!Init
<1> QED
  BY <1>4, <1>5, <1>6, <1>7, <1>8, <1>9 DEF RInv

LEMMA WireTypes ==
  ASSUME RosterTypes, NEW a \in Conns
  PROVE  /\ wire[a] \in Seq(Seq(Entry)) /\ Len(wire[a]) \in Nat
         /\ \A i \in 1..Len(wire[a]) : wire[a][i] \in Seq(Entry)
<1>1. wire[a] \in Seq(Seq(Entry))
  BY DEF RosterTypes
<1> QED
  BY <1>1, ElementOfSeq, LenProperties

LEMMA MessageTypes ==
  ASSUME RosterTypes, NEW m \in Seq(Entry), NEW k \in 1..Len(m)
  PROVE  m[k] \in Entry /\ m[k].pid \in Roster!Pids /\ m[k].state \in 1..MaxJoins
<1>1. m[k] \in Entry
  BY ElementOfSeq
<1> QED
  BY <1>1 DEF Entry

(* What was proper stays so, if nobody takes a state that has been said.   *)
LEMMA ProperOn ==
  ASSUME RosterTypes, joins' \in Nat, joins <= joins', peak' \in Nat, peak <= peak',
         NEW a \in Conns, pid'[a] = pid[a], state'[a] = state[a],
         \A g \in Conns : stage'[g] # "out" =>
           \/ state'[g] = joins + 1
           \/ /\ stage[g] # "out" /\ pid'[g] = pid[g] /\ state'[g] = state[g]
              /\ stage'[g] = "added" => stage[g] = "added",
         NEW m \in Seq(Entry), Proper(a, m)
  PROVE  Proper(a, m)'
<1>1. m # <<>> /\ m[1] = [pid |-> pid'[a], state |-> state'[a]]
  BY DEF Proper, Said
<1>2. ASSUME NEW k \in 1..Len(m)
      PROVE  /\ m[k].pid <= peak' /\ m[k].state <= joins' /\ m[k].state # joins + 1
             /\ \A g \in Conns :
                  stage[g] # "out" /\ m[k].state = state[g] =>
                    stage[g] # "added" /\ m[k].pid = pid[g]
  <2>1. /\ m[k].pid \in Nat /\ m[k].state \in Nat /\ joins \in Nat /\ peak \in Nat
    <3>1. m[k].pid \in 1..MaxJoins /\ m[k].state \in 1..MaxJoins
      BY MessageTypes DEF Roster!Pids
    <3> QED
      BY <3>1, RosterNumbers DEF RosterTypes
  <2>2. m[k].pid <= peak /\ m[k].state <= joins
    BY DEF Proper
  <2> QED
    BY <2>1, <2>2 DEF Proper
<1>3. ASSUME NEW k \in 1..Len(m), NEW g \in Conns, stage'[g] # "out", m[k].state = state'[g]
      PROVE  stage'[g] # "added" /\ m[k].pid = pid'[g]
  BY <1>2, <1>3
<1> QED
  BY <1>1, <1>2, <1>3 DEF Proper, Said

(* Whoever is in the list is there once; whoever is not is nowhere in it.  *)
LEMMA SpawnRInv ==
  ASSUME RInv, NEW h \in Conns, Roster!Spawn(h)
  PROVE  RInv'
<1> USE RosterNumbers
<1>1. PICK n \in Nat : n = Len(players)
  BY LenProperties DEF RInv, RosterTypes
<1>2. /\ stage[h] = "added" /\ stage' = [stage EXCEPT ![h] = "listed"]
      /\ players' = Append(players, h)
      /\ UNCHANGED <<pid, state, allHandles, wire, my_pid, player_map, joins, peak>>
  BY DEF Roster!Spawn
<1>3. /\ players' \in Seq(Conns) /\ Len(players') = n + 1
      /\ \A i \in 1..n : players'[i] = players[i] /\ players[i] \in Conns
      /\ players'[n + 1] = h
  BY <1>1, <1>2, AppendProperties, ElementOfSeq DEF RInv, RosterTypes
<1>4. \A i \in 1..n : players[i] # h
  BY <1>1, <1>2 DEF RInv, RosterTypes
<1>5. RosterTypes'
  <2>1. stage' \in [Conns -> {"out", "added", "listed", "removed"}]
    BY <1>2 DEF RInv, RosterTypes
  <2>2. \A g \in Conns :
          (\E i \in 1..n + 1 : players'[i] = g) <=> stage'[g] \in {"listed", "removed"}
    <3>1. \A g \in Conns :
            (\E i \in 1..n + 1 : players'[i] = g) <=> g = h \/ \E i \in 1..n : players[i] = g
      BY <1>3
    <3> QED
      BY <1>1, <1>2, <3>1 DEF RInv, RosterTypes
  <2>3. ASSUME NEW i \in 1..n + 1, NEW j \in 1..n + 1, players'[i] = players'[j]
        PROVE  i = j
    <3>1. CASE i \in 1..n /\ j \in 1..n
      BY <1>1, <1>3, <2>3, <3>1 DEF RInv, RosterTypes
    <3>2. CASE i = n + 1 \/ j = n + 1
      BY <1>3, <1>4, <2>3, <3>2
    <3> QED
      BY <3>1, <3>2
  <2>4. /\ wire' \in [Conns -> Seq(Seq(Entry))] /\ joins' \in 0..MaxJoins /\ peak' \in Nat
        /\ my_pid' \in [Conns -> 0..MaxJoins]
        /\ player_map' \in [Conns -> [Roster!Pids -> 0..MaxJoins]]
        /\ pid' \in [Conns -> 0..MaxJoins] /\ state' \in [Conns -> 0..MaxJoins]
    BY <1>2 DEF RInv, RosterTypes
  <2> QED
    BY <1>3, <2>1, <2>2, <2>3, <2>4 DEF RosterTypes
<1>6. Here' = Here
  BY <1>2 DEF Here, RInv, RosterTypes
<1>7. PidsGiven' /\ StatesGiven'
  BY <1>2, <1>6 DEF RInv, RosterTypes, PidsGiven, StatesGiven
<1>8. OnTheWay'
  <2>1. joins' \in Nat /\ joins <= joins' /\ peak' \in Nat /\ peak <= peak'
    BY <1>2 DEF RInv, RosterTypes
  <2>2. \A a \in Conns : /\ stage'[a] # "out" => stage[a] # "out"
                         /\ stage'[a] \in {"out", "added"} => stage'[a] = stage[a]
    BY <1>2 DEF RInv, RosterTypes
  <2>3. \A a \in Conns, m \in Seq(Entry) : Proper(a, m) => Proper(a, m)'
    BY <1>2, <2>1, <2>2, ProperOn DEF RInv
  <2> QED
    BY <1>2, <2>2, <2>3, WireTypes DEF RInv, OnTheWay
<1>9. OnShow'
  BY <1>2 DEF RInv, RosterTypes, OnShow
<1>10. GhostsFirst'
  <2>1. \A x \in Conns : stage[x] \in {"listed", "removed"} /\ pid[x] = pid[h]
          => stage[x] = "removed"
    BY <1>2 DEF RInv, PidsGiven, Here
  <2>2. \A i \in 1..n : stage'[players[i]] = stage[players[i]]
    BY <1>2, <1>3, <1>4 DEF RInv, RosterTypes
  <2>3. \A i \in 1..n : stage[players[i]] \in {"listed", "removed"}
    BY <1>1, <1>3 DEF RInv, RosterTypes
  <2>4. \A i, j \in 1..n + 1 : i < j => i \in 1..n /\ (j \in 1..n \/ j = n + 1)
    OBVIOUS
  <2> QED
    BY <1>1, <1>2, <1>3, <2>1, <2>2, <2>3, <2>4 DEF RInv, GhostsFirst
<1>11. AllSteady'
  <2> SUFFICES ASSUME NEW a \in Conns, NEW g \in Conns,
                      stage'[a] = "listed", stage'[g] = "listed"
               PROVE  Steady(a, g)'
    BY DEF AllSteady
  <2>1. CASE a = h
    <3>1. wire'[h] = <<>> /\ \A p \in Roster!Pids : player_map'[h][p] = 0
      BY <1>2 DEF RInv, OnTheWay, OnShow
    <3>2. Len(wire'[h]) = 0
      BY <3>1
    <3>3. ~ Roster!Shows(h, g)'
      <4>1. pid[g] \in Roster!Pids /\ state[g] > 0 /\ state[g] \in Nat
        BY <1>2 DEF RInv, RosterTypes, PidsGiven, Roster!Pids
      <4> QED
        BY <1>2, <3>1, <4>1 DEF Roster!Shows
    <3> QED
      BY <2>1, <3>2, <3>3 DEF Steady
  <2>2. CASE a # h /\ g = h
    <3>1. ASSUME NEW i \in 1..Len(wire[a]) PROVE ~ Tells(wire[a][i], h)
      <4>0. Proper(a, wire[a][i])
        BY DEF RInv, OnTheWay
      <4> SUFFICES ASSUME NEW k \in 1..Len(wire[a][i]),
                          wire[a][i][k] = [pid |-> pid[h], state |-> state[h]]
                   PROVE  FALSE
        BY DEF Tells
      <4>1. wire[a][i][k].state = state[h]
        OBVIOUS
      <4> QED
        BY <1>2, <4>0, <4>1 DEF Proper
    <3>2. ~ Roster!Shows(a, h)
      <4>1. pid[h] \in Roster!Pids
        BY <1>2 DEF RInv, RosterTypes, PidsGiven, Roster!Pids
      <4> QED
        BY <1>2, <4>1 DEF RInv, OnShow, Roster!Shows
    <3> QED
      BY <1>2, <2>2, <3>1, <3>2 DEF Steady, Tells, Roster!Shows
  <2>3. CASE a # h /\ g # h
    <3>1. stage[a] = "listed" /\ stage[g] = "listed"
      BY <1>2, <2>3 DEF RInv, RosterTypes
    <3>2. Steady(a, g)
      BY <3>1 DEF RInv, AllSteady
    <3>3. \A x \in Conns : stage'[x] = "removed" => stage[x] = "removed"
      BY <1>2 DEF RInv, RosterTypes
    <3>4. NowTells(a, g) => NowTells(a, g)'
      BY <1>2, <3>3 DEF NowTells
    <3> QED
      BY <1>2, <3>2, <3>4, SteadyOn
  <2> QED
    BY <2>1, <2>2, <2>3
<1> QED
  BY <1>5, <1>7, <1>8, <1>9, <1>10, <1>11 DEF RInv

LEMMA RemoveHandleRInv ==
  ASSUME RInv, NEW h \in Conns, Roster!RemoveHandle(h)
  PROVE  RInv'
<1> USE RosterNumbers
<1>1. PICK n \in Nat : n = Len(players)
  BY LenProperties DEF RInv, RosterTypes
<1>2. /\ stage[h] = "listed" /\ stage' = [stage EXCEPT ![h] = "removed"]
      /\ allHandles' = allHandles \ {pid[h]}
      /\ UNCHANGED <<pid, state, players, wire, my_pid, player_map, joins, peak>>
  BY DEF Roster!RemoveHandle, Roster!Erase
<1>3. RosterTypes'
  BY <1>2 DEF RInv, RosterTypes
<1>4. PidsGiven' /\ StatesGiven'
  <2>1. Here' = Here \ {h} /\ h \in Here
    BY <1>2 DEF Here, RInv, RosterTypes
  <2>2. IsFiniteSet(Here)
    <3>1. Here \in SUBSET Conns
      BY DEF Here
    <3> QED
      BY <3>1, FS_Subset
  <2>3. Cardinality(Here') = Cardinality(Here) - 1 /\ Cardinality(Here) \in Nat
    BY <2>1, <2>2, FS_RemoveElement, FS_CardinalityType
  <2>4. Cardinality(Here') <= joins' /\ Cardinality(Here') <= peak'
    <3>1. /\ Cardinality(Here) <= joins /\ Cardinality(Here) <= peak
          /\ joins \in Nat /\ peak \in Nat
      BY DEF RInv, RosterTypes, PidsGiven
    <3> QED
      BY <1>2, <2>3, <3>1
  <2>5. allHandles' = {pid[g] : g \in Here'} /\ \A a, g \in Here' : pid[a] = pid[g] => a = g
    BY <1>2, <2>1 DEF RInv, PidsGiven
  <2>6. \A a \in Conns : stage'[a] = "out" <=> stage[a] = "out"
    BY <1>2 DEF RInv, RosterTypes
  <2> QED
    BY <1>2, <2>4, <2>5, <2>6 DEF RInv, PidsGiven, StatesGiven
<1>5. \A a \in Conns : /\ stage'[a] = "out" <=> stage[a] = "out"
                       /\ stage'[a] = "added" <=> stage[a] = "added"
                       /\ stage[a] = "removed" => stage'[a] = "removed"
                       /\ stage'[a] = "removed" => a = h \/ stage[a] = "removed"
                       /\ stage'[a] = "listed" => stage[a] = "listed" /\ a # h
  BY <1>2 DEF RInv, RosterTypes
<1>6. OnTheWay'
  <2>1. joins' \in Nat /\ joins <= joins' /\ peak' \in Nat /\ peak <= peak'
    BY <1>2 DEF RInv, RosterTypes
  <2>2. \A a \in Conns, m \in Seq(Entry) : Proper(a, m) => Proper(a, m)'
    BY <1>2, <1>5, <2>1, ProperOn DEF RInv
  <2> QED
    BY <1>2, <1>5, <2>2, WireTypes DEF RInv, OnTheWay
<1>7. OnShow'
  BY <1>2, <1>5 DEF RInv, OnShow
<1>8. GhostsFirst'
  <2>1. \A i \in 1..n : players[i] \in Conns
    BY <1>1, ElementOfSeq DEF RInv, RosterTypes
  <2> QED
    BY <1>1, <1>2, <1>5, <2>1 DEF RInv, GhostsFirst
<1>9. AllSteady'
  <2> SUFFICES ASSUME NEW a \in Conns, NEW g \in Conns,
                      stage'[a] = "listed", stage'[g] = "listed"
               PROVE  Steady(a, g)'
    BY DEF AllSteady
  <2>1. stage[a] = "listed" /\ stage[g] = "listed" /\ a # h /\ Steady(a, g)
    BY <1>5 DEF RInv, AllSteady
  <2>2. pid[h] # pid[a]
    BY <1>2, <2>1 DEF RInv, PidsGiven, Here
  <2>3. NowTells(a, g) => NowTells(a, g)'
    BY <1>2, <1>5, <2>2 DEF NowTells
  <2> QED
    BY <1>2, <2>1, <2>3, SteadyOn
<1> QED
  BY <1>3, <1>4, <1>6, <1>7, <1>8, <1>9 DEF RInv

LEMMA AddHandleRInv ==
  ASSUME RInv, NEW h \in Conns, Roster!AddHandle(h)
  PROVE  RInv'
<1> USE RosterNumbers
<1> DEFINE new == Roster!NewPid
<1>1. /\ stage[h] = "out" /\ joins < MaxJoins /\ stage' = [stage EXCEPT ![h] = "added"]
      /\ pid' = [pid EXCEPT ![h] = new] /\ allHandles' = allHandles \cup {new}
      /\ joins' = joins + 1 /\ state' = [state EXCEPT ![h] = joins + 1]
      /\ my_pid' = [my_pid EXCEPT ![h] = 0]
      /\ player_map' = [player_map EXCEPT ![h] = [p \in Roster!Pids |-> 0]]
      /\ UNCHANGED <<players, wire>>
  BY DEF Roster!AddHandle
<1>2. Here' = Here \cup {h} /\ h \notin Here
  BY <1>1 DEF Here, RInv, RosterTypes
<1>3. IsFiniteSet(Here) /\ Cardinality(Here) \in Nat /\ Cardinality(Conns) \in Nat
      /\ Cardinality(Here') = Cardinality(Here) + 1 /\ Cardinality(Here') <= Cardinality(Conns)
  <2>1. Here \in SUBSET Conns /\ Here' \in SUBSET Conns
    BY DEF Here
  <2>2. IsFiniteSet(Here)
    BY <2>1, FS_Subset
  <2> QED
    BY <1>2, <2>1, <2>2, FS_Subset, FS_AddElement, FS_CardinalityType
<1>4. peak' = IF Cardinality(Here') > peak THEN Cardinality(Here') ELSE peak
  BY SameCounts DEF Roster!AddHandle, Here
<1>5. PICK c \in Nat : c = Cardinality(Here)
  BY <1>3
<1>6. /\ joins \in Nat /\ peak \in Nat /\ c <= joins /\ c <= peak
      /\ peak <= joins /\ peak <= Cardinality(Conns)
  BY <1>5 DEF RInv, RosterTypes, PidsGiven
<1>7. /\ new \in Nat /\ new > 0 /\ new \in Roster!Pids /\ new \notin allHandles
      /\ new <= c + 1
  BY <1>1, <1>5, NewPidIs DEF RInv, Roster!Pids
<1>8. /\ joins' \in 0..MaxJoins /\ peak' \in Nat /\ peak <= peak' /\ c + 1 <= peak'
      /\ peak' <= joins' /\ peak' <= Cardinality(Conns) /\ c + 1 <= joins'
  BY <1>1, <1>3, <1>4, <1>5, <1>6
<1> HIDE DEF new
<1>9. /\ stage'[h] = "added" /\ pid'[h] = new /\ state'[h] = joins + 1
      /\ my_pid'[h] = 0 /\ \A p \in Roster!Pids : player_map'[h][p] = 0
      /\ \A a \in Conns \ {h} :
           /\ stage'[a] = stage[a] /\ pid'[a] = pid[a] /\ state'[a] = state[a]
           /\ my_pid'[a] = my_pid[a] /\ player_map'[a] = player_map[a]
  BY <1>1 DEF RInv, RosterTypes
<1>10. RosterTypes'
  <2>1. new \in 0..MaxJoins /\ joins + 1 \in 0..MaxJoins
    BY <1>1, <1>6, <1>7 DEF Roster!Pids
  <2>2. /\ stage' \in [Conns -> {"out", "added", "listed", "removed"}]
        /\ pid' \in [Conns -> 0..MaxJoins] /\ state' \in [Conns -> 0..MaxJoins]
        /\ my_pid' \in [Conns -> 0..MaxJoins]
        /\ player_map' \in [Conns -> [Roster!Pids -> 0..MaxJoins]]
    BY <1>1, <2>1 DEF RInv, RosterTypes
  <2>3. \A g \in Conns :
          (\E i \in 1..Len(players) : players[i] = g) <=> stage'[g] \in {"listed", "removed"}
    BY <1>1, <1>9 DEF RInv, RosterTypes
  <2> QED
    BY <1>1, <1>8, <2>2, <2>3 DEF RInv, RosterTypes
<1>11. PidsGiven'
  <2>1. allHandles' = {pid'[a] : a \in Here'}
    <3>1. \A a \in Here : a # h /\ a \in Conns
      BY <1>2 DEF Here
    <3>2. \A a \in Here : pid'[a] = pid[a]
      BY <1>9, <3>1
    <3> QED
      BY <1>1, <1>2, <1>9, <3>2 DEF RInv, PidsGiven
  <2>2. ASSUME NEW a \in Here', NEW b \in Here', pid'[a] = pid'[b] PROVE a = b
    <3>1. \A d \in Here : d # h /\ d \in Conns /\ pid'[d] = pid[d] /\ pid[d] \in allHandles
      BY <1>2, <1>9 DEF Here, RInv, PidsGiven
    <3> QED
      BY <1>2, <1>7, <1>9, <2>2, <3>1 DEF RInv, PidsGiven
  <2>3. ASSUME NEW a \in Conns, stage'[a] # "out" PROVE pid'[a] \in 1..peak' /\ state'[a] > 0
    <3>1. CASE a = h
      BY <1>6, <1>7, <1>8, <1>9, <3>1
    <3>2. CASE a # h
      BY <1>6, <1>8, <1>9, <2>3, <3>2 DEF RInv, PidsGiven
    <3> QED
      BY <3>1, <3>2
  <2>4. \A a \in Conns : stage'[a] = "out" => pid'[a] = 0
    BY <1>9 DEF RInv, PidsGiven
  <2>5. Cardinality(Here') <= joins' /\ Cardinality(Here') <= peak'
    BY <1>3, <1>5, <1>8
  <2> QED
    BY <1>8, <2>1, <2>2, <2>3, <2>4, <2>5 DEF PidsGiven
<1>12. StatesGiven'
  <2>1. \A a \in Conns : state[a] \in Nat /\ state[a] <= joins
    BY DEF RInv, RosterTypes, StatesGiven
  <2>2. \A a \in Conns : a = h \/ (a \in Conns \ {h} /\ state'[a] = state[a])
    BY <1>9
  <2> QED
    BY <1>1, <1>6, <1>9, <2>1, <2>2 DEF RInv, StatesGiven
<1>13. OnTheWay'
  <2>1. wire'[h] = <<>> /\ Len(wire'[h]) = 0
    BY <1>1, EmptySeq DEF RInv, OnTheWay
  <2>2. \A g \in Conns : stage'[g] # "out" =>
          \/ state'[g] = joins + 1
          \/ /\ stage[g] # "out" /\ pid'[g] = pid[g] /\ state'[g] = state[g]
             /\ stage'[g] = "added" => stage[g] = "added"
    BY <1>9
  <2>3. joins' \in Nat /\ joins <= joins'
    BY <1>1, <1>6
  <2>4. \A a \in Conns \ {h}, m \in Seq(Entry) : Proper(a, m) => Proper(a, m)'
    BY <1>8, <1>9, <2>2, <2>3, ProperOn DEF RInv
  <2>5. ASSUME NEW a \in Conns \ {h}
        PROVE  /\ Len(wire'[a]) <= MaxWire
               /\ stage'[a] \in {"out", "added"} => wire'[a] = <<>>
               /\ \A i \in 1..Len(wire'[a]) : Proper(a, wire[a][i])'
    BY <1>1, <1>9, <2>4, WireTypes DEF RInv, OnTheWay
  <2> QED
    BY <2>1, <2>5 DEF OnTheWay
<1>14. OnShow'
  <2> SUFFICES ASSUME NEW a \in Conns
               PROVE  /\ stage'[a] = "added" => my_pid'[a] = 0 /\ \A p \in Roster!Pids : player_map'[a][p] = 0
                      /\ stage'[a] # "out" => my_pid'[a] \in {0, pid'[a]}
                      /\ \A p \in Roster!Pids :
                           /\ player_map'[a][p] # 0 => p <= peak'
                           /\ player_map'[a][p] <= joins'
                           /\ \A g \in Conns : stage'[g] = "added" => player_map'[a][p] # state'[g]
    BY DEF OnShow
  <2>1. CASE a = h
    <3>1. ASSUME NEW g \in Conns, stage'[g] = "added" PROVE state'[g] # 0
      <4>1. g # h => state[g] > 0
        BY <1>9, <3>1 DEF RInv, PidsGiven
      <4> QED
        BY <1>6, <1>9, <4>1
    <3> QED
      BY <1>8, <1>9, <2>1, <3>1
  <2>2. CASE a # h
    <3>1. \A p \in Roster!Pids :
            /\ player_map'[a][p] \in Nat /\ player_map'[a][p] <= joins
            /\ player_map'[a][p] # 0 => p \in Nat /\ p <= peak
      BY <1>9, <2>2 DEF RInv, RosterTypes, OnShow, Roster!Pids
    <3>2. \A p \in Roster!Pids :
            /\ player_map'[a][p] # 0 => p <= peak'
            /\ player_map'[a][p] <= joins' /\ player_map'[a][p] # joins + 1
      BY <1>1, <1>6, <1>8, <3>1
    <3>3. \A p \in Roster!Pids, g \in Conns : stage'[g] = "added" => player_map'[a][p] # state'[g]
      BY <1>9, <2>2, <3>2 DEF RInv, OnShow
    <3>4. /\ stage'[a] = "added" => my_pid'[a] = 0 /\ \A p \in Roster!Pids : player_map'[a][p] = 0
          /\ stage'[a] # "out" => my_pid'[a] \in {0, pid'[a]}
      BY <1>9, <2>2 DEF RInv, OnShow
    <3> QED
      BY <3>2, <3>3, <3>4
  <2> QED
    BY <2>1, <2>2
<1>15. GhostsFirst'
  <2>1. \A i \in 1..Len(players) : players[i] \in Conns /\ players[i] # h
    BY <1>1, ElementOfSeq DEF RInv, RosterTypes
  <2> QED
    BY <1>1, <1>9, <2>1 DEF RInv, GhostsFirst
<1>16. AllSteady'
  <2> SUFFICES ASSUME NEW a \in Conns, NEW g \in Conns,
                      stage'[a] = "listed", stage'[g] = "listed"
               PROVE  Steady(a, g)'
    BY DEF AllSteady
  <2>1. a # h /\ g # h /\ Steady(a, g)
    BY <1>9 DEF RInv, AllSteady
  <2>2. NowTells(a, g) => NowTells(a, g)'
    BY <1>9, <2>1 DEF NowTells
  <2> QED
    BY <1>1, <1>9, <2>1, <2>2, SteadyOn
<1> QED
  BY <1>10, <1>11, <1>12, <1>13, <1>14, <1>15, <1>16 DEF RInv

LEMMA DestroyRInv ==
  ASSUME RInv, NEW h \in Conns, Roster!Destroy(h)
  PROVE  RInv'
<1> USE RosterNumbers
<1>1. /\ stage[h] = "removed" /\ stage' = [stage EXCEPT ![h] = "out"]
      /\ players' = Roster!Others(h) /\ pid' = [pid EXCEPT ![h] = 0]
      /\ wire' = [wire EXCEPT ![h] = <<>>]
      /\ UNCHANGED <<state, allHandles, my_pid, player_map, joins, peak>>
  BY DEF Roster!Destroy
<1>2. PICK n \in Nat : n = Len(players)
  BY LenProperties DEF RInv, RosterTypes
<1>3. PICK at \in 1..n : players[at] = h
  BY <1>1, <1>2 DEF RInv, RosterTypes
<1>4. /\ players' \in Seq(Conns) /\ Len(players') = n - 1
      /\ \A j \in 1..n - 1 : players'[j] = players[IF j < at THEN j ELSE j + 1]
  BY <1>1, <1>2, <1>3, OthersAre DEF RInv
<1>5. /\ stage'[h] = "out" /\ pid'[h] = 0 /\ wire'[h] = <<>>
      /\ \A a \in Conns \ {h} :
           stage'[a] = stage[a] /\ pid'[a] = pid[a] /\ wire'[a] = wire[a]
  BY <1>1 DEF RInv, RosterTypes
<1>6. /\ \A i \in 1..n : players[i] \in Conns
      /\ \A i \in 1..n : players[i] = h => i = at
      /\ \A i, j \in 1..n : players[i] = players[j] => i = j
  BY <1>2, <1>3, ElementOfSeq DEF RInv, RosterTypes
<1>7. \A j \in 1..n - 1 :
        /\ (IF j < at THEN j ELSE j + 1) \in 1..n
        /\ (IF j < at THEN j ELSE j + 1) # at
  BY <1>2
<1>8. RosterTypes'
  <2>1. /\ stage' \in [Conns -> {"out", "added", "listed", "removed"}]
        /\ pid' \in [Conns -> 0..MaxJoins] /\ state' \in [Conns -> 0..MaxJoins]
        /\ wire' \in [Conns -> Seq(Seq(Entry))]
        /\ my_pid' \in [Conns -> 0..MaxJoins]
        /\ player_map' \in [Conns -> [Roster!Pids -> 0..MaxJoins]]
        /\ joins' \in 0..MaxJoins /\ peak' \in Nat
    BY <1>1, EmptySeq DEF RInv, RosterTypes
  <2>2. ASSUME NEW g \in Conns
        PROVE  (\E i \in 1..n - 1 : players'[i] = g) <=> stage'[g] \in {"listed", "removed"}
    <3>1. ASSUME NEW i \in 1..n - 1, players'[i] = g
          PROVE  stage'[g] \in {"listed", "removed"}
      <4>1. PICK k \in 1..n : k # at /\ players[k] = g
        BY <1>4, <1>7, <3>1
      <4>2. g # h
        BY <1>6, <4>1
      <4> QED
        BY <1>2, <1>5, <4>1, <4>2 DEF RInv, RosterTypes
    <3>2. ASSUME stage'[g] \in {"listed", "removed"}
          PROVE  \E i \in 1..n - 1 : players'[i] = g
      <4>1. g # h /\ stage[g] \in {"listed", "removed"}
        BY <1>5, <3>2
      <4>2. PICK k \in 1..n : players[k] = g
        BY <1>2, <4>1 DEF RInv, RosterTypes
      <4>3. k # at
        BY <1>3, <4>1, <4>2
      <4>4. CASE k < at
        <5>1. k \in 1..n - 1
          BY <4>4
        <5> QED
          BY <1>4, <4>2, <4>4, <5>1
      <4>5. CASE k > at
        <5>1. k - 1 \in 1..n - 1 /\ ~ (k - 1 < at) /\ k - 1 + 1 = k
          BY <4>5
        <5> QED
          BY <1>4, <4>2, <5>1
      <4> QED
        BY <4>3, <4>4, <4>5
    <3> QED
      BY <3>1, <3>2
  <2>3. ASSUME NEW i \in 1..n - 1, NEW j \in 1..n - 1, players'[i] = players'[j]
        PROVE  i = j
    <3>1. (IF i < at THEN i ELSE i + 1) = (IF j < at THEN j ELSE j + 1)
      BY <1>4, <1>6, <1>7, <2>3
    <3> QED
      BY <3>1
  <2> QED
    BY <1>4, <2>1, <2>2, <2>3 DEF RosterTypes
<1>9. Here' = Here
  BY <1>1, <1>5 DEF Here
<1>10. PidsGiven' /\ StatesGiven'
  <2>1. \A a \in Here : a # h /\ a \in Conns /\ pid'[a] = pid[a]
    BY <1>1, <1>5 DEF Here
  <2>2. allHandles' = {pid'[a] : a \in Here'} /\ \A a, b \in Here' : pid'[a] = pid'[b] => a = b
    BY <1>1, <1>9, <2>1 DEF RInv, PidsGiven
  <2>3. /\ \A a \in Conns : stage'[a] # "out" => pid'[a] \in 1..peak' /\ state'[a] > 0
        /\ \A a \in Conns : stage'[a] = "out" => pid'[a] = 0
    BY <1>1, <1>5 DEF RInv, PidsGiven
  <2> QED
    BY <1>1, <1>9, <2>2, <2>3 DEF RInv, PidsGiven, StatesGiven
<1>11. OnTheWay'
  <2>1. Len(wire'[h]) = 0
    BY <1>5, EmptySeq
  <2>2. joins' \in Nat /\ joins <= joins' /\ peak' \in Nat /\ peak <= peak'
    BY <1>1 DEF RInv, RosterTypes
  <2>3. \A g \in Conns : stage'[g] # "out" => g # h /\ stage'[g] = stage[g] /\ pid'[g] = pid[g]
    BY <1>5
  <2>4. \A a \in Conns \ {h}, m \in Seq(Entry) : Proper(a, m) => Proper(a, m)'
    BY <1>1, <1>5, <2>2, <2>3, ProperOn DEF RInv
  <2>5. ASSUME NEW a \in Conns \ {h}
        PROVE  /\ Len(wire'[a]) <= MaxWire
               /\ stage'[a] \in {"out", "added"} => wire'[a] = <<>>
               /\ \A i \in 1..Len(wire'[a]) : Proper(a, wire[a][i])'
    BY <1>1, <1>5, <2>4, WireTypes DEF RInv, OnTheWay
  <2> QED
    BY <1>5, <2>1, <2>5 DEF OnTheWay
<1>12. OnShow'
  <2>1. \A g \in Conns : stage'[g] # "out" => g # h /\ stage'[g] = stage[g] /\ pid'[g] = pid[g]
    BY <1>5
  <2> QED
    BY <1>1, <2>1 DEF RInv, OnShow
<1>13. GhostsFirst'
  <2> SUFFICES ASSUME NEW i \in 1..n - 1, NEW j \in 1..n - 1, i < j,
                      pid'[players'[i]] = pid'[players'[j]]
               PROVE  stage'[players'[i]] = "removed"
    BY <1>4 DEF GhostsFirst
  <2>1. PICK k \in 1..n, l \in 1..n :
          /\ k # at /\ l # at /\ k < l
          /\ players'[i] = players[k] /\ players'[j] = players[l]
    <3>1. (IF i < at THEN i ELSE i + 1) < (IF j < at THEN j ELSE j + 1)
      OBVIOUS
    <3> QED
      BY <1>4, <1>7, <3>1
  <2>2. players[k] # h /\ players[l] # h /\ players[k] \in Conns /\ players[l] \in Conns
    BY <1>6, <2>1
  <2> QED
    BY <1>2, <1>5, <2>1, <2>2 DEF RInv, GhostsFirst
<1>14. AllSteady'
  <2> SUFFICES ASSUME NEW a \in Conns, NEW g \in Conns,
                      stage'[a] = "listed", stage'[g] = "listed"
               PROVE  Steady(a, g)'
    BY DEF AllSteady
  <2>1. a # h /\ g # h /\ Steady(a, g)
    BY <1>5 DEF RInv, AllSteady
  <2>2. NowTells(a, g) => NowTells(a, g)'
    BY <1>5, <2>1 DEF NowTells
  <2> QED
    BY <1>1, <1>5, <2>1, <2>2, SteadyOn
<1> QED
  BY <1>8, <1>10, <1>11, <1>12, <1>13, <1>14 DEF RInv

(* The list a client is sent is whole, its own entry first, and it tells   *)
(* of everyone whose pid is not hidden behind one that is leaving.         *)
LEMMA EntriesTell ==
  ASSUME RInv, NEW a \in Conns, stage[a] \in {"listed", "removed"}
  PROVE  LET m == Roster!Entries(a)
         IN  /\ m \in Seq(Entry) /\ m[1] = Said(a) /\ m # <<>> /\ Proper(a, m)
             /\ \A g \in Conns :
                  stage[a] = "listed" /\ stage[g] = "listed" =>
                    (Tells(m, g) <=> NowTells(a, g))
<1> USE RosterNumbers
<1> DEFINE m == Roster!Entries(a)
<1>1. PICK n \in Nat : n = Len(players)
  BY LenProperties DEF RInv, RosterTypes
<1>2. PICK at \in 1..n : players[at] = a
  BY <1>1 DEF RInv, RosterTypes
<1> DEFINE src(k) == IF k = 1 THEN at ELSE IF k <= at THEN k - 1 ELSE k
<1>3. DOMAIN m = 1..n /\ \A k \in 1..n : m[k] = Said(players[src(k)])
  BY <1>1, <1>2, EntriesAre DEF RInv
<1>4. /\ \A k \in 1..n : src(k) \in 1..n /\ (src(k) = at => k = 1)
      /\ 1 \in 1..n /\ src(1) = at
  BY <1>2
<1>5. \A i \in 1..n : players[i] \in Conns /\ stage[players[i]] \in {"listed", "removed"}
  BY <1>1, ElementOfSeq DEF RInv, RosterTypes
<1>6. \A i, j \in 1..n : players[i] = players[j] => i = j
  BY <1>1 DEF RInv, RosterTypes
<1>7. \A x \in Conns : stage[x] \in {"listed", "removed"} => \E i \in 1..n : players[i] = x
  BY <1>1 DEF RInv, RosterTypes
<1>8. ASSUME NEW x \in Conns, stage[x] \in {"listed", "removed"}
      PROVE  Said(x) \in Entry /\ pid[x] \in Nat /\ pid[x] <= peak /\ state[x] <= joins
  <2>1. pid[x] \in 1..peak /\ state[x] > 0 /\ state[x] \in 0..MaxJoins
        /\ state[x] <= joins /\ peak <= joins /\ joins \in 0..MaxJoins /\ peak \in Nat
    BY <1>8 DEF RInv, RosterTypes, PidsGiven, StatesGiven
  <2>2. pid[x] \in 1..MaxJoins /\ state[x] \in 1..MaxJoins
    BY <2>1
  <2> QED
    BY <2>1, <2>2 DEF Said, Entry, Roster!Pids
<1>9. \A k \in 1..n : \E x \in Conns :
        stage[x] \in {"listed", "removed"} /\ x = players[src(k)] /\ m[k] = Said(x)
  BY <1>3, <1>4, <1>5
<1> HIDE DEF src
<1>10. m \in Seq(Entry) /\ Len(m) = n /\ m # <<>>
  <2>1. m = [k \in 1..n |-> m[k]]
    <3>1. \E order : m = [i \in DOMAIN order |-> [pid |-> pid[order[i]], state |-> state[order[i]]]]
      BY DEF Roster!Entries
    <3> QED
      BY <1>3, <3>1
  <2>2. \A k \in 1..n : m[k] \in Entry
    BY <1>8, <1>9
  <2> HIDE DEF m
  <2>3. m \in Seq(Entry)
    BY <2>1, <2>2
  <2> QED
    BY <1>3, <1>4, <2>3, LenProperties, EmptySeq
<1> HIDE DEF m
<1>11. m[1] = Said(a)
  BY <1>2, <1>3, <1>4
<1>12. ASSUME NEW k \in 1..n
       PROVE  /\ m[k].pid <= peak /\ m[k].state <= joins
              /\ \A g \in Conns :
                   stage[g] # "out" /\ m[k].state = state[g] => g = players[src(k)]
  <2>1. PICK x \in Conns :
          stage[x] \in {"listed", "removed"} /\ x = players[src(k)] /\ m[k] = Said(x)
    BY <1>9
  <2>2. m[k].pid = pid[x] /\ m[k].state = state[x]
    BY <2>1 DEF Said
  <2>3. \A g \in Conns : stage[g] # "out" /\ state[x] = state[g] => g = x
    BY DEF RInv, StatesGiven, PidsGiven
  <2> QED
    BY <1>8, <2>1, <2>2, <2>3
<1>13. Proper(a, m)
  <2>1. ASSUME NEW k \in 1..n, NEW g \in Conns, stage[g] # "out", m[k].state = state[g]
        PROVE  stage[g] # "added" /\ m[k].pid = pid[g]
    <3>1. g = players[src(k)] /\ m[k] = Said(g)
      BY <1>3, <1>12, <2>1
    <3> QED
      BY <1>4, <1>5, <3>1 DEF Said
  <2> QED
    BY <1>10, <1>11, <1>12, <2>1 DEF Proper
<1>14. ASSUME NEW g \in Conns, stage[a] = "listed", stage[g] = "listed"
       PROVE  Tells(m, g) <=> NowTells(a, g)
  <2>1. CASE g = a
    <3>1. ASSUME Tells(m, a), NEW x \in Conns, stage[x] = "removed", pid[x] = pid[a]
          PROVE  FALSE
      <4>1. PICK i \in 1..n : m[i] = Said(a) /\ \A j \in 1..n : j > i => m[j].pid # pid[a]
        BY <1>10, <3>1 DEF Tells, Said
      <4>2. a = players[src(i)]
        <5>1. m[i].state = state[a]
          BY <4>1 DEF Said
        <5> QED
          BY <1>12, <1>14, <5>1
      <4>3. i = 1
        BY <1>2, <1>4, <1>6, <4>2
      <4>4. PICK j \in 1..n : players[j] = x
        BY <1>7, <3>1
      <4>5. j # at
        BY <1>2, <1>14, <3>1, <4>4
      <4>6. PICK k \in 1..n : k > 1 /\ src(k) = j
        <5>1. CASE j < at
          <6>1. j + 1 \in 1..n /\ j + 1 > 1 /\ src(j + 1) = j
            BY <5>1 DEF src
          <6> QED
            BY <6>1
        <5>2. CASE j > at
          <6>1. j > 1 /\ src(j) = j
            BY <5>2 DEF src
          <6> QED
            BY <6>1
        <5> QED
          BY <4>5, <5>1, <5>2
      <4>7. m[k].pid = pid[a]
        BY <1>3, <3>1, <4>4, <4>6 DEF Said
      <4> QED
        BY <4>1, <4>3, <4>6, <4>7
    <3>2. ASSUME NowTells(a, a) PROVE Tells(m, a)
      <4>1. ASSUME NEW j \in 1..n, j > 1 PROVE m[j].pid # pid[a]
        <5>1. players[src(j)] # a
          BY <1>2, <1>4, <1>6, <4>1
        <5>2. stage[players[src(j)]] = "listed" => pid[players[src(j)]] # pid[a]
          BY <1>4, <1>5, <1>14, <5>1 DEF RInv, PidsGiven, Here
        <5>3. stage[players[src(j)]] = "removed" => pid[players[src(j)]] # pid[a]
          BY <1>4, <1>5, <3>2 DEF NowTells
        <5> QED
          BY <1>3, <1>4, <1>5, <5>2, <5>3 DEF Said
      <4> QED
        BY <1>4, <1>10, <1>11, <4>1 DEF Tells, Said
    <3> QED
      BY <2>1, <3>1, <3>2 DEF NowTells
  <2>2. CASE g # a
    <3>1. PICK b \in 1..n : players[b] = g
      BY <1>7, <1>14
    <3>2. b # at
      BY <1>2, <2>2, <3>1
    <3>3. PICK i \in 1..n : src(i) = b /\ \A j \in 1..n : j > i => src(j) > b
      <4>1. CASE b < at
        <5>1. b + 1 \in 1..n /\ src(b + 1) = b
          BY <4>1 DEF src
        <5>2. \A j \in 1..n : j > b + 1 => src(j) > b
          BY <4>1 DEF src
        <5> QED
          BY <5>1, <5>2
      <4>2. CASE b > at
        <5>1. src(b) = b /\ \A j \in 1..n : j > b => src(j) > b
          BY <4>2 DEF src
        <5> QED
          BY <5>1
      <4> QED
        BY <3>2, <4>1, <4>2
    <3>4. ASSUME NEW j \in 1..n, j > i PROVE m[j].pid # pid[g]
      <4>1. src(j) \in 1..n /\ b < src(j)
        BY <1>4, <3>3, <3>4
      <4>2. pid[players[src(j)]] # pid[g]
        BY <1>1, <1>14, <3>1, <4>1 DEF RInv, GhostsFirst
      <4> QED
        BY <1>3, <4>2 DEF Said
    <3>5. m[i] = [pid |-> pid[g], state |-> state[g]]
      BY <1>3, <3>1, <3>3 DEF Said
    <3>6. Tells(m, g)
      BY <1>10, <3>4, <3>5 DEF Tells
    <3> QED
      BY <2>2, <3>6 DEF NowTells
  <2> QED
    BY <2>1, <2>2
<1> QED
  BY <1>10, <1>11, <1>13, <1>14 DEF m

LEMMA UpdateNetRInv ==
  ASSUME RInv, Roster!UpdateNet
  PROVE  RInv'
<1> USE RosterNumbers
<1>1. /\ \A a \in Roster!ToSet(players) : Len(wire[a]) < MaxWire
      /\ wire' = [a \in Conns |->
           IF a \in Roster!ToSet(players) THEN Append(wire[a], Roster!Entries(a)) ELSE wire[a]]
      /\ UNCHANGED <<stage, pid, state, allHandles, players, my_pid, player_map, joins, peak>>
  BY DEF Roster!UpdateNet
<1>2. \A a \in Conns : a \in Roster!ToSet(players) <=> stage[a] \in {"listed", "removed"}
  BY ListedAre DEF RInv, RosterTypes
<1>3. ASSUME NEW a \in Conns, stage[a] \in {"listed", "removed"}
      PROVE  /\ wire'[a] \in Seq(Seq(Entry)) /\ Len(wire'[a]) = Len(wire[a]) + 1
             /\ Len(wire'[a]) <= MaxWire
             /\ \A i \in 1..Len(wire[a]) : wire'[a][i] = wire[a][i]
             /\ wire'[a][Len(wire[a]) + 1] = Roster!Entries(a)
  <2>1. /\ wire'[a] = Append(wire[a], Roster!Entries(a)) /\ Len(wire[a]) < MaxWire
        /\ wire[a] \in Seq(Seq(Entry)) /\ Len(wire[a]) \in Nat
        /\ Roster!Entries(a) \in Seq(Entry)
    BY <1>1, <1>2, <1>3, WireTypes, EntriesTell DEF RInv
  <2> QED
    BY <2>1, AppendProperties
<1>4. \A a \in Conns : stage[a] \notin {"listed", "removed"} => wire'[a] = wire[a]
  BY <1>1, <1>2
<1>5. RosterTypes'
  <2>1. wire' \in [Conns -> Seq(Seq(Entry))]
    BY <1>1, <1>3, <1>4 DEF RInv, RosterTypes
  <2> QED
    BY <1>1, <2>1 DEF RInv, RosterTypes
<1>6. PidsGiven' /\ StatesGiven' /\ OnShow' /\ GhostsFirst'
  BY <1>1 DEF RInv, PidsGiven, StatesGiven, OnShow, GhostsFirst, Here
<1>7. OnTheWay'
  <2>1. \A a \in Conns, m \in Seq(Entry) : Proper(a, m)' <=> Proper(a, m)
    BY <1>1 DEF Proper, Said
  <2>2. ASSUME NEW a \in Conns, stage[a] \in {"listed", "removed"},
               NEW i \in 1..Len(wire'[a])
        PROVE  Proper(a, wire[a][i])'
    <3>1. CASE i \in 1..Len(wire[a])
      BY <1>3, <2>1, <2>2, <3>1, WireTypes DEF RInv, OnTheWay
    <3>2. CASE i = Len(wire[a]) + 1
      BY <1>3, <2>1, <2>2, <3>2, EntriesTell
    <3> QED
      BY <1>3, <2>2, <3>1, <3>2, WireTypes DEF RInv
  <2>3. ASSUME NEW a \in Conns, stage[a] \notin {"listed", "removed"},
               NEW i \in 1..Len(wire'[a])
        PROVE  Proper(a, wire[a][i])'
    BY <1>4, <2>1, <2>3, WireTypes DEF RInv, OnTheWay
  <2>4. \A a \in Conns : /\ Len(wire'[a]) <= MaxWire
                         /\ stage'[a] \in {"out", "added"} => wire'[a] = <<>>
    BY <1>1, <1>3, <1>4 DEF RInv, OnTheWay
  <2> QED
    BY <2>2, <2>3, <2>4 DEF OnTheWay
<1>8. AllSteady'
  <2> SUFFICES ASSUME NEW a \in Conns, NEW g \in Conns, stage[a] = "listed", stage[g] = "listed"
               PROVE  Steady(a, g)'
    BY <1>1 DEF AllSteady
  <2>1. Steady(a, g) /\ Len(wire[a]) \in Nat
    BY WireTypes DEF RInv, AllSteady
  <2>2. \A i : Tells(wire[a][i], g)' <=> Tells(wire'[a][i], g)
    BY <1>1 DEF Tells
  <2>3. /\ \A i \in 1..Len(wire[a]) : Tells(wire[a][i], g)' <=> Tells(wire[a][i], g)
        /\ \A i : i = Len(wire[a]) + 1 => (Tells(wire[a][i], g)' <=> NowTells(a, g))
    BY <1>3, <2>2, EntriesTell
  <2>4. /\ NowTells(a, g)' <=> NowTells(a, g)
        /\ Roster!Shows(a, g)' <=> Roster!Shows(a, g)
    BY <1>1 DEF NowTells, Roster!Shows
  <2>5. Len(wire'[a]) = Len(wire[a]) + 1
    BY <1>3
  <2>6. ASSUME NEW i \in 1..Len(wire'[a]), Tells(wire[a][i], g)'
        PROVE  NowTells(a, g)' /\ \A j \in i..Len(wire'[a]) : Tells(wire[a][j], g)'
    <3>1. CASE i \in 1..Len(wire[a])
      <4>1. NowTells(a, g) /\ \A j \in i..Len(wire[a]) : Tells(wire[a][j], g)
        BY <2>1, <2>3, <2>6, <3>1 DEF Steady
      <4>2. \A j \in i..Len(wire'[a]) : j \in 1..Len(wire[a]) \/ j = Len(wire[a]) + 1
        BY <2>1, <2>5, <3>1
      <4> QED
        BY <2>1, <2>3, <2>4, <3>1, <4>1, <4>2
    <3>2. CASE i = Len(wire[a]) + 1
      BY <2>1, <2>3, <2>4, <2>5, <2>6, <3>2
    <3> QED
      BY <2>1, <2>5, <3>1, <3>2
  <2>7. ASSUME Roster!Shows(a, g)
        PROVE  NowTells(a, g)' /\ \A j \in 1..Len(wire'[a]) : Tells(wire[a][j], g)'
    <3>1. NowTells(a, g) /\ \A j \in 1..Len(wire[a]) : Tells(wire[a][j], g)
      BY <2>1, <2>7 DEF Steady
    <3>2. \A j \in 1..Len(wire'[a]) : j \in 1..Len(wire[a]) \/ j = Len(wire[a]) + 1
      BY <2>1, <2>5
    <3> QED
      BY <2>3, <2>4, <3>1, <3>2
  <2> QED
    BY <2>4, <2>6, <2>7 DEF Steady
<1> QED
  BY <1>5, <1>6, <1>7, <1>8 DEF RInv

(* What a message makes of a client's view of g.                           *)
LEMMA ShownTells ==
  ASSUME RInv, NEW a \in Conns, NEW g \in Conns, stage[g] = "listed",
         NEW m \in Seq(Entry)
  PROVE  LET after == Roster!Shown(player_map[a], m)[pid[g]] = state[g]
         IN  /\ Tells(m, g) => after
             /\ after => Tells(m, g) \/ Roster!Shows(a, g)
<1> DEFINE new == Roster!Shown(player_map[a], m)[pid[g]]
<1>1. pid[g] \in Roster!Pids /\ pid[g] # 0
  <2>1. MaxJoins \in Nat /\ peak \in Nat /\ joins \in 0..MaxJoins /\ peak <= joins
    BY RosterNumbers DEF RInv, RosterTypes, PidsGiven
  <2>2. pid[g] \in 1..peak
    BY DEF RInv, PidsGiven
  <2> QED
    BY <2>1, <2>2 DEF Roster!Pids
<1>2. Len(m) \in Nat
  BY LenProperties
<1>3. CASE (\A k \in 1..Len(m) : m[k].pid # pid[g]) /\ new = player_map[a][pid[g]]
  <2>1. ~ Tells(m, g)
    <3> SUFFICES ASSUME NEW i \in 1..Len(m), m[i] = [pid |-> pid[g], state |-> state[g]]
                 PROVE  FALSE
      BY DEF Tells
    <3>1. m[i].pid = pid[g]
      OBVIOUS
    <3> QED
      BY <1>3, <3>1
  <2> QED
    BY <1>1, <1>3, <2>1 DEF Roster!Shows
<1>4. CASE \E i \in 1..Len(m) : /\ m[i].pid = pid[g]
                                /\ \A k \in 1..Len(m) : k > i => m[k].pid # pid[g]
                                /\ new = m[i].state
  <2>1. PICK i \in 1..Len(m) : /\ m[i].pid = pid[g]
                               /\ \A k \in 1..Len(m) : k > i => m[k].pid # pid[g]
                               /\ new = m[i].state
    BY <1>4
  <2>2. ASSUME Tells(m, g) PROVE new = state[g]
    <3>1. PICK j \in 1..Len(m) : /\ m[j] = [pid |-> pid[g], state |-> state[g]]
                                 /\ \A k \in 1..Len(m) : k > j => m[k].pid # pid[g]
      BY <2>2 DEF Tells
    <3>2. m[j].pid = pid[g] /\ m[j].state = state[g]
      BY <3>1
    <3>3. i = j
      BY <1>2, <2>1, <3>1, <3>2
    <3> QED
      BY <2>1, <3>2, <3>3
  <2>3. ASSUME new = state[g] PROVE Tells(m, g)
    <3>1. m[i] \in Entry
      BY ElementOfSeq
    <3>2. m[i] = [pid |-> pid[g], state |-> state[g]]
      BY <2>1, <2>3, <3>1 DEF Entry
    <3> QED
      BY <2>1, <3>2 DEF Tells
  <2> QED
    BY <2>2, <2>3
<1> QED
  BY <1>1, <1>3, <1>4, ShownIs

LEMMA OnDataTypes ==
  ASSUME RInv, NEW h \in Conns, Roster!OnData(h)
  PROVE  LET m == wire[h][1]
         IN  /\ m \in Seq(Entry) /\ Proper(h, m) /\ stage[h] \in {"listed", "removed"}
             /\ my_pid' = [my_pid EXCEPT ![h] = IF my_pid[h] = 0 THEN pid[h] ELSE @]
             /\ player_map' = [player_map EXCEPT ![h] = Roster!Shown(player_map[h], m)]
             /\ wire' = [wire EXCEPT ![h] = Tail(wire[h])]
             /\ Tail(wire[h]) \in Seq(Seq(Entry))
             /\ Len(wire[h]) > 0 /\ Len(Tail(wire[h])) = Len(wire[h]) - 1
             /\ \A i \in 1..Len(wire[h]) - 1 : Tail(wire[h])[i] = wire[h][i + 1]
<1>1. wire[h] # <<>> /\ wire[h] \in Seq(Seq(Entry)) /\ Len(wire[h]) \in Nat
  BY WireTypes DEF RInv, Roster!OnData
<1>2. /\ Tail(wire[h]) \in Seq(Seq(Entry)) /\ Len(Tail(wire[h])) = Len(wire[h]) - 1
      /\ \A i \in 1..Len(Tail(wire[h])) : Tail(wire[h])[i] = wire[h][i + 1]
      /\ Len(wire[h]) > 0
  BY <1>1, HeadTailProperties, EmptySeq
<1>3. 1 \in 1..Len(wire[h]) /\ Head(wire[h]) = wire[h][1]
  BY <1>1, <1>2
<1>4. wire[h][1] \in Seq(Entry) /\ Proper(h, wire[h][1])
  BY <1>3, WireTypes DEF RInv, OnTheWay
<1>5. wire[h][1][1].pid = pid[h]
  BY <1>4 DEF Proper, Said
<1>6. stage[h] \in {"listed", "removed"}
  BY <1>1 DEF RInv, RosterTypes, OnTheWay
<1> QED
  BY <1>1, <1>2, <1>3, <1>4, <1>5, <1>6 DEF Roster!OnData

LEMMA OnDataRInv ==
  ASSUME RInv, NEW h \in Conns, Roster!OnData(h)
  PROVE  RInv'
<1> USE RosterNumbers
<1> DEFINE m == wire[h][1]
           new == Roster!Shown(player_map[h], m)
<1>1. /\ m \in Seq(Entry) /\ Proper(h, m) /\ stage[h] \in {"listed", "removed"}
      /\ my_pid' = [my_pid EXCEPT ![h] = IF my_pid[h] = 0 THEN pid[h] ELSE @]
      /\ player_map' = [player_map EXCEPT ![h] = new]
      /\ wire' = [wire EXCEPT ![h] = Tail(wire[h])]
      /\ Tail(wire[h]) \in Seq(Seq(Entry))
      /\ Len(wire[h]) > 0 /\ Len(Tail(wire[h])) = Len(wire[h]) - 1
      /\ \A i \in 1..Len(wire[h]) - 1 : Tail(wire[h])[i] = wire[h][i + 1]
  BY OnDataTypes
<1>2. UNCHANGED <<stage, pid, state, allHandles, players, joins, peak>>
  BY DEF Roster!OnData
<1>3. /\ wire'[h] = Tail(wire[h]) /\ player_map'[h] = new
      /\ my_pid'[h] = (IF my_pid[h] = 0 THEN pid[h] ELSE my_pid[h])
      /\ \A a \in Conns \ {h} : /\ wire'[a] = wire[a] /\ my_pid'[a] = my_pid[a]
                                /\ player_map'[a] = player_map[a]
  BY <1>1 DEF RInv, RosterTypes
<1>4. ASSUME NEW p \in Roster!Pids
      PROVE  /\ new[p] \in 0..MaxJoins /\ new[p] <= joins
             /\ new[p] # 0 => p <= peak
             /\ \A g \in Conns : stage[g] = "added" => new[p] # state[g]
  <2>1. CASE new[p] = player_map[h][p]
    BY <2>1 DEF RInv, RosterTypes, OnShow
  <2>2. CASE \E i \in 1..Len(m) : m[i].pid = p /\ new[p] = m[i].state
    <3>1. PICK i \in 1..Len(m) : m[i].pid = p /\ new[p] = m[i].state
      BY <2>2
    <3>2. m[i].state \in 1..MaxJoins
      BY <1>1, MessageTypes DEF RInv
    <3>3. /\ m[i].pid <= peak /\ m[i].state <= joins
          /\ \A g \in Conns : stage[g] = "added" => m[i].state # state[g]
      BY <1>1 DEF Proper
    <3> QED
      BY <3>1, <3>2, <3>3
  <2>3. \/ new[p] = player_map[h][p]
        \/ \E i \in 1..Len(m) : m[i].pid = p /\ new[p] = m[i].state
    <3>1. m \in Seq(Entry)
      BY <1>1
    <3> HIDE DEF m
    <3>2. \/ Roster!Shown(player_map[h], m)[p] = player_map[h][p]
          \/ \E i \in 1..Len(m) : m[i].pid = p /\ Roster!Shown(player_map[h], m)[p] = m[i].state
      BY <3>1, ShownIs
    <3> QED
      BY <3>2
  <2> QED
    BY <2>1, <2>2, <2>3
<1> HIDE DEF new, m
<1>5. RosterTypes'
  <2>1. new \in [Roster!Pids -> 0..MaxJoins]
    <3>1. new = [p \in Roster!Pids |-> new[p]]
      BY DEF new, Roster!Shown
    <3> QED
      BY <1>4, <3>1
  <2>2. /\ my_pid' \in [Conns -> 0..MaxJoins]
        /\ player_map' \in [Conns -> [Roster!Pids -> 0..MaxJoins]]
        /\ wire' \in [Conns -> Seq(Seq(Entry))]
    BY <1>1, <2>1 DEF RInv, RosterTypes
  <2> QED
    BY <1>2, <2>2 DEF RInv, RosterTypes
<1>6. PidsGiven' /\ StatesGiven' /\ GhostsFirst'
  BY <1>2 DEF RInv, PidsGiven, StatesGiven, GhostsFirst, Here
<1>7. OnTheWay'
  <2>1. \A a \in Conns, l \in Seq(Entry) : Proper(a, l)' <=> Proper(a, l)
    BY <1>2 DEF Proper, Said
  <2>2. Len(wire[h]) \in Nat /\ Len(wire'[h]) = Len(wire[h]) - 1 /\ Len(wire'[h]) <= MaxWire
    <3>1. PICK n \in Nat : n = Len(wire[h])
      BY WireTypes DEF RInv
    <3>2. n <= MaxWire
      BY <3>1 DEF RInv, OnTheWay
    <3>3. Len(wire'[h]) = n - 1
      BY <1>1, <1>3, <3>1
    <3> QED
      BY <3>1, <3>2, <3>3
  <2>3. ASSUME NEW i \in 1..Len(wire'[h]) PROVE Proper(h, wire[h][i])'
    <3>1. i + 1 \in 1..Len(wire[h]) /\ wire'[h][i] = wire[h][i + 1]
      BY <1>1, <1>3, <2>2
    <3>2. Proper(h, wire[h][i + 1]) /\ wire[h][i + 1] \in Seq(Entry)
      BY <3>1, WireTypes DEF RInv, OnTheWay
    <3> QED
      BY <2>1, <3>1, <3>2
  <2>4. ASSUME NEW a \in Conns \ {h}
        PROVE  /\ Len(wire'[a]) <= MaxWire
               /\ stage'[a] \in {"out", "added"} => wire'[a] = <<>>
               /\ \A i \in 1..Len(wire'[a]) : Proper(a, wire[a][i])'
    BY <1>2, <1>3, <2>1, WireTypes DEF RInv, OnTheWay
  <2> QED
    BY <1>1, <1>2, <2>2, <2>3, <2>4 DEF OnTheWay
<1>8. OnShow'
  <2>1. CASE stage[h] \in {"listed", "removed"}
    BY <1>2, <1>3, <1>4, <2>1 DEF RInv, OnShow
  <2> QED
    BY <1>1, <2>1
<1>9. AllSteady'
  <2> SUFFICES ASSUME NEW a \in Conns, NEW g \in Conns, stage[a] = "listed", stage[g] = "listed"
               PROVE  Steady(a, g)'
    BY <1>2 DEF AllSteady
  <2>1. Steady(a, g) /\ Len(wire[a]) \in Nat
    BY WireTypes DEF RInv, AllSteady
  <2>2. NowTells(a, g)' <=> NowTells(a, g)
    BY <1>2 DEF NowTells
  <2>3. CASE a # h
    BY <1>2, <1>3, <2>1, <2>2, <2>3, SteadyOn
  <2>4. CASE a = h
    <3>1. \A i : Tells(wire[h][i], g)' <=> Tells(wire'[h][i], g)
      BY <1>2 DEF Tells
    <3>3. Len(wire'[h]) = Len(wire[h]) - 1 /\ 1 \in 1..Len(wire[h])
      <4>1. PICK n \in Nat : n = Len(wire[h])
        BY <2>1, <2>4
      <4>2. n > 0
        BY <1>1, <4>1
      <4>3. Len(wire'[h]) = n - 1
        BY <1>1, <1>3, <4>1
      <4> QED
        BY <4>1, <4>2, <4>3
    <3>2. ASSUME NEW i \in 1..Len(wire'[h])
          PROVE  i + 1 \in 1..Len(wire[h]) /\ (Tells(wire[h][i], g)' <=> Tells(wire[h][i + 1], g))
      <4>1. i + 1 \in 1..Len(wire[h]) /\ i \in 1..Len(wire[h]) - 1
        BY <2>1, <2>4, <3>3
      <4>2. wire'[h][i] = wire[h][i + 1]
        BY <1>1, <1>3, <4>1
      <4> QED
        BY <3>1, <4>1, <4>2
    <3>4. ASSUME NEW i \in 1..Len(wire'[h]), Tells(wire[h][i], g)'
          PROVE  NowTells(h, g)' /\ \A j \in i..Len(wire'[h]) : Tells(wire[h][j], g)'
      <4>1. NowTells(h, g) /\ \A j \in i + 1..Len(wire[h]) : Tells(wire[h][j], g)
        BY <2>1, <2>4, <3>2, <3>4 DEF Steady
      <4>2. \A j \in i..Len(wire'[h]) : j \in 1..Len(wire'[h]) /\ j + 1 \in i + 1..Len(wire[h])
        BY <2>1, <2>4, <3>3
      <4> QED
        BY <2>2, <2>4, <3>2, <4>1, <4>2
    <3>5. ASSUME Roster!Shows(h, g)'
          PROVE  NowTells(h, g)' /\ \A j \in 1..Len(wire'[h]) : Tells(wire[h][j], g)'
      <4>1. new[pid[g]] = state[g]
        BY <1>2, <1>3, <3>5 DEF Roster!Shows
      <4>2. Tells(m, g) \/ Roster!Shows(h, g)
        BY <1>1, <2>4, <4>1, ShownTells DEF new
      <4>3. NowTells(h, g) /\ \A j \in 1..Len(wire[h]) : Tells(wire[h][j], g)
        BY <2>1, <2>4, <3>3, <4>2 DEF Steady, m
      <4> QED
        BY <2>2, <2>4, <3>2, <4>3
    <3> QED
      BY <2>4, <3>4, <3>5 DEF Steady
  <2> QED
    BY <2>3, <2>4
<1> QED
  BY <1>5, <1>6, <1>7, <1>8, <1>9 DEF RInv

LEMMA RosterStep == RInv /\ [Roster!Next]_rosterVars => RInv'
<1> SUFFICES ASSUME RInv, [Roster!Next]_rosterVars PROVE RInv'
  OBVIOUS
<1>1. CASE UNCHANGED rosterVars
  <2>1. RosterTypes' /\ PidsGiven' /\ StatesGiven' /\ OnShow' /\ GhostsFirst'
    BY <1>1 DEF rosterVars, RInv, RosterTypes, PidsGiven, StatesGiven, OnShow, GhostsFirst, Here
  <2>2. OnTheWay'
    BY <1>1 DEF rosterVars, RInv, OnTheWay, Proper, Said
  <2>3. \A a, g \in Conns : NowTells(a, g)' <=> NowTells(a, g)
    BY <1>1 DEF rosterVars, NowTells
  <2>4. AllSteady'
    BY <1>1, <2>3, SteadyOn DEF rosterVars, RInv, AllSteady
  <2> QED
    BY <2>1, <2>2, <2>4 DEF RInv
<1> QED
  BY <1>1, UpdateNetRInv, AddHandleRInv, SpawnRInv, RemoveHandleRInv, DestroyRInv,
     OnDataRInv DEF Roster!Next

-----------------------------------------------------------------------------
(* Pids, the entries on the way and what the clients show stay as RInv     *)
(* says (game.cpp, server-tick.cpp, client-tick.cpp).                      *)
THEOREM RosterInvariance == PartsSpec => []RInv
<1>1. PartsInit => RInv
  BY InitRInv DEF PartsInit
<1>2. RInv /\ [PartsNext]_<<part, vars, rosterVars>> => RInv'
  BY RosterStep DEF PartsNext
<1> QED
  BY <1>1, <1>2, PTL DEF PartsSpec

(***************************************************************************)
(* For any number of clients: each takes its own pid for its own, and      *)
(* shows no more players than there once were handles at a time            *)
(* (client-tick.cpp:41-57).                                                *)
(***************************************************************************)
THEOREM RosterStaysRight == PartsSpec => []RosterRight
<1>1. RInv => RosterRight
  <2> SUFFICES ASSUME RInv PROVE Roster!TypeOK /\ Roster!KnowsItself /\ Roster!GhostsBounded
    BY DEF RosterRight
  <2>1. DOMAIN players = 1..Len(players)
    BY LenProperties DEF RInv, RosterTypes
  <2>2. Roster!ToSet(players) = {h \in Conns : stage[h] \in {"listed", "removed"}}
    <3>1. \A i \in 1..Len(players) : players[i] \in Conns
      BY ElementOfSeq DEF RInv, RosterTypes
    <3>2. Roster!ToSet(players) \subseteq Conns
      BY <3>1, ListedAre DEF RInv
    <3>3. \A a \in Conns : a \in Roster!ToSet(players) <=> stage[a] \in {"listed", "removed"}
      BY ListedAre DEF RInv, RosterTypes
    <3> QED
      BY <3>2, <3>3
  <2>3. Roster!IsInjective(players)
    BY <2>1 DEF RInv, RosterTypes, Roster!IsInjective
  <2>4. \A h \in Conns :
          /\ Len(wire[h]) <= MaxWire
          /\ \A i \in DOMAIN wire[h] : wire[h][i][1] = [pid |-> pid[h], state |-> state[h]]
    <3>1. \A h \in Conns : DOMAIN wire[h] = 1..Len(wire[h])
      BY WireTypes, LenProperties DEF RInv
    <3> QED
      BY <3>1 DEF RInv, OnTheWay, Proper, Said
  <2>5. allHandles \subseteq Roster!Pids
    BY DEF RInv, RosterTypes, PidsGiven, Here, Roster!Pids
  <2>6. state \in [Conns -> 0..joins] /\ peak \in 0..Roster!Cardinality(Conns)
    <3>1. Cardinality(Conns) \in Nat
      BY RosterNumbers, FS_CardinalityType
    <3> QED
      BY <3>1, SameCounts DEF RInv, RosterTypes, StatesGiven, PidsGiven
  <2>7. Roster!TypeOK
    BY <2>2, <2>3, <2>4, <2>5, <2>6 DEF RInv, RosterTypes, Roster!TypeOK
  <2> QED
    BY <2>7 DEF RInv, OnShow, Roster!KnowsItself, Roster!GhostsBounded
<1> QED
  BY <1>1, RosterInvariance, PTL

(***************************************************************************)
(* For any number of clients: one that shows a player goes on to, although *)
(* a pid may be shared with one that is leaving: entries come in the       *)
(* list's order but for the client's own, and a pid that nobody who leaves *)
(* bears any more is never born by such a one again.                       *)
(***************************************************************************)
THEOREM OnceShownStays == PartsSpec => OnceRight
<1>1. RInv /\ [Roster!Next]_rosterVars =>
        \A h, g \in Conns :
          stage[h] = "listed" /\ stage[g] = "listed" /\ Roster!Shows(h, g)
            => Roster!Shows(h, g)' \/ stage'[g] # "listed" \/ stage'[h] # "listed"
  <2> SUFFICES ASSUME RInv, [Roster!Next]_rosterVars, NEW h \in Conns, NEW g \in Conns,
                      stage[h] = "listed", stage[g] = "listed", Roster!Shows(h, g),
                      stage'[g] = "listed", stage'[h] = "listed"
               PROVE  Roster!Shows(h, g)'
    OBVIOUS
  <2>1. CASE UNCHANGED <<pid, state, player_map>>
    BY <2>1 DEF Roster!Shows
  <2>2. ASSUME NEW x \in Conns, Roster!AddHandle(x) PROVE Roster!Shows(h, g)'
    <3>1. x # h /\ x # g
      BY <2>2 DEF Roster!AddHandle
    <3>2. pid'[g] = pid[g] /\ state'[g] = state[g] /\ player_map'[h] = player_map[h]
      BY <2>2, <3>1 DEF RInv, RosterTypes, Roster!AddHandle
    <3> QED
      BY <3>2 DEF Roster!Shows
  <2>3. ASSUME NEW x \in Conns, Roster!Destroy(x) PROVE Roster!Shows(h, g)'
    <3>1. x # g
      BY <2>3 DEF Roster!Destroy
    <3>2. pid'[g] = pid[g] /\ state'[g] = state[g] /\ player_map'[h] = player_map[h]
      BY <2>3, <3>1 DEF RInv, RosterTypes, Roster!Destroy
    <3> QED
      BY <3>2 DEF Roster!Shows
  <2>4. ASSUME NEW x \in Conns, Roster!OnData(x) PROVE Roster!Shows(h, g)'
    <3>1. pid' = pid /\ state' = state
      BY <2>4 DEF Roster!OnData
    <3>2. CASE x # h
      <4>1. player_map'[h] = player_map[h]
        <5>1. player_map' = [player_map EXCEPT ![x] = Roster!Shown(player_map[x], wire[x][1])]
          BY <2>4, OnDataTypes
        <5> QED
          BY <3>2, <5>1 DEF RInv, RosterTypes
      <4> QED
        BY <3>1, <4>1 DEF Roster!Shows
    <3>3. CASE x = h
      <4>1. /\ player_map'[h] = Roster!Shown(player_map[h], wire[h][1])
            /\ wire[h][1] \in Seq(Entry) /\ Len(wire[h]) > 0 /\ Len(wire[h]) \in Nat
        BY <2>4, <3>3, OnDataTypes, WireTypes DEF RInv, RosterTypes
      <4>2. Tells(wire[h][1], g)
        BY <4>1 DEF RInv, AllSteady, Steady
      <4>3. Roster!Shown(player_map[h], wire[h][1])[pid[g]] = state[g]
        BY <4>1, <4>2, ShownTells
      <4> QED
        BY <3>1, <4>1, <4>3 DEF Roster!Shows
    <3> QED
      BY <3>2, <3>3
  <2>5. CASE Roster!UpdateNet \/ \E x \in Conns : Roster!Spawn(x) \/ Roster!RemoveHandle(x)
    BY <2>1, <2>5 DEF Roster!UpdateNet, Roster!Spawn, Roster!RemoveHandle
  <2>6. CASE UNCHANGED rosterVars
    BY <2>1, <2>6 DEF rosterVars
  <2> QED
    BY <2>2, <2>3, <2>4, <2>5, <2>6 DEF Roster!Next
<1>2. rosterVars = Roster!vars
  BY DEF rosterVars, Roster!vars
<1>3. RInv /\ [PartsNext]_<<part, vars, rosterVars>> => [Roster!Next]_rosterVars
  BY DEF PartsNext
<1>4. RInv /\ [PartsNext]_<<part, vars, rosterVars>> =>
        [\A h, g \in Conns :
          stage[h] = "listed" /\ stage[g] = "listed" /\ Roster!Shows(h, g)
            => Roster!Shows(h, g)' \/ stage'[g] # "listed" \/ stage'[h] # "listed"]_(Roster!vars)
  BY <1>1, <1>2, <1>3
<1>5. PartsSpec => [][\A h, g \in Conns :
          stage[h] = "listed" /\ stage[g] = "listed" /\ Roster!Shows(h, g)
            => Roster!Shows(h, g)' \/ stage'[g] # "listed" \/ stage'[h] # "listed"]_(Roster!vars)
  BY <1>4, RosterInvariance, PTL DEF PartsSpec
<1> QED
  BY <1>5 DEF OnceRight, Roster!OnceRight
=============================================================================
