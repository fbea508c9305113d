------------------------- MODULE ReplicationProofs -------------------------
(***************************************************************************)
(* The two ends of the replication protocol stay in step, for any number   *)
(* of cubes, poses and messages under way, provided no message is lost     *)
(* while the stream is up: the client shows what the cache says, nothing   *)
(* twice, and what it shows is what WorldMirror allows.  Whether or not    *)
(* messages are lost, no object wakes up on the wire.                      *)
(***************************************************************************)
EXTENDS Replication, FiniteSetTheorems, WellFoundedInduction, TLAPS

-----------------------------------------------------------------------------
(***************************************************************************)
(* Nth(K) is what it is said to be: the places left in a vector of length  *)
(* n can be put in order.  A least n for which they cannot would have an   *)
(* n - 1 for which they can.                                               *)
(***************************************************************************)
Increasing(f, n) == \A i, j \in 1 .. n : i < j => f[i] < f[j]

Ordered(K) ==
  \E f \in [1 .. Cardinality(K) -> K] : Increasing(f, Cardinality(K))

LEMMA LeastNatural ==
  ASSUME NEW T, T \subseteq Nat, T # {}
  PROVE  \E x \in T : \A y \in T : x <= y
<1>1. PICK x \in T : \A y \in T : ~ (<<y, x>> \in OpToRel(<, Nat))
  BY NatLessThanWellFounded, WFMin
<1>2. \A y \in T : ~ (y < x)
  BY <1>1 DEF OpToRel
<1> QED
  BY <1>2

LEMMA PlacesFinite ==
  ASSUME NEW n \in Nat, NEW K \in SUBSET (1 .. n)
  PROVE  IsFiniteSet(K)
<1>1. IsFiniteSet(1 .. n)
  BY FS_Interval
<1> QED
  BY <1>1, FS_Subset

LEMMA OrderedByOneMore ==
  ASSUME NEW n \in Nat \ {0}, NEW K \in SUBSET (1 .. n),
         \A L \in SUBSET (1 .. n - 1) : Ordered(L)
  PROVE  Ordered(K)
<1>1. CASE n \notin K
  <2>1. K \in SUBSET (1 .. n - 1)
    BY <1>1
  <2> QED
    BY <2>1
<1>2. CASE n \in K
  <2> DEFINE L == K \ {n}
             c == Cardinality(K)
  <2>1. L \in SUBSET (1 .. n - 1)
    OBVIOUS
  <2>2. IsFiniteSet(K)
    BY PlacesFinite
  <2>3. Cardinality(L) = c - 1
    BY <1>2, <2>2, FS_RemoveElement
  <2>4. c \in Nat /\ Cardinality(L) \in Nat
    BY <2>2, FS_RemoveElement, FS_CardinalityType
  <2>5. PICK g \in [1 .. c - 1 -> L] : Increasing(g, c - 1)
    BY <2>1, <2>3 DEF Ordered
  <2> DEFINE f == [i \in 1 .. c |-> IF i = c THEN n ELSE g[i]]
  <2> HIDE DEF c
  <2>6. \A i \in 1 .. c - 1 : g[i] \in L /\ g[i] < n /\ f[i] = g[i]
    <3> TAKE i \in 1 .. c - 1
    <3>1. g[i] \in L
      BY <2>5
    <3>2. i \in 1 .. c /\ i # c
      BY <2>4
    <3>3. f[i] = g[i]
      BY <3>2
    <3>4. \A x \in L : x < n
      BY <2>1
    <3> QED
      BY <3>1, <3>3, <3>4
  <2>c. \A i \in 1 .. c : i = c => f[i] = n
    OBVIOUS
  <2>7. f \in [1 .. c -> K]
    BY <1>2, <2>4, <2>5
  <2> HIDE DEF f
  <2>8. Increasing(f, c)
    <3> SUFFICES ASSUME NEW i \in 1 .. c, NEW j \in 1 .. c, i < j
                 PROVE  f[i] < f[j]
      BY DEF Increasing
    <3>1. i \in 1 .. c - 1
      BY <2>4
    <3>2. CASE j = c
      BY <2>6, <2>c, <3>1, <3>2
    <3>3. CASE j # c
      BY <2>4, <2>5, <2>6, <3>1, <3>3 DEF Increasing
    <3> QED
      BY <3>2, <3>3
  <2> QED
    BY <2>7, <2>8 DEF Ordered, c
<1> QED
  BY <1>1, <1>2

LEMMA PlacesOrdered ==
  ASSUME NEW n \in Nat
  PROVE  \A K \in SUBSET (1 .. n) : Ordered(K)
<1> DEFINE Bad == {m \in Nat : \E K \in SUBSET (1 .. m) : ~ Ordered(K)}
<1> SUFFICES ASSUME Bad # {} PROVE FALSE
  OBVIOUS
<1>1. PICK m \in Bad : \A y \in Bad : m <= y
  BY LeastNatural
<1>2. PICK K \in SUBSET (1 .. m) : ~ Ordered(K)
  BY <1>1
<1>3. CASE m = 0
  <2>0. 1 .. 0 = {}
    OBVIOUS
  <2>1. K = {} /\ Cardinality(K) = 0
    BY <1>3, <2>0, FS_EmptySet
  <2>2. <<>> \in [1 .. 0 -> K] /\ Increasing(<<>>, 0)
    BY DEF Increasing
  <2> QED
    BY <1>2, <2>1, <2>2 DEF Ordered
<1>4. CASE m # 0
  <2>0. m \in Nat
    BY <1>1
  <2>1. m \in Nat \ {0} /\ m - 1 \in Nat /\ m - 1 \notin Bad
    <3> HIDE DEF Bad
    <3>1. m \in Nat \ {0} /\ m - 1 \in Nat /\ ~ (m <= m - 1)
      BY <1>4, <2>0
    <3> QED
      BY <1>1, <3>1
  <2>2. \A L \in SUBSET (1 .. m - 1) : Ordered(L)
    BY <2>1
  <2> HIDE DEF Bad
  <2> QED
    BY <1>2, <2>1, <2>2, OrderedByOneMore
<1> QED
  BY <1>3, <1>4

(* The k-th place that is left is one that is left. *)
LEMMA NthType ==
  ASSUME NEW n \in Nat, NEW K \in SUBSET (1 .. n)
  PROVE  /\ Cardinality(K) \in Nat
         /\ Nth(K) \in [1 .. Cardinality(K) -> K]
<1>1. IsFiniteSet(K)
  BY PlacesFinite
<1>2. Ordered(K)
  BY PlacesOrdered
<1> QED
  BY <1>1, <1>2, FS_CardinalityType DEF Ordered, Increasing, Nth

-----------------------------------------------------------------------------
(* What is invariant, besides the types. *)

(* An entry that slept is of an object that has been released, and that is *)
(* gone from the world by the time of the next message.                    *)
SleepersGo ==
  /\ phase # "step" => asleep \subseteq released
  /\ \A i \in DOMAIN cache :
       cache[i].slept /\ cache[i].obj # Plane =>
         /\ cache[i].obj \in released
         /\ phase # "gc" => ~ Listed(cache[i].obj)

(* A message takes b to what the server meant it to become. *)
Good(b, m) == Accepts(b, m) /\ NextData(b, m) = m.after

(* What the client has when it comes to the n-th message under way. *)
Before(n) == IF n = 1 THEN data ELSE wire[n - 1].after

Chain ==
  /\ \A n \in 1 .. Len(wire) : Good(Before(n), wire[n])
  /\ cache = Before(Len(wire) + 1)

Joined ==
  /\ client # "exited"
  /\ client = "up" => stream /\ Chain
  /\ client = "none" => cache = <<>> /\ data = <<>> /\ wire = <<>> /\ ~ stream

-----------------------------------------------------------------------------
(* Vectors. *)

LEMMA FunctionIsVector ==
  ASSUME NEW S, NEW n \in Nat, NEW f \in [1 .. n -> S]
  PROVE  f \in Seq(S) /\ Len(f) = n /\ DOMAIN f = 1 .. n
OBVIOUS

LEMMA VectorRange ==
  ASSUME NEW S, NEW s \in Seq(S)
  PROVE  /\ Len(s) \in Nat /\ DOMAIN s = 1 .. Len(s)
         /\ \A i \in 1 .. Len(s) : s[i] \in S /\ s[i] \in Range(s)
         /\ Range(s) \subseteq S
BY DEF Range

LEMMA PickType ==
  ASSUME NEW S, NEW s \in Seq(S), NEW K \in SUBSET DOMAIN s
  PROVE  /\ Pick(s, K) \in Seq(S)
         /\ Len(Pick(s, K)) = Cardinality(K)
         /\ Cardinality(K) \in Nat
         /\ \A k \in 1 .. Cardinality(K) :
              Nth(K)[k] \in K /\ Pick(s, K)[k] = s[Nth(K)[k]]
<1>1. Len(s) \in Nat /\ DOMAIN s = 1 .. Len(s)
  BY VectorRange
<1>2. Cardinality(K) \in Nat /\ Nth(K) \in [1 .. Cardinality(K) -> K]
  BY <1>1, NthType
<1>3. \A k \in 1 .. Cardinality(K) : Nth(K)[k] \in K /\ s[Nth(K)[k]] \in S
  BY <1>1, <1>2
<1>4. Pick(s, K) \in [1 .. Cardinality(K) -> S]
  BY <1>3 DEF Pick
<1>5. \A k \in 1 .. Cardinality(K) : Pick(s, K)[k] = s[Nth(K)[k]]
  BY DEF Pick
<1> QED
  BY <1>2, <1>3, <1>4, <1>5, FunctionIsVector

LEMMA PickRange ==
  ASSUME NEW S, NEW s \in Seq(S), NEW K \in SUBSET DOMAIN s
  PROVE  Range(Pick(s, K)) \subseteq {s[i] : i \in K}
<1> SUFFICES ASSUME NEW x \in Range(Pick(s, K))
             PROVE  x \in {s[i] : i \in K}
  OBVIOUS
<1>1. PICK k \in DOMAIN Pick(s, K) : x = Pick(s, K)[k]
  BY DEF Range
<1>2. k \in 1 .. Cardinality(K)
  BY <1>1 DEF Pick
<1> QED
  BY <1>1, <1>2, PickType

LEMMA JoinedRange ==
  ASSUME NEW S, NEW s \in Seq(S), NEW t \in Seq(S)
  PROVE  s \o t \in Seq(S) /\ Range(s \o t) = Range(s) \cup Range(t)
<1>1. s \o t \in Seq(S)
  OBVIOUS
<1>2. /\ Len(s) \in Nat /\ Len(t) \in Nat /\ Len(s \o t) = Len(s) + Len(t)
      /\ DOMAIN s = 1 .. Len(s) /\ DOMAIN t = 1 .. Len(t)
      /\ DOMAIN (s \o t) = 1 .. Len(s) + Len(t)
  OBVIOUS
<1>3. \A i \in 1 .. Len(s) : (s \o t)[i] = s[i]
  OBVIOUS
<1>4. \A i \in 1 .. Len(t) : (s \o t)[Len(s) + i] = t[i]
  OBVIOUS
<1>5. Range(s \o t) \subseteq Range(s) \cup Range(t)
  <2> SUFFICES ASSUME NEW i \in 1 .. Len(s) + Len(t)
               PROVE  (s \o t)[i] \in Range(s) \cup Range(t)
    BY <1>2 DEF Range
  <2>1. CASE i <= Len(s)
    BY <1>2, <1>3, <2>1 DEF Range
  <2>2. CASE i > Len(s)
    <3>1. i - Len(s) \in 1 .. Len(t) /\ i = Len(s) + (i - Len(s))
      BY <1>2, <2>2
    <3>2. (s \o t)[i] = t[i - Len(s)]
      BY <1>4, <3>1
    <3> QED
      BY <1>2, <3>1, <3>2 DEF Range
  <2> QED
    BY <1>2, <2>1, <2>2
<1>6. Range(s) \subseteq Range(s \o t)
  <2> SUFFICES ASSUME NEW i \in 1 .. Len(s) PROVE s[i] \in Range(s \o t)
    BY <1>2 DEF Range
  <2>1. i \in 1 .. Len(s) + Len(t)
    BY <1>2
  <2> QED
    BY <1>2, <1>3, <2>1 DEF Range
<1>7. Range(t) \subseteq Range(s \o t)
  <2> SUFFICES ASSUME NEW i \in 1 .. Len(t) PROVE t[i] \in Range(s \o t)
    BY <1>2 DEF Range
  <2>1. Len(s) + i \in 1 .. Len(s) + Len(t)
    BY <1>2
  <2> QED
    BY <1>2, <1>4, <2>1 DEF Range
<1> QED
  BY <1>1, <1>5, <1>6, <1>7

-----------------------------------------------------------------------------
(* One entry of the cache. *)

LEMMA EntryOnTheWire ==
  ASSUME ServerTypeOK, NEW e \in Entry
  PROVE  /\ Token(e) \in WireToken
         /\ Reads(e, Token(e)) = Token(e).body.kind
         /\ Token(e).op # "remove" <=> Listed(e.obj)
         /\ Listed(e.obj) =>
              Refreshed(e) \in Entry /\ Applied(e, Token(e)) = Refreshed(e)
<1> USE ReplicationAssumption
<1>0. /\ e.slept \in BOOLEAN /\ e.obj \in Obj /\ e.pos \in Held
      /\ Listed(e.obj) => pos[e.obj] \in Pos
  BY DEF ServerTypeOK, Entry, Listed
<1>1. CASE ~ Listed(e.obj)
  <2>1. Token(e) = Removal
    BY <1>1 DEF Token
  <2>2. Removal \in WireToken
    BY DEF Removal, Nothing, WireToken, Body, Value
  <2> QED
    BY <1>1, <2>1, <2>2 DEF Reads, Removal, Nothing
<1>2. CASE Listed(e.obj) /\ Sleeps(e.obj) /\ e.slept
  <2>1. Token(e) = [op |-> "state", sleep |-> TRUE, body |-> Nothing]
    BY <1>2 DEF Token, Asleep
  <2>2. Refreshed(e) = [obj |-> e.obj, slept |-> TRUE, pos |-> e.pos]
    BY <1>2 DEF Refreshed, WrittenBack, Sleeps
  <2>3. Reads(e, Token(e)) = "none"
    BY <1>0, <1>2, <2>1 DEF Reads
  <2>4. Applied(e, Token(e)) = [obj |-> e.obj, slept |-> TRUE, pos |-> e.pos]
    <3>1. Token(e).op = "state" /\ Token(e).sleep = TRUE
      BY <2>1
    <3> QED
      BY <2>3, <3>1 DEF Applied
  <2>5. Token(e) \in WireToken
    BY <2>1 DEF Nothing, WireToken, Body, Value
  <2>6. Refreshed(e) \in Entry
    BY <1>0, <2>2 DEF Entry
  <2> QED
    BY <1>2, <2>1, <2>2, <2>3, <2>4, <2>5, <2>6 DEF Nothing
<1>3. CASE Listed(e.obj) /\ Sleeps(e.obj) /\ ~ e.slept
  <2> DEFINE p == pos[e.obj]
  <2>1. Token(e) = [op |-> "state", sleep |-> TRUE, body |-> Full(p)]
    BY <1>3 DEF Token, Asleep
  <2>2. Refreshed(e) = [obj |-> e.obj, slept |-> TRUE, pos |-> p]
    BY <1>3 DEF Refreshed, WrittenBack, Sleeps
  <2>3. Reads(e, Token(e)) = "full"
    <3>1. Token(e).op = "state" /\ Token(e).sleep = TRUE
      BY <2>1
    <3> QED
      BY <1>0, <1>3, <3>1 DEF Reads
  <2>4. Applied(e, Token(e)) = [obj |-> e.obj, slept |-> TRUE, pos |-> p]
    <3>1. /\ Token(e).op = "state" /\ Token(e).sleep = TRUE
          /\ Token(e).body.value = p
      BY <2>1 DEF Full
    <3> QED
      BY <2>3, <3>1 DEF Applied
  <2>5. Token(e) \in WireToken
    BY <1>0, <1>3, <2>1 DEF Full, WireToken, Body, Value
  <2>6. Refreshed(e) \in Entry
    BY <1>0, <1>3, <2>2 DEF Entry
  <2> QED
    BY <1>3, <2>1, <2>2, <2>3, <2>4, <2>5, <2>6 DEF Full
<1>4. CASE Listed(e.obj) /\ ~ Sleeps(e.obj)
  <2>0. Moved(e) \in Value /\ e.pos + Moved(e) \in Held
    BY <1>0, <1>4 DEF Moved, Value
  <2> DEFINE d == Moved(e)
             r == [obj |-> e.obj, slept |-> FALSE, pos |-> e.pos + d]
  <2> HIDE DEF d
  <2>1. Token(e) = Awake(e)
    BY <1>4 DEF Token
  <2>2. /\ Awake(e).op = IF e.slept THEN "state" ELSE "update"
        /\ Awake(e).sleep = FALSE /\ Awake(e).body = Diff(d)
    BY DEF Awake, d
  <2>3. Diff(d).kind = "delta" /\ Diff(d).value = d /\ Diff(d) \in Body
    BY <2>0 DEF Diff, Body, d
  <2>4. Refreshed(e) = r
    BY <1>4 DEF Refreshed, WrittenBack, Sleeps, d
  <2>5. Reads(e, Awake(e)) = "delta"
    BY <1>0, <2>2 DEF Reads
  <2>6. Applied(e, Awake(e)) = r
    <3>1. Applied(e, Awake(e)).pos = e.pos + d
      BY <2>2, <2>3, <2>5 DEF Applied
    <3>2. (IF Awake(e).op = "state" THEN Awake(e).sleep ELSE e.slept) = FALSE
      BY <1>0, <2>2
    <3> QED
      BY <3>1, <3>2 DEF Applied
  <2>7. Awake(e) \in WireToken
    BY <2>0, <2>3 DEF Awake, WireToken, d
  <2>8. r \in Entry
    BY <1>0, <2>0 DEF Entry, d
  <2>9. Awake(e).op # "remove"
    BY <2>2
  <2> QED
    BY <1>4, <2>1, <2>2, <2>3, <2>4, <2>5, <2>6, <2>7, <2>8, <2>9
<1> QED
  BY <1>0, <1>1, <1>2, <1>3, <1>4

-----------------------------------------------------------------------------
(* A whole message. *)

LEMMA NextCacheType ==
  ASSUME ServerTypeOK
  PROVE  /\ Kept \in Seq(Entry) /\ Adds \in Seq(Entry)
         /\ NextCache \in Seq(Entry)
<1> USE ReplicationAssumption
<1>1. cache \in Seq(Entry) /\ Staying \in SUBSET DOMAIN cache
  BY DEF ServerTypeOK, Staying
<1>2. objects \in Seq(Obj) /\ Uncached \in SUBSET DOMAIN objects
  BY DEF ServerTypeOK, Uncached
<1>3. Kept \in Seq(Entry)
  <2> DEFINE c == Cardinality(Staying)
  <2>1. c \in Nat
    BY <1>1, PickType
  <2>2. ASSUME NEW k \in 1 .. c
        PROVE  Refreshed(Pick(cache, Staying)[k]) \in Entry
    <3> DEFINE i == Nth(Staying)[k]
    <3>1. i \in Staying /\ Pick(cache, Staying)[k] = cache[i]
      BY <1>1, PickType
    <3>2. cache[i] \in Entry /\ Listed(cache[i].obj)
      BY <1>1, <3>1 DEF Staying
    <3> QED
      BY <3>1, <3>2, EntryOnTheWire
  <2>3. Kept \in [1 .. c -> Entry]
    BY <2>2 DEF Kept
  <2> QED
    BY <2>1, <2>3, FunctionIsVector
<1>4. Adds \in Seq(Entry)
  <2> DEFINE c == Cardinality(Uncached)
  <2>1. c \in Nat
    BY <1>2, PickType
  <2>2. ASSUME NEW k \in 1 .. c
        PROVE  Added(Pick(objects, Uncached)[k]) \in Entry
    <3> DEFINE o == Pick(objects, Uncached)[k]
    <3>1. Nth(Uncached)[k] \in DOMAIN objects /\ o = objects[Nth(Uncached)[k]]
      BY <1>2, PickType
    <3>2. o \in Obj /\ o \in Range(objects)
      BY <1>2, <3>1 DEF Range
    <3>3. Grid[pos[o]] \in Held
      BY <3>2 DEF ServerTypeOK
    <3> QED
      BY <3>2, <3>3 DEF Added, Entry
  <2>3. Adds \in [1 .. c -> Entry]
    BY <2>2 DEF Adds
  <2> QED
    BY <2>1, <2>3, FunctionIsVector
<1> QED
  BY <1>3, <1>4 DEF NextCache

LEMMA MessageUnderstood ==
  ASSUME ServerTypeOK
  PROVE  Message \in WireMessage /\ Good(cache, Message)
<1> DEFINE n == Len(cache)
<1>1. /\ cache \in Seq(Entry) /\ n \in Nat /\ DOMAIN cache = 1 .. n
      /\ \A i \in 1 .. n : cache[i] \in Entry
  BY DEF ServerTypeOK
<1>2. /\ Message.size = n /\ Message.adds = Adds
      /\ Message.total = Len(NextCache) /\ Message.after = NextCache
      /\ Message.tokens = [i \in 1 .. n |-> Token(cache[i])]
  BY DEF Message
<1>3. /\ DOMAIN Message.tokens = 1 .. n
      /\ \A i \in 1 .. n : Message.tokens[i] = Token(cache[i])
  BY <1>2
<1>4. Message \in WireMessage
  <2>1. Message.tokens \in [1 .. n -> WireToken]
    BY <1>1, <1>2, EntryOnTheWire
  <2>2. Message.tokens \in Seq(WireToken)
    BY <1>1, <2>1, FunctionIsVector
  <2>3. Len(NextCache) \in Nat /\ NextCache \in Seq(Entry)
        /\ Adds \in Seq(Entry)
    BY NextCacheType
  <2>4. [i \in 1 .. n |-> Token(cache[i])] \in Seq(WireToken)
    BY <1>2, <2>2
  <2> QED
    BY <1>1, <2>3, <2>4 DEF Message, WireMessage
<1>5. Understands(cache, Message)
  BY <1>1, <1>3, EntryOnTheWire DEF Understands
<1>6. Remaining(Message) = Staying
  BY <1>1, <1>3, EntryOnTheWire DEF Remaining, Staying
<1>7. Updated(cache, Message) = Kept
  <2>0. Staying \in SUBSET DOMAIN cache
    BY DEF Staying
  <2>1. ASSUME NEW k \in 1 .. Cardinality(Staying)
        PROVE  Applied(cache[Nth(Staying)[k]], Message.tokens[Nth(Staying)[k]])
                 = Refreshed(Pick(cache, Staying)[k])
    <3> DEFINE i == Nth(Staying)[k]
    <3>1. i \in Staying /\ Pick(cache, Staying)[k] = cache[i]
      BY <1>1, <2>0, PickType
    <3>2. i \in 1 .. n /\ Listed(cache[i].obj)
      BY <1>1, <3>1 DEF Staying
    <3>3. Message.tokens[i] = Token(cache[i]) /\ cache[i] \in Entry
      BY <1>1, <1>3, <3>2
    <3>4. Applied(cache[i], Token(cache[i])) = Refreshed(cache[i])
      BY <3>2, <3>3, EntryOnTheWire
    <3> QED
      BY <3>1, <3>3, <3>4
  <2> QED
    BY <1>6, <2>1 DEF Updated, Kept
<1>8. NextData(cache, Message) = NextCache
  BY <1>2, <1>7 DEF NextData, NextCache
<1> QED
  BY <1>2, <1>4, <1>5, <1>8 DEF Good, Accepts

-----------------------------------------------------------------------------
(* What the steps of the tick do to the world. *)

LEMMA NewCubesType ==
  ASSUME NEW new \in NewCubes
  PROVE  new \in Seq(Obj) /\ Range(new) \cap (Range(objects) \cup released) = {}
<1>1. PICK n \in 0 .. Batch :
        new \in [1 .. n -> Cube \ (Range(objects) \cup released)]
  BY DEF NewCubes
<1>2. n \in Nat
  BY <1>1, ReplicationAssumption
<1>3. new \in Seq(Cube \ (Range(objects) \cup released))
  BY <1>1, <1>2, FunctionIsVector
<1>4. Range(new) \subseteq Cube \ (Range(objects) \cup released)
  BY <1>3, VectorRange
<1>5. new \in [1 .. n -> Obj]
  BY <1>1 DEF Obj
<1> QED
  BY <1>2, <1>4, <1>5, FunctionIsVector

LEMMA FetchType ==
  ASSUME ServerTypeOK, NEW left \in SUBSET Range(objects), Fetch(left)
  PROVE  asleep' \in SUBSET Cube /\ asleep' \subseteq left
         /\ pos' \in [left -> Pos]
<1>1. Range(objects) \subseteq Obj
  BY VectorRange DEF ServerTypeOK
<1>2. PICK s \in SUBSET Dynamic, p \in [Dynamic -> Pos] :
        /\ asleep' = s \cap left
        /\ pos' = [o \in left |-> IF o = Plane THEN pos[o] ELSE p[o]]
  BY DEF Fetch
<1>3. ASSUME NEW o \in left
      PROVE  (IF o = Plane THEN pos[o] ELSE p[o]) \in Pos
  BY <1>2 DEF Dynamic, ServerTypeOK
<1>4. asleep' \in SUBSET Cube
  BY <1>1, <1>2 DEF Dynamic, Obj
<1> QED
  BY <1>2, <1>3, <1>4

LEMMA CollectType ==
  ASSUME ServerTypeOK, SyncAndCollect
  PROVE  /\ objects' \in Seq(Obj) /\ Range(objects') \subseteq Range(objects)
         /\ Range(objects') \cap released = {}
         /\ Fetch(Range(objects'))
<1>1. objects \in Seq(Obj) /\ Surviving \in SUBSET DOMAIN objects
  BY DEF ServerTypeOK, Surviving
<1>2. objects' = Pick(objects, Surviving)
  BY DEF SyncAndCollect
<1>3. Range(objects') \subseteq {objects[i] : i \in Surviving}
  BY <1>1, <1>2, PickRange
<1>4. objects' \in Seq(Obj)
  BY <1>1, <1>2, PickType
<1>5. {objects[i] : i \in Surviving} \subseteq Range(objects)
  BY <1>1 DEF Range
<1>6. {objects[i] : i \in Surviving} \cap released = {}
  BY DEF Surviving
<1>7. Fetch(Range(objects'))
  BY DEF SyncAndCollect
<1> QED
  BY <1>3, <1>4, <1>5, <1>6, <1>7

LEMMA StepWorld ==
  ASSUME ServerTypeOK, Step
  PROVE  /\ objects' \in Seq(Obj)
         /\ pos' \in [Range(objects') -> Pos]
         /\ Range(objects) \subseteq Range(objects')
         /\ \A o \in Range(objects') : o \in Range(objects) \/ o \notin released
<1>1. PICK new \in NewCubes, at \in Pos :
        /\ objects' = objects \o new
        /\ pos' = [o \in Range(objects') |-> IF Listed(o) THEN pos[o] ELSE at]
  BY DEF Step
<1>2. /\ new \in Seq(Obj)
      /\ Range(new) \cap (Range(objects) \cup released) = {}
  BY NewCubesType
<1>3. objects' \in Seq(Obj) /\ Range(objects') = Range(objects) \cup Range(new)
  BY <1>1, <1>2, JoinedRange DEF ServerTypeOK
<1>4. \A o : Listed(o) => pos[o] \in Pos
  BY DEF ServerTypeOK, Listed
<1>5. pos' \in [Range(objects') -> Pos]
  BY <1>1, <1>4
<1> QED
  BY <1>2, <1>3, <1>5

LEMMA ServerTypeInit == Init => ServerTypeOK
<1> SUFFICES ASSUME Init PROVE ServerTypeOK
  OBVIOUS
<1>1. objects \in Seq(Obj) /\ Range(objects) = {Plane}
  BY DEF Init, Obj, Range
<1>2. pos \in [Range(objects) -> Pos]
  BY <1>1 DEF Init
<1> QED
  BY <1>1, <1>2 DEF Init, ServerTypeOK

LEMMA ServerTypeStep == ServerTypeOK /\ [Next]_vars => ServerTypeOK'
<1> SUFFICES ASSUME ServerTypeOK, [Next]_vars PROVE ServerTypeOK'
  OBVIOUS
<1> USE DEF serverVars, clientVars
<1>1. CASE Step
  <2>1. objects' \in Seq(Obj) /\ pos' \in [Range(objects') -> Pos]
    BY <1>1, StepWorld
  <2>2. phase' \in {"net", "sync"} /\ released' \in SUBSET Cube
    BY <1>1 DEF Step, Dying, ServerTypeOK
  <2>3. UNCHANGED <<asleep, cache, wire>>
    BY <1>1 DEF Step
  <2> QED
    BY <2>1, <2>2, <2>3 DEF ServerTypeOK, Range
<1>2. CASE SyncSim
  <2>1. asleep' \in SUBSET Cube /\ pos' \in [Range(objects) -> Pos]
    BY <1>2, FetchType DEF SyncSim
  <2>2. UNCHANGED <<objects, released, cache, wire>> /\ phase' = "step"
    BY <1>2 DEF SyncSim
  <2> QED
    BY <2>1, <2>2 DEF ServerTypeOK, Range
<1>3. CASE SyncAndCollect
  <2>1. /\ objects' \in Seq(Obj) /\ Range(objects') \in SUBSET Range(objects)
        /\ Fetch(Range(objects'))
    BY <1>3, CollectType
  <2>2. asleep' \in SUBSET Cube /\ pos' \in [Range(objects') -> Pos]
    BY <2>1, FetchType
  <2>3. UNCHANGED <<released, cache, wire>> /\ phase' = "step"
    BY <1>3 DEF SyncAndCollect
  <2> QED
    BY <2>1, <2>2, <2>3 DEF ServerTypeOK, Range
<1>4. CASE UpdateState
  <2>1. NextCache \in Seq(Entry) /\ Message \in WireMessage
    BY NextCacheType, MessageUnderstood
  <2>2. cache' = NextCache
    BY <1>4 DEF UpdateState
  <2>3. wire' \in Seq(WireMessage)
    <3>1. wire' = wire \/ wire' = Append(wire, Message)
      BY <1>4 DEF UpdateState
    <3>2. Append(wire, Message) \in Seq(WireMessage)
      BY <2>1 DEF ServerTypeOK
    <3> QED
      BY <3>1, <3>2 DEF ServerTypeOK
  <2>4. UNCHANGED <<objects, released, asleep, pos>> /\ phase' = "gc"
    BY <1>4 DEF UpdateState
  <2> QED
    BY <2>1, <2>2, <2>3, <2>4 DEF ServerTypeOK, Range
<1>5. CASE NobodyThere
  BY <1>5 DEF NobodyThere, ServerTypeOK, Range
<1>6. CASE Connect
  BY <1>6 DEF Connect, ServerTypeOK, Range
<1>7. CASE Disconnect
  BY <1>7 DEF Disconnect, ServerTypeOK, Range
<1>8. CASE OnData
  <2>1. wire' = Tail(wire) /\ wire # <<>>
    BY <1>8 DEF OnData
  <2>2. wire' \in Seq(WireMessage)
    BY <2>1 DEF ServerTypeOK
  <2>3. UNCHANGED serverVars
    BY <1>8 DEF OnData
  <2> QED
    BY <2>2, <2>3 DEF ServerTypeOK, Range
<1>9. CASE VersionMismatch
  BY <1>9 DEF VersionMismatch, ServerTypeOK, Range
<1>10. CASE UNCHANGED vars
  BY <1>10 DEF vars, ServerTypeOK, Range
<1> QED
  BY <1>1, <1>2, <1>3, <1>4, <1>5, <1>6, <1>7, <1>8, <1>9, <1>10
     DEF Next, Tick

-----------------------------------------------------------------------------
(* Nothing wakes up on the wire. *)

LEMMA NextCacheSleepers ==
  ASSUME ServerTypeOK, NEW i \in DOMAIN NextCache, NextCache[i].slept
  PROVE  Sleeps(NextCache[i].obj)
<1>1. Range(NextCache) = Range(Kept) \cup Range(Adds)
  BY NextCacheType, JoinedRange DEF NextCache
<1>2. NextCache[i] \in Range(NextCache)
  BY DEF Range
<1>3. CASE NextCache[i] \in Range(Kept)
  <2>1. PICK k \in DOMAIN Kept : NextCache[i] = Kept[k]
    BY <1>3 DEF Range
  <2>2. Kept[k] = Refreshed(Pick(cache, Staying)[k])
    BY <2>1 DEF Kept
  <2> QED
    BY <2>1, <2>2 DEF Refreshed
<1>4. CASE NextCache[i] \in Range(Adds)
  <2>1. PICK k \in DOMAIN Adds : NextCache[i] = Adds[k]
    BY <1>4 DEF Range
  <2>2. Adds[k] = Added(Pick(objects, Uncached)[k])
    BY <2>1 DEF Adds
  <2> QED
    BY <2>1, <2>2 DEF Added
<1> QED
  BY <1>1, <1>2, <1>3, <1>4

LEMMA SleepersGoStep ==
  ServerTypeOK /\ SleepersGo /\ [Next]_vars => SleepersGo'
<1> SUFFICES ASSUME ServerTypeOK, SleepersGo, [Next]_vars PROVE SleepersGo'
  OBVIOUS
<1> USE DEF serverVars, clientVars
<1>1. CASE Step
  <2>1. \A o \in Range(objects') : o \in Range(objects) \/ o \notin released
    BY <1>1, StepWorld
  <2>2. /\ phase = "step" /\ phase' \in {"net", "sync"}
        /\ released' = released \cup asleep /\ UNCHANGED <<asleep, cache>>
    BY <1>1 DEF Step, Dying
  <2>3. \A o \in released : ~ Listed(o) => o \notin Range(objects')
    BY <2>1 DEF Listed
  <2> QED
    BY <2>2, <2>3 DEF SleepersGo, Listed, Range
<1>2. CASE SyncSim
  <2>1. /\ phase = "sync" /\ phase' = "step"
        /\ UNCHANGED <<objects, released, cache>>
    BY <1>2 DEF SyncSim
  <2> QED
    BY <2>1 DEF SleepersGo, Listed, Range
<1>3. CASE SyncAndCollect
  <2>1. Range(objects') \cap released = {}
    BY <1>3, CollectType
  <2>2. phase' = "step" /\ UNCHANGED <<released, cache>>
    BY <1>3 DEF SyncAndCollect
  <2>3. \A o \in released : o \notin Range(objects')
    BY <2>1
  <2> QED
    BY <2>2, <2>3 DEF SleepersGo, Listed, Range
<1>4. CASE UpdateState
  <2>1. /\ phase = "net" /\ phase' = "gc" /\ cache' = NextCache
        /\ UNCHANGED <<objects, released, asleep>>
    BY <1>4 DEF UpdateState
  <2>2. asleep \subseteq released
    BY <2>1 DEF SleepersGo
  <2>3. ASSUME NEW i \in DOMAIN NextCache,
               NextCache[i].slept, NextCache[i].obj # Plane
        PROVE  NextCache[i].obj \in released
    BY <2>2, <2>3, NextCacheSleepers DEF Sleeps
  <2> QED
    BY <2>1, <2>2, <2>3 DEF SleepersGo
<1>5. CASE NobodyThere
  BY <1>5 DEF NobodyThere, SleepersGo
<1>6. CASE Connect
  BY <1>6 DEF Connect, SleepersGo, Listed, Range
<1>7. CASE Disconnect
  BY <1>7 DEF Disconnect, SleepersGo, Listed, Range
<1>8. CASE OnData
  BY <1>8 DEF OnData, SleepersGo, Listed, Range
<1>9. CASE VersionMismatch
  BY <1>9 DEF VersionMismatch, SleepersGo, Listed, Range
<1>10. CASE UNCHANGED vars
  BY <1>10 DEF vars, SleepersGo, Listed, Range
<1> QED
  BY <1>1, <1>2, <1>3, <1>4, <1>5, <1>6, <1>7, <1>8, <1>9, <1>10
     DEF Next, Tick

(* What is written of an entry is never that it has woken up.              *)
LEMMA TokenStaysAsleep ==
  ASSUME ServerTypeOK, SleepersGo, phase = "net",
         NEW i \in DOMAIN cache, Token(cache[i]).op = "state"
  PROVE  Token(cache[i]).sleep
<1>1. CASE ~ Listed(cache[i].obj)
  BY <1>1 DEF Token, Removal
<1>2. CASE Listed(cache[i].obj) /\ Sleeps(cache[i].obj)
  BY <1>2 DEF Token, Asleep
<1>3. CASE Listed(cache[i].obj) /\ ~ Sleeps(cache[i].obj)
  <2>1. cache[i].obj # Plane
    BY <1>3 DEF Sleeps
  <2>2. ~ cache[i].slept
    BY <1>3, <2>1 DEF SleepersGo
  <2>3. Token(cache[i]).op = "update"
    BY <1>3, <2>2 DEF Token, Awake
  <2> QED
    BY <2>3
<1> QED
  BY <1>1, <1>2, <1>3

LEMMA NeverWakesStep ==
  ServerTypeOK /\ SleepersGo /\ NeverWakes /\ [Next]_vars => NeverWakes'
<1> SUFFICES ASSUME ServerTypeOK, SleepersGo, NeverWakes, [Next]_vars
             PROVE  NeverWakes'
  OBVIOUS
<1> USE DEF serverVars, clientVars
<1>0. wire \in Seq(WireMessage)
  BY DEF ServerTypeOK
<1>1. CASE UNCHANGED wire
  BY <1>1 DEF NeverWakes
<1>2. CASE wire' = <<>>
  BY <1>2 DEF NeverWakes
<1>3. CASE OnData
  <2>1. wire' = Tail(wire) /\ wire # <<>>
    BY <1>3 DEF OnData
  <2>2. \A n \in DOMAIN wire' : n + 1 \in DOMAIN wire /\ wire'[n] = wire[n + 1]
    BY <1>0, <2>1
  <2> QED
    BY <2>2 DEF NeverWakes
<1>4. CASE UpdateState /\ wire' = Append(wire, Message)
  <2>1. phase = "net"
    BY <1>4 DEF UpdateState
  <2>2. \A i \in DOMAIN Message.tokens :
          Message.tokens[i].op = "state" => Message.tokens[i].sleep
    <3> SUFFICES ASSUME NEW i \in DOMAIN Message.tokens,
                        Message.tokens[i].op = "state"
                 PROVE  Message.tokens[i].sleep
      OBVIOUS
    <3>1. i \in DOMAIN cache /\ Message.tokens[i] = Token(cache[i])
      BY DEF Message, ServerTypeOK
    <3> QED
      BY <2>1, <3>1, TokenStaysAsleep
  <2>3. \A n \in DOMAIN wire' :
          (n \in DOMAIN wire /\ wire'[n] = wire[n]) \/ wire'[n] = Message
    <3> HIDE DEF Message
    <3>1. Message \in WireMessage
      BY MessageUnderstood
    <3> QED
      BY <1>0, <1>4, <3>1
  <2> HIDE DEF Message
  <2> QED
    BY <2>2, <2>3 DEF NeverWakes
<1>5. [Next]_vars =>
        \/ UNCHANGED wire \/ wire' = <<>> \/ OnData
        \/ UpdateState /\ wire' = Append(wire, Message)
  BY DEF Next, Tick, Step, SyncSim, SyncAndCollect, UpdateState, NobodyThere,
         Connect, Disconnect, VersionMismatch, vars
<1> QED
  BY <1>1, <1>2, <1>3, <1>4, <1>5

(***************************************************************************)
(* Whether or not messages get lost: no object wakes up on the wire, so    *)
(* the branches for that in updateState and onData do not run.             *)
(***************************************************************************)
THEOREM NothingWakesUp == Spec => []NeverWakes
<1> DEFINE Inv == ServerTypeOK /\ SleepersGo /\ NeverWakes
<1>1. Init => Inv
  BY ServerTypeInit DEF Init, SleepersGo, NeverWakes
<1>2. Inv /\ [Next]_vars => Inv'
  BY ServerTypeStep, SleepersGoStep, NeverWakesStep
<1>3. Inv => NeverWakes
  OBVIOUS
<1> QED
  BY <1>1, <1>2, <1>3, PTL DEF Spec

-----------------------------------------------------------------------------
(* The two ends stay in step. *)

LEMMA OnDataInStep ==
  ASSUME ServerTypeOK, Joined, OnData
  PROVE  /\ Accepts(data, Head(wire))
         /\ data' = wire[1].after /\ data' \in Seq(Entry)
         /\ client' = "up" /\ stream' /\ Chain'
<1>1. /\ wire \in Seq(WireMessage) /\ wire # <<>> /\ wire' = Tail(wire)
      /\ client = "up" /\ UNCHANGED <<cache, stream>>
  BY DEF ServerTypeOK, OnData, serverVars
<1>2. /\ Len(wire) \in Nat \ {0} /\ Head(wire) = wire[1]
      /\ wire[1] \in WireMessage
      /\ Len(wire') = Len(wire) - 1
      /\ \A n \in 1 .. Len(wire) - 1 : wire'[n] = wire[n + 1]
  BY <1>1
<1>3. stream /\ Chain
  BY <1>1 DEF Joined
<1>4. Good(data, wire[1])
  <2>1. Before(1) = data /\ 1 \in 1 .. Len(wire)
    BY <1>2 DEF Before
  <2> QED
    BY <1>3, <2>1 DEF Chain
<1>5. data' = wire[1].after /\ UNCHANGED client
  BY <1>2, <1>4 DEF OnData, Good
<1>6. \A n \in 1 .. Len(wire) : Before(n)' = Before(n + 1)
  <2> SUFFICES ASSUME NEW n \in 1 .. Len(wire) PROVE Before(n)' = Before(n + 1)
    OBVIOUS
  <2>1. CASE n = 1
    BY <1>5, <2>1 DEF Before
  <2>2. CASE n # 1
    <3>1. n - 1 \in 1 .. Len(wire) - 1 /\ n + 1 # 1
      BY <1>2, <2>2
    <3>2. wire'[n - 1] = wire[n]
      BY <1>2, <3>1
    <3> QED
      BY <2>2, <3>1, <3>2 DEF Before
  <2> QED
    BY <2>1, <2>2
<1>7. Chain'
  <2>1. ASSUME NEW n \in 1 .. Len(wire) - 1
        PROVE  Good(Before(n)', wire'[n])
    <3>1. n + 1 \in 1 .. Len(wire) /\ n \in 1 .. Len(wire)
      BY <1>2
    <3>2. Good(Before(n + 1), wire[n + 1])
      BY <1>3, <3>1 DEF Chain
    <3> QED
      BY <1>2, <1>6, <3>1, <3>2
  <2>2. PICK L \in Nat : L = Len(wire) /\ L # 0
    BY <1>2
  <2>3. cache = Before(L)'
    BY <1>3, <1>6, <2>2 DEF Chain
  <2>4. cache' = (Before(Len(wire) + 1))'
    <3>1. L = Len(wire') + 1
      BY <1>2, <2>2
    <3>2. Before(L)' = (Before(Len(wire) + 1))'
      BY <3>1 DEF Before
    <3> QED
      BY <1>1, <2>3, <3>2
  <2> QED
    BY <1>2, <2>1, <2>4 DEF Chain, Good, Accepts, Understands, Reads, NextData,
       Updated, Remaining, Applied
<1> QED
  BY <1>1, <1>2, <1>3, <1>4, <1>5, <1>7 DEF Good, WireMessage

LEMMA UpdateStateInStep ==
  ASSUME ServerTypeOK, Chain, UpdateState, wire' = Append(wire, Message)
  PROVE  Chain'
<1>0. PICK L \in Nat : L = Len(wire)
  BY DEF ServerTypeOK
<1>1. /\ Message \in WireMessage /\ Good(cache, Message)
      /\ Message.after = NextCache
  BY MessageUnderstood DEF Message
<1> HIDE DEF Message
<1>2. /\ L \in Nat /\ Len(wire') = L + 1 /\ wire'[L + 1] = Message
      /\ \A n \in 1 .. L : wire'[n] = wire[n]
  BY <1>0, <1>1 DEF ServerTypeOK
<1>3. cache' = NextCache /\ UNCHANGED data
  BY DEF UpdateState, clientVars
<1>4. \A n \in 1 .. L + 1 : Before(n)' = Before(n)
  <2> SUFFICES ASSUME NEW n \in 1 .. L + 1 PROVE Before(n)' = Before(n)
    OBVIOUS
  <2>1. CASE n = 1
    BY <1>3, <2>1 DEF Before
  <2>2. CASE n # 1
    <3>1. n - 1 \in 1 .. L
      BY <1>2, <2>2
    <3> QED
      BY <1>2, <2>2, <3>1 DEF Before
  <2> QED
    BY <2>1, <2>2
<1>5. ASSUME NEW n \in 1 .. L + 1
      PROVE  Good(Before(n)', wire'[n])
  <2>1. CASE n \in 1 .. L
    BY <1>0, <1>2, <1>4, <2>1 DEF Chain
  <2>2. CASE n = L + 1
    <3>1. Before(n)' = cache
      BY <1>0, <1>2, <1>4, <2>2 DEF Chain
    <3> QED
      BY <1>1, <1>2, <2>2, <3>1
  <2> QED
    BY <1>2, <2>1, <2>2
<1>6. cache' = (Before(Len(wire) + 1))'
  <2>1. Len(wire') + 1 # 1 /\ (Len(wire') + 1) - 1 = L + 1
    BY <1>2
  <2> QED
    BY <1>1, <1>2, <1>3, <2>1 DEF Before
<1> QED
  BY <1>2, <1>5, <1>6 DEF Chain, Good, Accepts, Understands, Reads, NextData,
     Updated, Remaining, Applied

LEMMA ChainStays ==
  Chain /\ UNCHANGED <<cache, data, wire>> => Chain'
<1> SUFFICES ASSUME Chain, UNCHANGED <<cache, data, wire>> PROVE Chain'
  OBVIOUS
<1>1. \A n \in 1 .. Len(wire) : Before(n)' = Before(n)
  BY DEF Before
<1>2. (Before(Len(wire) + 1))' = Before(Len(wire) + 1)
  BY DEF Before
<1> QED
  BY <1>1, <1>2 DEF Chain

LEMMA JoinedInit == Init => TypeOK /\ Joined
<1> SUFFICES ASSUME Init PROVE TypeOK /\ Joined
  OBVIOUS
<1>1. ServerTypeOK
  BY ServerTypeInit
<1>2. /\ data = <<>> /\ cache = <<>> /\ wire = <<>> /\ stream = FALSE
      /\ client = "none" /\ sameVersion \in BOOLEAN
  BY DEF Init
<1>3. <<>> \in Seq(Entry)
  OBVIOUS
<1> QED
  BY <1>1, <1>2, <1>3 DEF TypeOK, Joined

LEMMA JoinedStep ==
  ~ Lossy /\ TypeOK /\ Joined /\ [Next]_vars => (TypeOK /\ Joined)'
<1> SUFFICES ASSUME ~ Lossy, TypeOK, Joined, [Next]_vars
             PROVE  (TypeOK /\ Joined)'
  OBVIOUS
<1> USE DEF serverVars, clientVars
<1>0. ServerTypeOK /\ ServerTypeOK'
  BY ServerTypeStep DEF TypeOK
<1>1. ASSUME UNCHANGED <<cache, data, wire, stream, client, sameVersion>>
      PROVE  (TypeOK /\ Joined)'
  BY <1>0, <1>1, ChainStays DEF TypeOK, Joined
<1>2. CASE UpdateState
  <2>1. /\ UNCHANGED <<data, stream, client, sameVersion>> /\ client # "none"
        /\ stream => wire' = Append(wire, Message)
    BY <1>2 DEF UpdateState
  <2>2. client = "up" => Chain'
    BY <1>0, <1>2, <2>1, UpdateStateInStep DEF Joined
  <2> QED
    BY <1>0, <2>1, <2>2 DEF TypeOK, Joined
<1>3. CASE Connect
  <2>1. /\ client = "none" /\ client' = "up" /\ stream' = TRUE
        /\ UNCHANGED <<cache, wire, data, sameVersion>>
    BY <1>3 DEF Connect
  <2>2. Chain
    BY <2>1 DEF Joined, Chain, Before
  <2> QED
    BY <1>0, <2>1, <2>2, ChainStays DEF TypeOK, Joined
<1>4. CASE Disconnect
  <2>1. /\ stream /\ stream' = FALSE /\ UNCHANGED <<data, sameVersion>>
        /\ client' = IF client = "up" THEN "left" ELSE client
    BY <1>4 DEF Disconnect
  <2>2. client' \notin {"up", "none", "exited"} /\ client' \in {"none", "left"}
    BY <2>1 DEF Joined, TypeOK
  <2> QED
    BY <1>0, <2>1, <2>2 DEF TypeOK, Joined
<1>5. CASE OnData
  <2>1. data' \in Seq(Entry) /\ client' = "up" /\ stream' /\ Chain'
    BY <1>0, <1>5, OnDataInStep
  <2>2. UNCHANGED <<stream, sameVersion>>
    BY <1>5 DEF OnData
  <2> QED
    BY <1>0, <2>1, <2>2 DEF TypeOK, Joined
<1>6. CASE VersionMismatch
  <2>1. /\ client' = "left" /\ stream' = FALSE
        /\ UNCHANGED <<data, sameVersion>>
    BY <1>6 DEF VersionMismatch
  <2> QED
    BY <1>0, <2>1 DEF TypeOK, Joined
<1>7. CASE Step
  BY <1>1, <1>7 DEF Step
<1>8. CASE SyncSim
  BY <1>1, <1>8 DEF SyncSim
<1>9. CASE SyncAndCollect
  BY <1>1, <1>9 DEF SyncAndCollect
<1>10. CASE NobodyThere
  BY <1>1, <1>10 DEF NobodyThere
<1>11. CASE UNCHANGED vars
  BY <1>1, <1>11 DEF vars
<1> QED
  BY <1>2, <1>3, <1>4, <1>5, <1>6, <1>7, <1>8, <1>9, <1>10, <1>11
     DEF Next, Tick

(***************************************************************************)
(* If StreamSend takes every message while the stream is up, the variables *)
(* have their types: differences never take the client's poses anywhere    *)
(* the server's do not go.                                                 *)
(***************************************************************************)
THEOREM Types == ASSUME ~ Lossy PROVE Spec => []TypeOK
<1>1. Init => TypeOK /\ Joined
  BY JoinedInit
<1>2. (TypeOK /\ Joined) /\ [Next]_vars => (TypeOK /\ Joined)'
  BY JoinedStep
<1> QED
  BY <1>1, <1>2, PTL DEF Spec

(***************************************************************************)
(* If StreamSend takes every message while the stream is up, onData never  *)
(* misreads a message and never comes to exit(1).                          *)
(***************************************************************************)
THEOREM NobodyExits == ASSUME ~ Lossy PROVE Spec => []ClientStays
<1>1. Init => TypeOK /\ Joined
  BY JoinedInit
<1>2. (TypeOK /\ Joined) /\ [Next]_vars => (TypeOK /\ Joined)'
  BY JoinedStep
<1>3. Joined => ClientStays
  BY DEF Joined, ClientStays
<1> QED
  BY <1>1, <1>2, <1>3, PTL DEF Spec

(***************************************************************************)
(* If StreamSend takes every message while the stream is up, a client that *)
(* has applied all messages has in data what its Handle has in cache, pose *)
(* for pose, whatever the differences are rounded to.                      *)
(***************************************************************************)
THEOREM EndsInStep == ASSUME ~ Lossy PROVE Spec => []InStep
<1>1. Init => TypeOK /\ Joined
  BY JoinedInit
<1>2. (TypeOK /\ Joined) /\ [Next]_vars => (TypeOK /\ Joined)'
  BY JoinedStep
<1>3. Joined => InStep
  BY DEF Joined, InStep, Chain, Before
<1> QED
  BY <1>1, <1>2, <1>3, PTL DEF Spec

-----------------------------------------------------------------------------
(* What is left of a vector without repetitions has none, and nothing of   *)
(* what is left is lost.                                                   *)

LEMMA NthOneToOne ==
  ASSUME NEW n \in Nat, NEW K \in SUBSET (1 .. n)
  PROVE  /\ \A i, j \in 1 .. Cardinality(K) : Nth(K)[i] = Nth(K)[j] => i = j
         /\ \A x \in K : \E i \in 1 .. Cardinality(K) : Nth(K)[i] = x
<1>1. PICK c \in Nat : c = Cardinality(K)
  BY NthType
<1>2. Nth(K) \in [1 .. c -> K]
  BY <1>1, NthType
<1>3. \A i, j \in 1 .. c : i < j => Nth(K)[i] < Nth(K)[j]
  BY <1>1, PlacesOrdered DEF Ordered, Increasing, Nth
<1>4. ASSUME NEW i \in 1 .. c, NEW j \in 1 .. c, Nth(K)[i] = Nth(K)[j]
      PROVE  i = j
  <2>0. Nth(K)[i] \in K /\ Nth(K)[j] \in K
    BY <1>2
  <2>a. \A x \in K : x \in Nat
    OBVIOUS
  <2>1. Nth(K)[i] \in Nat /\ Nth(K)[j] \in Nat
    BY <2>0, <2>a
  <2>2. ~ (Nth(K)[i] < Nth(K)[j]) /\ ~ (Nth(K)[j] < Nth(K)[i])
    BY <1>4, <2>1
  <2>3. ~ (i < j) /\ ~ (j < i)
    BY <1>3, <2>2
  <2> QED
    BY <1>1, <2>3
<1>5. Nth(K) \in Injection(1 .. c, K)
  BY <1>2, <1>4 DEF Injection, IsInjective
<1>6. IsFiniteSet(K)
  BY PlacesFinite
<1>7. Cardinality(1 .. c) = c
  BY <1>1, FS_Interval
<1>8. Nth(K) \in Surjection(1 .. c, K)
  BY <1>1, <1>5, <1>6, <1>7, FS_Injection
<1> QED
  BY <1>1, <1>4, <1>8 DEF Surjection

LEMMA PickKeeps ==
  ASSUME NEW S, NEW s \in Seq(S), NEW K \in SUBSET DOMAIN s
  PROVE  /\ Range(Pick(s, K)) = {s[i] : i \in K}
         /\ IsInjective(s) => IsInjective(Pick(s, K))
<1> DEFINE c == Cardinality(K)
<1>1. Len(s) \in Nat /\ DOMAIN s = 1 .. Len(s)
  BY VectorRange
<1>2. /\ \A i, j \in 1 .. c : Nth(K)[i] = Nth(K)[j] => i = j
      /\ \A x \in K : \E i \in 1 .. c : Nth(K)[i] = x
  BY <1>1, NthOneToOne
<1>3. /\ DOMAIN Pick(s, K) = 1 .. c
      /\ \A k \in 1 .. c : Nth(K)[k] \in K /\ Pick(s, K)[k] = s[Nth(K)[k]]
  BY PickType DEF Pick
<1>4. {s[i] : i \in K} \subseteq Range(Pick(s, K))
  <2> SUFFICES ASSUME NEW x \in K PROVE s[x] \in Range(Pick(s, K))
    OBVIOUS
  <2>1. PICK k \in 1 .. c : Nth(K)[k] = x
    BY <1>2
  <2> QED
    BY <1>3, <2>1 DEF Range
<1>5. ASSUME IsInjective(s) PROVE IsInjective(Pick(s, K))
  <2> SUFFICES ASSUME NEW i \in 1 .. c, NEW j \in 1 .. c,
                      Pick(s, K)[i] = Pick(s, K)[j]
               PROVE  i = j
    BY <1>3 DEF IsInjective
  <2>1. s[Nth(K)[i]] = s[Nth(K)[j]] /\ Nth(K)[i] \in K /\ Nth(K)[j] \in K
    BY <1>3
  <2>2. Nth(K)[i] = Nth(K)[j]
    BY <1>5, <2>1 DEF IsInjective
  <2> QED
    BY <1>2, <2>2
<1> QED
  BY <1>4, <1>5, PickRange

LEMMA JoinedOneToOne ==
  ASSUME NEW S, NEW s \in Seq(S), NEW t \in Seq(S),
         IsInjective(s), IsInjective(t), Range(s) \cap Range(t) = {}
  PROVE  IsInjective(s \o t)
<1>1. /\ Len(s) \in Nat /\ Len(t) \in Nat
      /\ DOMAIN s = 1 .. Len(s) /\ DOMAIN t = 1 .. Len(t)
      /\ DOMAIN (s \o t) = 1 .. Len(s) + Len(t)
  OBVIOUS
<1>2. ASSUME NEW i \in 1 .. Len(s) + Len(t)
      PROVE  \/ i \in 1 .. Len(s) /\ (s \o t)[i] = s[i]
             \/ i - Len(s) \in 1 .. Len(t) /\ (s \o t)[i] = t[i - Len(s)]
  OBVIOUS
<1> DEFINE st == s \o t
<1>3. ASSUME NEW i \in 1 .. Len(s) + Len(t), NEW j \in 1 .. Len(s) + Len(t),
             st[i] = st[j]
      PROVE  i = j
  <2>1. \A k \in 1 .. Len(s) : s[k] \in Range(s)
    BY <1>1 DEF Range
  <2>2. \A k \in 1 .. Len(t) : t[k] \in Range(t)
    BY <1>1 DEF Range
  <2>3. CASE i \in 1 .. Len(s) /\ st[i] = s[i] /\ j \in 1 .. Len(s) /\ st[j] = s[j]
    BY <1>1, <1>3, <2>3 DEF IsInjective
  <2>4. CASE /\ i - Len(s) \in 1 .. Len(t) /\ st[i] = t[i - Len(s)]
             /\ j - Len(s) \in 1 .. Len(t) /\ st[j] = t[j - Len(s)]
    <3>1. i - Len(s) = j - Len(s)
      BY <1>1, <1>3, <2>4 DEF IsInjective
    <3> QED
      BY <1>1, <3>1
  <2>5. CASE /\ i \in 1 .. Len(s) /\ st[i] = s[i]
             /\ j - Len(s) \in 1 .. Len(t) /\ st[j] = t[j - Len(s)]
    BY <1>3, <2>1, <2>2, <2>5
  <2>6. CASE /\ i - Len(s) \in 1 .. Len(t) /\ st[i] = t[i - Len(s)]
             /\ j \in 1 .. Len(s) /\ st[j] = s[j]
    BY <1>3, <2>1, <2>2, <2>6
  <2> QED
    BY <1>2, <2>3, <2>4, <2>5, <2>6
<1> HIDE DEF st
<1> QED
  BY <1>1, <1>3 DEF IsInjective, st

-----------------------------------------------------------------------------
(* Each object has one entry. *)

Names(s) == [i \in DOMAIN s |-> s[i].obj]

Once(s) == IsInjective(Names(s))

Singly ==
  /\ IsInjective(objects)
  /\ Once(cache) /\ Once(data)
  /\ \A n \in 1 .. Len(wire) : Once(wire[n].after)

LEMMA NamesType ==
  ASSUME NEW s \in Seq(Entry)
  PROVE  /\ Names(s) \in Seq(Obj)
         /\ Range(Names(s)) = {e.obj : e \in Range(s)}
<1>1. Len(s) \in Nat /\ DOMAIN s = 1 .. Len(s)
  BY VectorRange
<1>2. \A i \in 1 .. Len(s) : s[i].obj \in Obj
  <2>1. \A i \in 1 .. Len(s) : s[i] \in Entry
    OBVIOUS
  <2> QED
    BY <2>1 DEF Entry
<1>3. Names(s) \in [1 .. Len(s) -> Obj]
  BY <1>1, <1>2 DEF Names
<1>4. \A i \in DOMAIN s : Names(s)[i] = s[i].obj
  BY DEF Names
<1>5. DOMAIN Names(s) = DOMAIN s
  BY DEF Names
<1> QED
  BY <1>1, <1>3, <1>4, <1>5, FunctionIsVector DEF Range

LEMMA SameVectors ==
  ASSUME NEW S, NEW s \in Seq(S), NEW t \in Seq(S), NEW n,
         DOMAIN s = 1 .. n, DOMAIN t = 1 .. n, \A i \in 1 .. n : s[i] = t[i]
  PROVE  s = t
<1>1. s = [i \in DOMAIN s |-> s[i]] /\ t = [i \in DOMAIN t |-> t[i]]
  OBVIOUS
<1> QED
  BY <1>1

LEMMA NamesJoined ==
  ASSUME NEW s \in Seq(Entry), NEW t \in Seq(Entry)
  PROVE  Names(s \o t) = Names(s) \o Names(t)
<1>1. /\ Len(s) \in Nat /\ Len(t) \in Nat
      /\ DOMAIN s = 1 .. Len(s) /\ DOMAIN t = 1 .. Len(t)
      /\ DOMAIN (s \o t) = 1 .. Len(s) + Len(t)
  OBVIOUS
<1>2. /\ Names(s) \in Seq(Obj) /\ Len(Names(s)) = Len(s)
      /\ Names(t) \in Seq(Obj) /\ Len(Names(t)) = Len(t)
  <2>1. /\ Names(s) \in Seq(Obj) /\ DOMAIN Names(s) = 1 .. Len(s)
        /\ Names(t) \in Seq(Obj) /\ DOMAIN Names(t) = 1 .. Len(t)
    BY <1>1, NamesType DEF Names
  <2> QED
    BY <1>1, <2>1
<1>3. DOMAIN (Names(s) \o Names(t)) = 1 .. Len(s) + Len(t)
  BY <1>1, <1>2
<1>4. DOMAIN Names(s \o t) = 1 .. Len(s) + Len(t)
  BY <1>1 DEF Names
<1>5. ASSUME NEW i \in 1 .. Len(s) + Len(t)
      PROVE  Names(s \o t)[i] = (Names(s) \o Names(t))[i]
  <2>1. Names(s \o t)[i] = (s \o t)[i].obj
    BY <1>1 DEF Names
  <2>2. CASE i <= Len(s)
    <3>1. i \in 1 .. Len(s) /\ (s \o t)[i] = s[i]
      BY <1>1, <2>2
    <3>2. (Names(s) \o Names(t))[i] = Names(s)[i]
      BY <1>1, <1>2, <2>2
    <3>3. Names(s)[i] = s[i].obj
      BY <1>1, <3>1 DEF Names
    <3> QED
      BY <2>1, <3>1, <3>2, <3>3
  <2>3. CASE i > Len(s)
    <3>1. i - Len(s) \in 1 .. Len(t) /\ (s \o t)[i] = t[i - Len(s)]
      BY <1>1, <2>3
    <3>2. (Names(s) \o Names(t))[i] = Names(t)[i - Len(s)]
      BY <1>1, <1>2, <2>3
    <3>3. Names(t)[i - Len(s)] = t[i - Len(s)].obj
      BY <1>1, <3>1 DEF Names
    <3> QED
      BY <2>1, <3>1, <3>2, <3>3
  <2>4. i <= Len(s) \/ i > Len(s)
    BY <1>1
  <2> QED
    BY <2>2, <2>3, <2>4
<1>6. Names(s \o t) \in Seq(Obj) /\ Names(s) \o Names(t) \in Seq(Obj)
  <2>1. s \o t \in Seq(Entry)
    OBVIOUS
  <2>2. Names(s \o t) \in Seq(Obj)
    BY <2>1, NamesType
  <2> QED
    BY <1>2, <2>2
<1> QED
  BY <1>3, <1>4, <1>5, <1>6, SameVectors

(***************************************************************************)
(* The entries updateState keeps are those of objects that are still in    *)
(* the world, the ones it adds are of the others: together, one entry for  *)
(* each object of the world.                                               *)
(***************************************************************************)
LEMMA NextCacheNames ==
  ASSUME ServerTypeOK
  PROVE  /\ Range(Names(NextCache)) = Range(objects)
         /\ IsInjective(objects) /\ Once(cache) => Once(NextCache)
<1>1. /\ Kept \in Seq(Entry) /\ Adds \in Seq(Entry)
      /\ Names(NextCache) = Names(Kept) \o Names(Adds)
      /\ Names(Kept) \in Seq(Obj) /\ Names(Adds) \in Seq(Obj)
  BY NextCacheType, NamesJoined, NamesType DEF NextCache
<1>2. /\ objects \in Seq(Obj) /\ DOMAIN objects = 1 .. Len(objects)
      /\ Uncached \in SUBSET DOMAIN objects
  BY DEF ServerTypeOK, Uncached
<1>3. /\ cache \in Seq(Entry) /\ Names(cache) \in Seq(Obj)
      /\ DOMAIN Names(cache) = DOMAIN cache
      /\ Staying \in SUBSET DOMAIN Names(cache)
      /\ \A i \in DOMAIN cache : Names(cache)[i] = cache[i].obj
  BY NamesType DEF ServerTypeOK, Staying, Names
<1>4. Names(Kept) = Pick(Names(cache), Staying)
  <2>1. DOMAIN Kept = 1 .. Cardinality(Staying)
    BY DEF Kept
  <2>2. ASSUME NEW k \in 1 .. Cardinality(Staying)
        PROVE  Kept[k].obj = Pick(Names(cache), Staying)[k]
    <3>1. Kept[k].obj = Pick(cache, Staying)[k].obj
      BY DEF Kept, Refreshed
    <3>2. /\ Pick(cache, Staying)[k] = cache[Nth(Staying)[k]]
          /\ Nth(Staying)[k] \in Staying
      BY <1>3, PickType
    <3>3. Pick(Names(cache), Staying)[k] = Names(cache)[Nth(Staying)[k]]
      BY DEF Pick
    <3> QED
      BY <1>3, <3>1, <3>2, <3>3
  <2> QED
    BY <2>1, <2>2 DEF Names, Pick
<1>5. Names(Adds) = Pick(objects, Uncached)
  <2>1. DOMAIN Adds = 1 .. Cardinality(Uncached)
    BY DEF Adds
  <2>2. ASSUME NEW k \in 1 .. Cardinality(Uncached)
        PROVE  Adds[k].obj = Pick(objects, Uncached)[k]
    BY DEF Adds, Added
  <2> QED
    BY <2>1, <2>2 DEF Names, Pick
<1>6. Range(Names(Kept)) = {cache[i].obj : i \in Staying}
  <2>1. Range(Names(Kept)) = {Names(cache)[i] : i \in Staying}
    BY <1>3, <1>4, PickKeeps
  <2> QED
    BY <1>3, <2>1 DEF Staying
<1>7. Range(Names(Adds)) = {objects[i] : i \in Uncached}
  BY <1>2, <1>5, PickKeeps
<1>8. {cache[i].obj : i \in Staying} \cup {objects[i] : i \in Uncached}
        = Range(objects)
  BY <1>2 DEF Staying, Uncached, Listed, Range
<1>9. Range(Names(Kept)) \cap Range(Names(Adds)) = {}
  BY <1>6, <1>7 DEF Staying, Uncached
<1>10. Range(Names(NextCache)) = Range(objects)
  <2>1. Range(Names(Kept) \o Names(Adds))
          = Range(Names(Kept)) \cup Range(Names(Adds))
    BY <1>1, JoinedRange
  <2> QED
    BY <1>1, <1>6, <1>7, <1>8, <2>1
<1>11. ASSUME IsInjective(objects), Once(cache)
       PROVE  Once(NextCache)
  <2>1. IsInjective(Names(Kept)) /\ IsInjective(Names(Adds))
    BY <1>2, <1>3, <1>4, <1>5, <1>11, PickKeeps DEF Once
  <2>2. IsInjective(Names(Kept) \o Names(Adds))
    BY <1>1, <1>9, <2>1, JoinedOneToOne
  <2> QED
    BY <1>1, <2>2 DEF Once
<1> QED
  BY <1>10, <1>11

LEMMA SinglyInit == Init => Singly
<1> SUFFICES ASSUME Init PROVE Singly
  OBVIOUS
<1>1. objects = <<Plane>> /\ cache = <<>> /\ data = <<>> /\ wire = <<>>
  BY DEF Init
<1>2. IsInjective(<<Plane>>)
  BY DEF IsInjective
<1>3. Once(<<>>)
  BY DEF Once, Names, IsInjective
<1> QED
  BY <1>1, <1>2, <1>3 DEF Singly

LEMMA SinglyStep ==
  TypeOK /\ Joined /\ Singly /\ [Next]_vars => Singly'
<1> SUFFICES ASSUME TypeOK, Joined, Singly, [Next]_vars PROVE Singly'
  OBVIOUS
<1> USE DEF serverVars, clientVars
<1>0. ServerTypeOK /\ wire \in Seq(WireMessage)
  BY DEF TypeOK, ServerTypeOK
<1>a. ASSUME UNCHANGED <<cache, data>>, wire' = wire \/ wire' = <<>>,
             IsInjective(objects')
      PROVE  Singly'
  <2>1. Once(cache)' /\ Once(data)'
    BY <1>a DEF Singly, Once, Names, IsInjective
  <2>2. CASE wire' = wire
    <3>1. \A n \in 1 .. Len(wire') : Once(wire'[n].after)
      BY <2>2 DEF Singly
    <3> QED
      BY <1>a, <2>1, <3>1 DEF Singly, Once, Names, IsInjective
  <2>3. CASE wire' = <<>>
    <3>1. \A n \in 1 .. Len(wire') : Once(wire'[n].after)
      BY <2>3
    <3> QED
      BY <1>a, <2>1, <3>1 DEF Singly, Once, Names, IsInjective
  <2> QED
    BY <1>a, <2>2, <2>3
<1>1. CASE Step
  <2>1. PICK new \in NewCubes : objects' = objects \o new
    BY <1>1 DEF Step
  <2>2. new \in Seq(Obj) /\ Range(new) \cap Range(objects) = {}
    BY NewCubesType
  <2>3. IsInjective(new)
    BY DEF NewCubes, IsInjective
  <2>4. IsInjective(objects')
    BY <1>0, <2>1, <2>2, <2>3, JoinedOneToOne DEF Singly, ServerTypeOK
  <2> QED
    BY <1>1, <1>a, <2>4 DEF Step
<1>2. CASE SyncAndCollect
  <2>1. objects' = Pick(objects, Surviving) /\ UNCHANGED <<cache, data, wire>>
    BY <1>2 DEF SyncAndCollect
  <2>2. objects \in Seq(Obj) /\ Surviving \in SUBSET DOMAIN objects
    BY <1>0 DEF ServerTypeOK, Surviving
  <2>3. IsInjective(objects')
    BY <2>1, <2>2, PickKeeps DEF Singly
  <2> QED
    BY <1>a, <2>1, <2>3
<1>3. CASE UpdateState
  <2>1. UNCHANGED <<objects, data>> /\ cache' = NextCache
    BY <1>3 DEF UpdateState
  <2>2. Once(NextCache)
    BY <1>0, NextCacheNames DEF Singly
  <2>3. Message.after = NextCache /\ Message \in WireMessage
    BY <1>0, MessageUnderstood DEF Message
  <2>4. wire' = wire \/ wire' = Append(wire, Message)
    BY <1>3 DEF UpdateState
  <2>5. \A n \in 1 .. Len(wire') : Once(wire'[n].after)
    <3> HIDE DEF Message
    <3>1. CASE wire' = wire
      BY <3>1 DEF Singly
    <3>2. CASE wire' = Append(wire, Message)
      <4>1. /\ Len(wire) \in Nat /\ Len(wire') = Len(wire) + 1
            /\ wire'[Len(wire) + 1] = Message
            /\ \A n \in 1 .. Len(wire) : wire'[n] = wire[n]
        BY <1>0, <2>3, <3>2
      <4>2. \A n \in 1 .. Len(wire') : n \in 1 .. Len(wire) \/ n = Len(wire) + 1
        BY <4>1
      <4> QED
        BY <2>2, <2>3, <4>1, <4>2 DEF Singly
    <3> QED
      BY <2>4, <3>1, <3>2
  <2> QED
    BY <2>1, <2>2, <2>5 DEF Singly, Once, Names, IsInjective
<1>4. CASE OnData
  <2>1. data' = wire[1].after
    BY <1>0, <1>4, OnDataInStep
  <2>2. wire # <<>> /\ wire' = Tail(wire) /\ UNCHANGED <<objects, cache>>
    BY <1>4 DEF OnData
  <2>3. /\ Len(wire) \in Nat \ {0} /\ Len(wire') = Len(wire) - 1
        /\ \A n \in 1 .. Len(wire) - 1 : wire'[n] = wire[n + 1]
    BY <1>0, <2>2
  <2>4. Once(data')
    BY <2>1, <2>3 DEF Singly
  <2>5. \A n \in 1 .. Len(wire') : Once(wire'[n].after)
    <3>1. \A n \in 1 .. Len(wire) - 1 : n + 1 \in 1 .. Len(wire)
      BY <2>3
    <3> QED
      BY <2>3, <3>1 DEF Singly
  <2> QED
    BY <2>2, <2>4, <2>5 DEF Singly, Once, Names, IsInjective
<1>5. CASE Disconnect
  BY <1>a, <1>5 DEF Disconnect, Singly
<1>6. CASE VersionMismatch
  BY <1>a, <1>6 DEF VersionMismatch, Singly
<1>7. CASE SyncSim \/ NobodyThere \/ Connect \/ UNCHANGED vars
  BY <1>a, <1>7 DEF SyncSim, NobodyThere, Connect, vars, Singly
<1> QED
  BY <1>1, <1>2, <1>3, <1>4, <1>5, <1>6, <1>7 DEF Next, Tick

(***************************************************************************)
(* If StreamSend takes every message while the stream is up, a client has  *)
(* one entry for each object it shows: what updateState adds is neither in *)
(* the cache nor twice in objects.                                         *)
(***************************************************************************)
THEOREM NothingTwice == ASSUME ~ Lossy PROVE Spec => []ShownOnce
<1>1. Init => TypeOK /\ Joined /\ Singly
  BY JoinedInit, SinglyInit
<1>2. (TypeOK /\ Joined /\ Singly) /\ [Next]_vars
        => (TypeOK /\ Joined /\ Singly)'
  BY JoinedStep, SinglyStep
<1>3. Singly => ShownOnce
  BY DEF Singly, Once, Names, IsInjective, ShownOnce
<1> QED
  BY <1>1, <1>2, <1>3, PTL DEF Spec

-----------------------------------------------------------------------------
(* The refinement. *)

Pictures(w) == [n \in DOMAIN w |-> Range(w[n].after)]

LEMMA PicturesGrow ==
  ASSUME NEW w \in Seq(WireMessage), NEW m \in WireMessage
  PROVE  /\ Pictures(Append(w, m)) = Append(Pictures(w), Range(m.after))
         /\ Pictures(Append(w, m)) # <<>>
         /\ Pictures(Append(w, m))[Len(Pictures(Append(w, m)))]
              = Range(m.after)
<1> DEFINE v == Append(w, m)
<1>1. PICK L \in Nat : L = Len(w)
  OBVIOUS
<1>2. /\ DOMAIN w = 1 .. L /\ DOMAIN v = 1 .. L + 1
      /\ v[L + 1] = m /\ \A n \in 1 .. L : v[n] = w[n]
  BY <1>1
<1> HIDE DEF v
<1>3. /\ DOMAIN Pictures(w) = 1 .. L /\ DOMAIN Pictures(v) = 1 .. L + 1
      /\ \A n \in 1 .. L : Pictures(w)[n] = Range(w[n].after)
      /\ \A n \in 1 .. L + 1 : Pictures(v)[n] = Range(v[n].after)
  BY <1>2 DEF Pictures
<1> DEFINE S == {Pictures(v)[n] : n \in 1 .. L + 1}
<1>4. Pictures(w) \in [1 .. L -> S] /\ Pictures(v) \in [1 .. L + 1 -> S]
  <2>1. \A n \in 1 .. L : n \in 1 .. L + 1 /\ Pictures(w)[n] = Pictures(v)[n]
    BY <1>2, <1>3
  <2>2. \A n \in 1 .. L : Pictures(w)[n] \in S
    BY <2>1
  <2>3. \A n \in 1 .. L + 1 : Pictures(v)[n] \in S
    OBVIOUS
  <2> HIDE DEF S
  <2> QED
    BY <1>3, <2>2, <2>3 DEF Pictures
<1>5. Range(m.after) \in S
  <2>1. L + 1 \in 1 .. L + 1
    BY <1>1
  <2> QED
    BY <1>2, <1>3, <2>1
<1> HIDE DEF S
<1>6. /\ Pictures(w) \in Seq(S) /\ Len(Pictures(w)) = L
      /\ Pictures(v) \in Seq(S) /\ Len(Pictures(v)) = L + 1
  BY <1>4, FunctionIsVector
<1> DEFINE a == Append(Pictures(w), Range(m.after))
<1>7. /\ a \in Seq(S) /\ DOMAIN a = 1 .. L + 1 /\ a[L + 1] = Range(m.after)
      /\ \A n \in 1 .. L : a[n] = Pictures(w)[n]
  BY <1>1, <1>5, <1>6
<1> HIDE DEF a
<1>8. \A n \in 1 .. L + 1 : Pictures(v)[n] = a[n]
  <2> SUFFICES ASSUME NEW n \in 1 .. L + 1 PROVE Pictures(v)[n] = a[n]
    OBVIOUS
  <2>1. CASE n = L + 1
    BY <1>2, <1>3, <1>7, <2>1
  <2>2. CASE n # L + 1
    <3>1. n \in 1 .. L
      BY <1>1, <2>2
    <3> QED
      BY <1>2, <1>3, <1>7, <3>1
  <2> QED
    BY <2>1, <2>2
<1>9. Pictures(v) = a
  BY <1>3, <1>6, <1>7, <1>8, SameVectors
<1>10. Pictures(v) # <<>> /\ Pictures(v)[Len(Pictures(v))] = Range(m.after)
  BY <1>6, <1>7, <1>9
<1> QED
  BY <1>9, <1>10 DEF a, v

LEMMA PicturesShrink ==
  ASSUME NEW w \in Seq(WireMessage), w # <<>>
  PROVE  /\ Pictures(w) # <<>> /\ Head(Pictures(w)) = Range(w[1].after)
         /\ Pictures(Tail(w)) = Tail(Pictures(w))
<1> DEFINE v == Tail(w)
<1>1. PICK L \in Nat \ {0} : L = Len(w)
  OBVIOUS
<1>2. /\ DOMAIN w = 1 .. L /\ DOMAIN v = 1 .. L - 1
      /\ \A n \in 1 .. L - 1 : v[n] = w[n + 1]
  BY <1>1
<1> HIDE DEF v
<1> DEFINE S == {Pictures(w)[n] : n \in 1 .. L}
<1>3. /\ DOMAIN Pictures(w) = 1 .. L /\ DOMAIN Pictures(v) = 1 .. L - 1
      /\ \A n \in 1 .. L : Pictures(w)[n] = Range(w[n].after)
      /\ \A n \in 1 .. L - 1 : Pictures(v)[n] = Range(v[n].after)
  BY <1>2 DEF Pictures
<1>4. Pictures(w) \in [1 .. L -> S] /\ Pictures(v) \in [1 .. L - 1 -> S]
  <2>1. \A n \in 1 .. L - 1 :
          n + 1 \in 1 .. L /\ Pictures(v)[n] = Pictures(w)[n + 1]
    BY <1>1, <1>2, <1>3
  <2>2. \A n \in 1 .. L - 1 : Pictures(v)[n] \in S
    BY <2>1
  <2>3. \A n \in 1 .. L : Pictures(w)[n] \in S
    OBVIOUS
  <2> HIDE DEF S
  <2> QED
    BY <1>3, <2>2, <2>3 DEF Pictures
<1> HIDE DEF S
<1>5. /\ Pictures(w) \in Seq(S) /\ Len(Pictures(w)) = L
      /\ Pictures(v) \in Seq(S)
  <2>1. L \in Nat /\ L - 1 \in Nat
    BY <1>1
  <2> QED
    BY <1>4, <2>1, FunctionIsVector
<1>6. Pictures(w) # <<>> /\ Head(Pictures(w)) = Pictures(w)[1] /\ 1 \in 1 .. L
  BY <1>1, <1>5
<1> DEFINE t == Tail(Pictures(w))
<1>7. /\ t \in Seq(S) /\ DOMAIN t = 1 .. L - 1
      /\ \A n \in 1 .. L - 1 : t[n] = Pictures(w)[n + 1]
  BY <1>1, <1>5, <1>6
<1> HIDE DEF t
<1>8. \A n \in 1 .. L - 1 : Pictures(v)[n] = t[n]
  <2> SUFFICES ASSUME NEW n \in 1 .. L - 1 PROVE Pictures(v)[n] = t[n]
    OBVIOUS
  <2>1. n + 1 \in 1 .. L
    BY <1>1
  <2> QED
    BY <1>2, <1>3, <1>7, <2>1
<1>9. Pictures(v) = t
  BY <1>3, <1>5, <1>7, <1>8, SameVectors
<1> QED
  BY <1>3, <1>6, <1>9 DEF t, v

LEMMA MirrorInit == Init => Mirror!Init
<1> SUFFICES ASSUME Init PROVE Mirror!Init
  OBVIOUS
<1>1. wire = <<>> /\ data = <<>>
  BY DEF Init
<1> QED
  BY <1>1 DEF Mirror!Init, Range

(* A step is a step of WorldMirror: what updateState sends is a picture of *)
(* the world, and what onData makes of data is the first picture under way.*)
LEMMA MirrorStep ==
  TypeOK /\ Joined /\ ~ Lossy /\ [Next]_vars => [Mirror!Next]_(Mirror!vars)
<1> SUFFICES ASSUME TypeOK, Joined, ~ Lossy, [Next]_vars
             PROVE  Mirror!Next
  OBVIOUS
<1> USE DEF serverVars, clientVars
<1>0. ServerTypeOK /\ wire \in Seq(WireMessage)
  BY DEF TypeOK, ServerTypeOK
<1>a. ASSUME UNCHANGED <<wire, data>> PROVE Mirror!Next
  BY <1>a DEF Mirror!Next, Mirror!Evolve, Range
<1>b. ASSUME UNCHANGED <<objects, data>>, wire' = <<>> PROVE Mirror!Next
  BY <1>b DEF Mirror!Next, Mirror!Disconnect, Range
<1>1. CASE UpdateState
  <2>1. UNCHANGED <<objects, data>>
    BY <1>1 DEF UpdateState
  <2>2. CASE wire' = Append(wire, Message)
    <3>1. Message \in WireMessage /\ Message.after = NextCache
      BY <1>0, MessageUnderstood DEF Message
    <3> HIDE DEF Message
    <3>2. /\ Pictures(wire') = Append(Pictures(wire), Range(NextCache))
          /\ Pictures(wire') # <<>>
          /\ Pictures(wire')[Len(Pictures(wire'))] = Range(NextCache)
      BY <1>0, <2>2, <3>1, PicturesGrow
    <3>3. Mirror!ObjectsOf(Range(NextCache)) = Range(objects)
      BY <1>0, NextCacheType, NextCacheNames, NamesType DEF Mirror!ObjectsOf
    <3>4. Mirror!Publish
      BY <2>1, <3>2, <3>3 DEF Mirror!Publish, Pictures, Range
    <3> QED
      BY <3>4 DEF Mirror!Next
  <2>3. CASE wire' = wire
    BY <1>a, <2>1, <2>3
  <2> QED
    BY <1>1, <2>2, <2>3 DEF UpdateState
<1>2. CASE OnData
  <2>1. data' = wire[1].after
    BY <1>0, <1>2, OnDataInStep
  <2>2. wire # <<>> /\ wire' = Tail(wire) /\ UNCHANGED objects
    BY <1>2 DEF OnData
  <2>3. /\ Pictures(wire) # <<>> /\ Head(Pictures(wire)) = Range(data')
        /\ Pictures(wire') = Tail(Pictures(wire))
    BY <1>0, <2>1, <2>2, PicturesShrink
  <2>4. Mirror!Show
    BY <2>2, <2>3 DEF Mirror!Show, Pictures, Range
  <2> QED
    BY <2>4 DEF Mirror!Next
<1>3. CASE Disconnect
  BY <1>b, <1>3 DEF Disconnect
<1>4. CASE VersionMismatch
  BY <1>b, <1>4 DEF VersionMismatch
<1>5. CASE \/ Step \/ SyncSim \/ SyncAndCollect \/ NobodyThere \/ Connect
           \/ UNCHANGED vars
  BY <1>a, <1>5
     DEF Step, SyncSim, SyncAndCollect, NobodyThere, Connect, vars
<1> QED
  BY <1>1, <1>2, <1>3, <1>4, <1>5 DEF Next, Tick

(***************************************************************************)
(* If StreamSend takes every message while the stream is up, replication   *)
(* does what WorldMirror promises: the client shows the world's objects as *)
(* they were at one net tick after the other, none skipped or mixed.       *)
(***************************************************************************)
THEOREM ImplementsMirror == ASSUME ~ Lossy PROVE Spec => MirrorsWorld
<1>1. Init => TypeOK /\ Joined
  BY JoinedInit
<1>2. (TypeOK /\ Joined) /\ [Next]_vars => (TypeOK /\ Joined)'
  BY JoinedStep
<1>3. Init => Mirror!Init
  BY MirrorInit
<1>4. TypeOK /\ Joined /\ [Next]_vars => [Mirror!Next]_(Mirror!vars)
  BY MirrorStep
<1> QED
  BY <1>1, <1>2, <1>3, <1>4, PTL DEF Spec, MirrorsWorld, Mirror!Spec

(* If StreamSend takes every message while the stream is up, the client's  *)
(* data is well formed, shows nothing twice, and ends as the cache.        *)
THEOREM EntriesStayInAgreement == ASSUME ~ Lossy PROVE Spec => []EntriesAgree
BY Types, NothingTwice, EndsInStep, PTL DEF EntriesAgree
=============================================================================
