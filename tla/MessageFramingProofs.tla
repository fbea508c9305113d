------------------------ MODULE MessageFramingProofs ------------------------
(***************************************************************************)
(* MessageProtocol::recv never writes outside its two buffers, whatever it *)
(* takes for a header, and implements MessageChannel: for every size of    *)
(* header and pool and every set of messages, however the stream is cut.   *)
(*                                                                         *)
(* The second result needs more than the bounds.  InStream says where the  *)
(* reader is: what has not been read is the rest of message k and then     *)
(* whole messages, and header, pool and temp_header hold the beginning of  *)
(* k (Reading), of which all earlier ones were reported (Handed).          *)
(* AllKnown says that bytes come from messages that were sent, so that the *)
(* meaning of what was delivered does not change when more is sent.        *)
(***************************************************************************)
EXTENDS MessageFraming, TLAPS

Byte == Nat \X Nat

(* Pieces of a sequence of bytes. *)
LEMMA Pieces ==
  ASSUME NEW s \in Seq(Byte), NEW n \in 0 .. Len(s)
  PROVE  /\ First(s, n) \in Seq(Byte) /\ Len(First(s, n)) = n
         /\ Rest(s, n) \in Seq(Byte)
BY DEF First, Rest

LEMMA BytesType ==
  ASSUME NEW n \in Nat, NEW to \in Nat
  PROVE  Bytes(n, 0, to) \in Seq(Byte)
<1>1. Bytes(n, 0, to) = [k \in 1 .. to |-> <<n, k>>]
  BY DEF Bytes
<1>2. [k \in 1 .. to |-> <<n, k>>] \in Seq(Byte)
  BY DEF Byte
<1> QED
  BY <1>1, <1>2

(* A header is what one can read from H bytes: a length and a flag. *)
LEMMA DecodedType ==
  ASSUME TypeOK, NEW bytes
  PROVE  Decoded(bytes) \subseteq [len : 0 .. MaxLen, lz4 : Comp]
<1>1. \A n \in 1 .. Len(sent) : sent[n] \in Kind
  BY DEF TypeOK
<1> QED
  BY <1>1, FramingAssumption DEF Decoded

Inv == TypeOK /\ InBounds

LEMMA InitInv == Init => Inv
<1> SUFFICES ASSUME Init PROVE Inv
  OBVIOUS
<1>1. NoHeader \in [len : 0 .. MaxLen, lz4 : Comp]
  BY FramingAssumption DEF NoHeader, Comp
<1>2. sent \in Seq(Kind) /\ wire \in Seq(Byte) /\ buf \in Seq(Byte)
  BY DEF Init
<1>3. overflowed \in BOOLEAN /\ failed \in BOOLEAN /\ closed \in BOOLEAN
  BY DEF Init
<1>4. Len(sent) <= MaxSent /\ cursor \in 0 .. MaxRecv /\ offset \in 0 .. H - 1
  BY FramingAssumption DEF Init
<1>5. header \in [len : 0 .. MaxLen, lz4 : Comp]
  BY <1>1 DEF Init
<1>6. InBounds
  BY FramingAssumption DEF Init, InBounds, NoHeader
<1> QED
  BY <1>2, <1>3, <1>4, <1>5, <1>6 DEF Inv, TypeOK, Byte

(* What both ways of reading a whole header have in common. *)
LEMMA TakeHeaderInv ==
  ASSUME Inv, header = NoHeader, NEW bytes, NEW used \in 0 .. Len(buf),
         TakeHeader(bytes, used),
         UNCHANGED <<sent, wire, cursor, failed, closed>>
  PROVE  Inv'
<1>1. PICK hd \in Decoded(bytes) :
        \/ /\ Acceptable(hd)
           /\ header' = hd /\ offset' = 0 /\ buf' = Rest(buf, used)
           /\ UNCHANGED overflowed
        \/ /\ ~ Acceptable(hd)
           /\ overflowed' = TRUE /\ buf' = <<>>
           /\ UNCHANGED <<header, offset>>
  BY DEF TakeHeader
<1>2. hd \in [len : 0 .. MaxLen, lz4 : Comp]
  BY DecodedType DEF Inv
<1>3. cursor = 0
  BY DEF Inv, InBounds, TypeOK, NoHeader
<1>4. buf' \in Seq(Byte)
  <2>1. buf \in Seq(Byte)
    BY DEF Inv, TypeOK, Byte
  <2>2. Rest(buf, used) \in Seq(Byte)
    BY <2>1, Pieces
  <2>3. <<>> \in Seq(Byte)
    OBVIOUS
  <2> QED
    BY <1>1, <2>2, <2>3
<1>5. overflowed' \in BOOLEAN
  BY <1>1 DEF Inv, TypeOK
<1>6. header' \in [len : 0 .. MaxLen, lz4 : Comp]
  BY <1>1, <1>2 DEF Inv, TypeOK
<1>7. offset' \in 0 .. H - 1
  BY <1>1, FramingAssumption DEF Inv, TypeOK
<1>8. header'.len <= MaxRecv
  BY <1>1, <1>2 DEF Inv, InBounds, Acceptable
<1>9. header' # NoHeader => offset' = 0
  BY <1>1 DEF Inv, InBounds
<1>10. TypeOK'
  BY <1>4, <1>5, <1>6, <1>7 DEF Inv, TypeOK, Byte
<1>11. InBounds'
  BY <1>3, <1>8, <1>9 DEF InBounds
<1> QED
  BY <1>10, <1>11 DEF Inv

LEMMA SendInv ==
  ASSUME Inv, Send
  PROVE  Inv'
<1>1. PICK m \in Kind :
        /\ sent' = Append(sent, m)
        /\ wire' = wire \o Bytes(Len(sent'), 0, H + m.len)
  BY DEF Send
<1>2. sent' \in Seq(Kind) /\ Len(sent') = Len(sent) + 1
  BY <1>1 DEF Inv, TypeOK
<1>3. Len(sent') \in Nat /\ H + m.len \in Nat
  BY <1>2, FramingAssumption
<1>4. wire' \in Seq(Byte)
  <2>1. wire \in Seq(Byte)
    BY DEF Inv, TypeOK, Byte
  <2>2. Bytes(Len(sent'), 0, H + m.len) \in Seq(Byte)
    BY <1>3, BytesType
  <2> QED
    BY <1>1, <2>1, <2>2
<1>5. Len(sent') <= MaxSent
  BY <1>2, FramingAssumption DEF Send, Inv, TypeOK
<1>6. TypeOK'
  BY <1>2, <1>4, <1>5 DEF Send, Inv, TypeOK, Byte
<1>7. InBounds'
  BY DEF Send, Inv, InBounds
<1> QED
  BY <1>6, <1>7 DEF Inv

LEMMA ReceiveInv ==
  ASSUME Inv, Receive
  PROVE  Inv'
<1>1. PICK n \in 1 .. Len(wire) : buf' = First(wire, n) /\ wire' = Rest(wire, n)
  BY DEF Receive
<1>2. buf' \in Seq(Byte) /\ wire' \in Seq(Byte)
  BY <1>1, Pieces DEF Inv, TypeOK, Byte
<1> QED
  BY <1>2 DEF Receive, Inv, TypeOK, InBounds, Byte

LEMMA RecvInv ==
  ASSUME Inv, Recv
  PROVE  Inv'
<1>1. Len(buf) \in Nat /\ H - offset \in Nat
  BY FramingAssumption DEF Inv, TypeOK
<1>2. CASE FinishMessage
  <2>1. Required \in Nat /\ Required <= Len(buf)
    BY <1>1, <1>2 DEF FinishMessage, Complete, Required, Inv, TypeOK, InBounds
  <2>2. buf' \in Seq(Byte)
    BY <1>2, <2>1, Pieces DEF FinishMessage, Inv, TypeOK, Byte
  <2>3. failed' \in BOOLEAN
    BY <1>2 DEF FinishMessage, Hand, Inv, TypeOK
  <2>4. header' \in [len : 0 .. MaxLen, lz4 : Comp]
    BY <1>2, FramingAssumption DEF FinishMessage, NoHeader, Comp
  <2>5. cursor' \in 0 .. MaxRecv /\ offset' \in 0 .. H - 1
    BY <1>2, FramingAssumption DEF FinishMessage, Inv, TypeOK
  <2>6. TypeOK'
    BY <1>2, <2>2, <2>3, <2>4, <2>5 DEF FinishMessage, Inv, TypeOK, Byte
  <2>7. InBounds'
    BY <1>2, FramingAssumption DEF FinishMessage, InBounds, NoHeader
  <2> QED
    BY <2>6, <2>7 DEF Inv
<1>3. CASE AppendToPool
  <2>1. cursor + Len(buf) < header.len
    BY <1>1, <1>3 DEF AppendToPool, Complete, Required, Inv, TypeOK
  <2> QED
    BY <1>1, <1>3, <2>1, FramingAssumption
       DEF AppendToPool, Inv, TypeOK, InBounds
<1>4. CASE FinishHeader
  <2>1. H - offset \in 0 .. Len(buf)
    BY <1>1, <1>4 DEF FinishHeader, Short
  <2> QED
    BY <1>4, <2>1, TakeHeaderInv DEF FinishHeader
<1>5. CASE ExtendHeader
  <2>1. offset + Len(buf) \in 0 .. H - 1
    BY <1>1, <1>5, FramingAssumption DEF ExtendHeader, Short, Inv, TypeOK
  <2> QED
    BY <1>5, <2>1 DEF ExtendHeader, Inv, TypeOK, InBounds
<1>6. CASE ReadHeader
  <2>1. H \in 0 .. Len(buf)
    BY <1>1, <1>6, FramingAssumption DEF ReadHeader, Short
  <2> QED
    BY <1>6, <2>1, TakeHeaderInv DEF ReadHeader
<1>7. CASE StartHeader
  <2>1. Len(buf) \in 0 .. H - 1
    BY <1>1, <1>7, FramingAssumption DEF StartHeader, Short
  <2> QED
    BY <1>7, <2>1 DEF StartHeader, Inv, TypeOK, InBounds
<1> QED
  BY <1>2, <1>3, <1>4, <1>5, <1>6, <1>7 DEF Recv

LEMMA DisconnectedInv ==
  ASSUME Inv, Disconnected
  PROVE  Inv'
BY DEF Inv, Disconnected, TypeOK, InBounds

LEMMA StutterInv ==
  ASSUME Inv, UNCHANGED vars
  PROVE  Inv'
BY DEF Inv, vars, TypeOK, InBounds

(* No memcpy of recv leaves its buffer. *)
THEOREM RecvInBounds == Spec => [](TypeOK /\ InBounds)
<1>1. Init => Inv
  BY InitInv
<1>2. Inv /\ [Next]_vars => Inv'
  BY SendInv, ReceiveInv, RecvInv, DisconnectedInv, StutterInv DEF Next, Idle
<1> QED
  BY <1>1, <1>2, PTL DEF Spec, Inv

-----------------------------------------------------------------------------
(* The bytes that have not been read. *)

Size(q, n) == H + q[n].len

(* s has the rest of one message and then whole ones, up to the last.      *)
InOrder(q, s) ==
  \A i \in 1 .. Len(s) : \E n \in 1 .. Len(q) : \E j \in 1 .. Size(q, n) :
    /\ i + (Size(q, n) - j) <= Len(s)
    /\ \A d \in 0 .. Size(q, n) - j : s[i + d] = <<n, j + d>>
    /\ i + (Size(q, n) - j) = Len(s) => n = Len(q)
    /\ i + (Size(q, n) - j) < Len(s) => s[i + (Size(q, n) - j) + 1] = <<n + 1, 1>>

(* The next byte of s, or the next that will be sent, is b.                *)
Starts(q, s, b) ==
  /\ s = <<>> => b = <<Len(q) + 1, 1>>
  /\ s # <<>> => s[1] = b

(* The byte after the first o of message n. *)
ByteAfter(q, n, o) == IF o < Size(q, n) THEN <<n, o + 1>> ELSE <<n + 1, 1>>

LEMMA SizeType ==
  ASSUME NEW q \in Seq(Kind), NEW n \in 1 .. Len(q)
  PROVE  /\ n \in Nat /\ Len(q) \in Nat /\ q[n] \in Kind
         /\ q[n].len \in Nat /\ Size(q, n) \in Nat /\ H \in Nat /\ H > 1
         /\ H <= Size(q, n) /\ Size(q, n) = H + q[n].len
<1>1. q[n] \in Kind /\ Len(q) \in Nat
  OBVIOUS
<1>2. q[n].len \in Nat
  BY <1>1, FramingAssumption
<1> QED
  BY <1>1, <1>2, FramingAssumption DEF Size

LEMMA PieceOf ==
  ASSUME NEW s \in Seq(Byte), NEW c \in 0 .. Len(s)
  PROVE  /\ \A i \in 1 .. c : First(s, c)[i] = s[i]
         /\ Len(First(s, c)) = c /\ First(s, c) \in Seq(Byte)
         /\ \A i \in 1 .. Len(s) - c : Rest(s, c)[i] = s[c + i]
         /\ Len(Rest(s, c)) = Len(s) - c /\ Rest(s, c) \in Seq(Byte)
BY DEF First, Rest

LEMMA JoinOf ==
  ASSUME NEW s \in Seq(Byte), NEW t \in Seq(Byte),
         NEW k \in Nat, k = Len(s), NEW l \in Nat, l = Len(t)
  PROVE  /\ s \o t \in Seq(Byte) /\ Len(s \o t) = k + l
         /\ \A i \in 1 .. k : (s \o t)[i] = s[i]
         /\ \A i \in 1 .. l : (s \o t)[k + i] = t[i]
<1>1. \A i \in 1 .. k : (s \o t)[i] = s[i]
  OBVIOUS
<1>2. \A i \in 1 .. l : (s \o t)[k + i] = t[i]
  OBVIOUS
<1> QED
  BY <1>1, <1>2

LEMMA InOrderRest ==
  ASSUME NEW q \in Seq(Kind), NEW s \in Seq(Byte), InOrder(q, s), NEW c \in 0 .. Len(s)
  PROVE  InOrder(q, Rest(s, c))
<1> DEFINE r == Rest(s, c)
<1>1. PICK L \in Nat : L = Len(s)
  OBVIOUS
<1>2. Len(r) = L - c /\ \A i \in 1 .. L - c : r[i] = s[c + i]
  BY <1>1, PieceOf
<1> HIDE DEF r
<1> SUFFICES ASSUME NEW i \in 1 .. L - c
             PROVE  \E n \in 1 .. Len(q) : \E j \in 1 .. Size(q, n) :
                      /\ i + (Size(q, n) - j) <= Len(r)
                      /\ \A d \in 0 .. Size(q, n) - j : r[i + d] = <<n, j + d>>
                      /\ i + (Size(q, n) - j) = Len(r) => n = Len(q)
                      /\ i + (Size(q, n) - j) < Len(r) =>
                           r[i + (Size(q, n) - j) + 1] = <<n + 1, 1>>
  BY <1>2 DEF InOrder, r
<1>3. c + i \in 1 .. L
  BY <1>1
<1>4. PICK n \in 1 .. Len(q) : \E j \in 1 .. Size(q, n) :
        /\ (c + i) + (Size(q, n) - j) <= L
        /\ \A d \in 0 .. Size(q, n) - j : s[(c + i) + d] = <<n, j + d>>
        /\ (c + i) + (Size(q, n) - j) = L => n = Len(q)
        /\ (c + i) + (Size(q, n) - j) < L =>
             s[(c + i) + (Size(q, n) - j) + 1] = <<n + 1, 1>>
  BY <1>1, <1>3 DEF InOrder
<1>5. PICK z \in Nat : z = Size(q, n)
  BY SizeType
<1>6. PICK j \in 1 .. z :
        /\ (c + i) + (z - j) <= L
        /\ \A d \in 0 .. z - j : s[(c + i) + d] = <<n, j + d>>
        /\ (c + i) + (z - j) = L => n = Len(q)
        /\ (c + i) + (z - j) < L => s[(c + i) + (z - j) + 1] = <<n + 1, 1>>
  BY <1>4, <1>5
<1>7. i + (z - j) <= L - c
  BY <1>1, <1>6
<1>8. \A d \in 0 .. z - j : r[i + d] = <<n, j + d>>
  <2> SUFFICES ASSUME NEW d \in 0 .. z - j PROVE r[i + d] = <<n, j + d>>
    OBVIOUS
  <2>1. i + d \in 1 .. L - c /\ c + (i + d) = (c + i) + d
    BY <1>1, <1>7
  <2> QED
    BY <1>2, <1>6, <2>1
<1>9. i + (z - j) = L - c => n = Len(q)
  BY <1>1, <1>6
<1>10. ASSUME i + (z - j) < L - c PROVE r[i + (z - j) + 1] = <<n + 1, 1>>
  <2>1. /\ i + (z - j) + 1 \in 1 .. L - c
        /\ c + (i + (z - j) + 1) = (c + i) + (z - j) + 1
        /\ (c + i) + (z - j) < L
    BY <1>1, <1>10
  <2> QED
    BY <1>2, <1>6, <2>1
<1> QED
  BY <1>2, <1>5, <1>7, <1>8, <1>9, <1>10

(* To read on in message k is to read its bytes. *)
LEMMA ReadOn ==
  ASSUME NEW q \in Seq(Kind), NEW s \in Seq(Byte), InOrder(q, s),
         NEW k \in 1 .. Len(q), NEW o \in 0 .. Size(q, k) - 1,
         Starts(q, s, <<k, o + 1>>),
         NEW c \in 0 .. Size(q, k) - o, c <= Len(s)
  PROVE  /\ First(s, c) = Bytes(k, o, o + c)
         /\ InOrder(q, Rest(s, c)) /\ Starts(q, Rest(s, c), ByteAfter(q, k, o + c))
<1>1. PICK L \in Nat : L = Len(s)
  OBVIOUS
<1>2. PICK z \in Nat : z = Size(q, k) /\ o \in 0 .. z - 1 /\ c \in 0 .. z - o
  BY SizeType
<1>3. c \in 0 .. L /\ k \in Nat /\ Len(q) \in Nat
  BY <1>1, <1>2, SizeType
<1>4. s # <<>>
  <2>1. <<k, o + 1>> # <<Len(q) + 1, 1>>
    BY <1>3
  <2> QED
    BY <2>1 DEF Starts
<1>5. 1 \in 1 .. L /\ s[1] = <<k, o + 1>>
  BY <1>1, <1>4 DEF Starts
<1>6. PICK n \in 1 .. Len(q) : \E j \in 1 .. Size(q, n) :
        /\ 1 + (Size(q, n) - j) <= L
        /\ \A d \in 0 .. Size(q, n) - j : s[1 + d] = <<n, j + d>>
        /\ 1 + (Size(q, n) - j) = L => n = Len(q)
        /\ 1 + (Size(q, n) - j) < L => s[1 + (Size(q, n) - j) + 1] = <<n + 1, 1>>
  BY <1>1, <1>5 DEF InOrder
<1>7. PICK j \in 1 .. Size(q, n) :
        /\ 1 + (Size(q, n) - j) <= L
        /\ \A d \in 0 .. Size(q, n) - j : s[1 + d] = <<n, j + d>>
        /\ 1 + (Size(q, n) - j) = L => n = Len(q)
        /\ 1 + (Size(q, n) - j) < L => s[1 + (Size(q, n) - j) + 1] = <<n + 1, 1>>
  BY <1>6
<1>8. n = k /\ j = o + 1
  <2>1. Size(q, n) \in Nat
    BY SizeType
  <2>2. 0 \in 0 .. Size(q, n) - j /\ j \in Nat
    BY <2>1
  <2>3. s[1 + 0] = <<n, j + 0>>
    BY <1>7, <2>2
  <2> QED
    BY <1>5, <2>2, <2>3
<1>9. /\ z - o <= L
      /\ \A d \in 0 .. z - (o + 1) : s[1 + d] = <<k, o + 1 + d>>
      /\ z - o = L => k = Len(q)
      /\ z - o < L => s[z - o + 1] = <<k + 1, 1>>
  <2>1. /\ 1 + (z - (o + 1)) = z - o
        /\ 1 + (z - (o + 1)) + 1 = z - o + 1
    BY <1>2
  <2> QED
    BY <1>2, <1>7, <1>8, <2>1
<1>10. \A i \in 1 .. z - o : s[i] = <<k, o + i>>
  <2> SUFFICES ASSUME NEW i \in 1 .. z - o PROVE s[i] = <<k, o + i>>
    OBVIOUS
  <2>1. i - 1 \in 0 .. z - (o + 1) /\ 1 + (i - 1) = i /\ o + 1 + (i - 1) = o + i
    BY <1>2
  <2> QED
    BY <1>9, <2>1
<1>11. First(s, c) = Bytes(k, o, o + c)
  <2>1. Len(First(s, c)) = c /\ First(s, c) \in Seq(Byte)
        /\ \A i \in 1 .. c : First(s, c)[i] = s[i]
    BY <1>1, <1>3, PieceOf
  <2>2. ASSUME NEW i \in 1 .. c PROVE First(s, c)[i] = <<k, o + i>>
    <3>1. i \in 1 .. z - o
      BY <1>2
    <3> QED
      BY <1>10, <2>1, <3>1
  <2>3. First(s, c) = [i \in 1 .. c |-> <<k, o + i>>]
    <3>1. First(s, c) = [i \in 1 .. c |-> First(s, c)[i]]
      BY <1>3, <2>1
    <3> QED
      BY <2>2, <3>1
  <2>4. (o + c) - o = c
    BY <1>2
  <2> QED
    BY <2>3, <2>4 DEF Bytes
<1>12. InOrder(q, Rest(s, c))
  BY <1>1, <1>3, InOrderRest
<1>13. Starts(q, Rest(s, c), ByteAfter(q, k, o + c))
  <2> DEFINE r == Rest(s, c)
  <2>1. /\ Len(r) = L - c /\ r \in Seq(Byte)
        /\ \A i \in 1 .. L - c : r[i] = s[c + i]
    BY <1>1, <1>3, PieceOf
  <2> HIDE DEF r
  <2>2. CASE o + c < z
    <3>1. c + 1 \in 1 .. z - o /\ 1 \in 1 .. L - c
      BY <1>1, <1>2, <1>9, <2>2
    <3>2. r[1] = <<k, o + (c + 1)>> /\ r # <<>>
      <4>1. s[c + 1] = <<k, o + (c + 1)>>
        BY <1>10, <3>1
      <4>2. r[1] = s[c + 1]
        BY <2>1, <3>1
      <4>3. r # <<>>
        BY <2>1, <3>1
      <4> QED
        BY <4>1, <4>2, <4>3
    <3>3. ByteAfter(q, k, o + c) = <<k, o + (c + 1)>>
      BY <1>2, <2>2 DEF ByteAfter
    <3> QED
      BY <3>2, <3>3 DEF Starts, r
  <2>3. CASE o + c = z
    <3>1. ByteAfter(q, k, o + c) = <<k + 1, 1>> /\ c = z - o
      BY <1>2, <2>3 DEF ByteAfter
    <3>2. CASE c = L
      <4>1. r = <<>> /\ k = Len(q)
        BY <1>9, <2>1, <3>1, <3>2
      <4> QED
        BY <3>1, <4>1 DEF Starts, r
    <3>3. CASE c < L
      <4>1. 1 \in 1 .. L - c
        BY <1>1, <1>3, <3>3
      <4>2. r[1] = <<k + 1, 1>> /\ r # <<>>
        BY <1>9, <2>1, <3>1, <3>3, <4>1
      <4> QED
        BY <3>1, <4>2 DEF Starts, r
    <3> QED
      BY <1>1, <1>3, <3>2, <3>3
  <2>4. o + c < z \/ o + c = z
    <3>1. o \in Int /\ c \in Int /\ z \in Int /\ c <= z - o
      BY <1>2
    <3> QED
      BY <3>1
  <2> QED
    BY <2>2, <2>3, <2>4 DEF r
<1> QED
  BY <1>11, <1>12, <1>13

LEMMA BytesAre ==
  ASSUME NEW n \in Nat, NEW a \in Nat, NEW b \in Nat, a <= b
  PROVE  /\ Bytes(n, a, b) \in Seq(Byte) /\ Len(Bytes(n, a, b)) = b - a
         /\ DOMAIN Bytes(n, a, b) = 1 .. b - a
         /\ \A i \in 1 .. b - a : Bytes(n, a, b)[i] = <<n, a + i>>
<1>1. b - a \in Nat
  OBVIOUS
<1>2. \A i \in 1 .. b - a : <<n, a + i>> \in Byte
  BY DEF Byte
<1>3. Bytes(n, a, b) \in [1 .. b - a -> Byte]
  BY <1>2 DEF Bytes
<1> QED
  BY <1>1, <1>3 DEF Bytes

(* A message from its first byte on. *)
LEMMA BytesFromStart ==
  ASSUME NEW n \in Nat, NEW z \in Nat
  PROVE  /\ Bytes(n, 0, z) \in Seq(Byte) /\ Len(Bytes(n, 0, z)) = z
         /\ \A i \in 1 .. z : Bytes(n, 0, z)[i] = <<n, i>>
<1>1. 0 \in Nat /\ 0 <= z /\ z - 0 = z
  OBVIOUS
<1>2. PICK t : t = Bytes(n, 0, z)
  OBVIOUS
<1>3. /\ t \in Seq(Byte) /\ Len(t) = z - 0
      /\ \A i \in 1 .. z - 0 : t[i] = <<n, 0 + i>>
  BY <1>1, <1>2, BytesAre, Zenon
<1>4. \A i \in 1 .. z : 0 + i = i
  OBVIOUS
<1>5. \A i \in 1 .. z : t[i] = <<n, i>>
  BY <1>1, <1>3, <1>4
<1> QED
  BY <1>1, <1>2, <1>3, <1>5

LEMMA BytesJoin ==
  ASSUME NEW n \in Nat, NEW a \in Nat, NEW b \in Nat, NEW c \in Nat,
         a <= b, b <= c
  PROVE  Bytes(n, a, b) \o Bytes(n, b, c) = Bytes(n, a, c)
<1> DEFINE x == Bytes(n, a, b)
           y == Bytes(n, b, c)
           z == Bytes(n, a, c)
<1>1. /\ x \in Seq(Byte) /\ Len(x) = b - a
      /\ y \in Seq(Byte) /\ Len(y) = c - b
      /\ z \in Seq(Byte) /\ Len(z) = c - a
      /\ \A i \in 1 .. b - a : x[i] = <<n, a + i>>
      /\ \A i \in 1 .. c - b : y[i] = <<n, b + i>>
      /\ \A i \in 1 .. c - a : z[i] = <<n, a + i>>
  <2>1. /\ x \in Seq(Byte) /\ Len(x) = b - a
        /\ \A i \in 1 .. b - a : x[i] = <<n, a + i>>
    BY BytesAre
  <2>2. /\ y \in Seq(Byte) /\ Len(y) = c - b
        /\ \A i \in 1 .. c - b : y[i] = <<n, b + i>>
    BY BytesAre
  <2>3. a <= c
    OBVIOUS
  <2>4. /\ z \in Seq(Byte) /\ Len(z) = c - a
        /\ \A i \in 1 .. c - a : z[i] = <<n, a + i>>
    BY <2>3, BytesAre
  <2> HIDE DEF x, y, z
  <2> QED
    BY <2>1, <2>2, <2>4
<1> HIDE DEF x, y, z
<1> DEFINE w == x \o y
<1>2. /\ w \in Seq(Byte) /\ Len(w) = c - a
      /\ \A i \in 1 .. b - a : w[i] = x[i]
      /\ \A i \in 1 .. c - b : w[(b - a) + i] = y[i]
  <2>1. PICK k \in Nat, l \in Nat : k = b - a /\ l = c - b
    OBVIOUS
  <2>2. k = Len(x) /\ l = Len(y) /\ k + l = c - a
    BY <1>1, <2>1
  <2>3. /\ w \in Seq(Byte) /\ Len(w) = k + l
        /\ \A i \in 1 .. k : w[i] = x[i]
        /\ \A i \in 1 .. l : w[k + i] = y[i]
    BY <1>1, <2>2, JoinOf
  <2> QED
    BY <2>1, <2>2, <2>3
<1> HIDE DEF w
<1>3. \A i \in 1 .. c - a : w[i] = z[i]
  <2> SUFFICES ASSUME NEW i \in 1 .. c - a PROVE w[i] = z[i]
    OBVIOUS
  <2>0. z[i] = <<n, a + i>>
    BY <1>1
  <2>1. CASE i <= b - a
    <3>1. i \in 1 .. b - a
      BY <2>1
    <3> QED
      BY <1>1, <1>2, <2>0, <3>1
  <2>2. CASE i > b - a
    <3>1. i - (b - a) \in 1 .. c - b
      BY <2>2
    <3>2. (b - a) + (i - (b - a)) = i /\ b + (i - (b - a)) = a + i
      OBVIOUS
    <3>3. w[i] = y[i - (b - a)] /\ y[i - (b - a)] = <<n, a + i>>
      BY <1>1, <1>2, <3>1, <3>2
    <3> QED
      BY <2>0, <3>3
  <2> QED
    BY <2>1, <2>2
<1>4. w = [i \in 1 .. c - a |-> w[i]] /\ z = [i \in 1 .. c - a |-> z[i]]
  BY <1>1, <1>2
<1> QED
  BY <1>3, <1>4 DEF w, x, y, z

LEMMA BodyJoin ==
  ASSUME NEW n \in Nat, NEW l \in Nat, NEW a \in 0 .. l
  PROVE  Bytes(n, H, H + a) \o Bytes(n, H + a, H + l) = Bytes(n, H, H + l)
<1>1. H \in Nat /\ H + a \in Nat /\ H + l \in Nat
  BY FramingAssumption
<1>2. H <= H + a /\ H + a <= H + l
  BY FramingAssumption
<1> QED
  BY <1>1, <1>2, BytesJoin, Zenon

LEMMA InOrderSend ==
  ASSUME NEW q \in Seq(Kind), NEW m \in Kind, NEW s \in Seq(Byte),
         InOrder(q, s), NEW b, Starts(q, s, b)
  PROVE  /\ InOrder(Append(q, m), s \o Bytes(Len(q) + 1, 0, H + m.len))
         /\ Starts(Append(q, m), s \o Bytes(Len(q) + 1, 0, H + m.len), b)
<1> DEFINE q2 == Append(q, m)
           t == Bytes(Len(q) + 1, 0, H + m.len)
           s2 == s \o t
<1>1. PICK L \in Nat, l \in Nat, z \in Nat :
        L = Len(s) /\ l = Len(q) /\ z = H + m.len /\ z > 1
  BY FramingAssumption
<1>2. /\ q2 \in Seq(Kind) /\ Len(q2) = l + 1 /\ q2[l + 1] = m
      /\ \A n \in 1 .. l : q2[n] = q[n]
  BY <1>1
<1>3. /\ t \in Seq(Byte) /\ Len(t) = z
      /\ \A i \in 1 .. z : t[i] = <<l + 1, i>>
  <2>1. l + 1 \in Nat /\ t = Bytes(l + 1, 0, z)
    BY <1>1
  <2> HIDE DEF t
  <2> QED
    BY <1>1, <2>1, BytesFromStart
<1>4. /\ s2 \in Seq(Byte) /\ Len(s2) = L + z
      /\ \A i \in 1 .. L : s2[i] = s[i]
      /\ \A i \in 1 .. z : s2[L + i] = t[i]
  <2> HIDE DEF t
  <2>1. /\ s2 \in Seq(Byte) /\ Len(s2) = Len(s) + Len(t)
        /\ \A i \in 1 .. Len(s) : s2[i] = s[i]
        /\ \A i \in 1 .. Len(t) : s2[Len(s) + i] = t[i]
    BY <1>3, JoinOf
  <2> QED
    BY <1>1, <1>3, <2>1
<1> HIDE DEF t
<1> HIDE DEF q2, s2
<1>5. \A i \in 1 .. z : s2[L + i] = <<l + 1, i>>
  BY <1>3, <1>4
<1>6. ASSUME NEW i \in 1 .. L
      PROVE  \E n \in 1 .. l + 1 : \E j \in 1 .. Size(q2, n) :
               /\ i + (Size(q2, n) - j) <= L + z
               /\ \A d \in 0 .. Size(q2, n) - j : s2[i + d] = <<n, j + d>>
               /\ i + (Size(q2, n) - j) = L + z => n = l + 1
               /\ i + (Size(q2, n) - j) < L + z =>
                    s2[i + (Size(q2, n) - j) + 1] = <<n + 1, 1>>
  <2>1. PICK n \in 1 .. l : \E j \in 1 .. Size(q, n) :
          /\ i + (Size(q, n) - j) <= L
          /\ \A d \in 0 .. Size(q, n) - j : s[i + d] = <<n, j + d>>
          /\ i + (Size(q, n) - j) = L => n = l
          /\ i + (Size(q, n) - j) < L =>
               s[i + (Size(q, n) - j) + 1] = <<n + 1, 1>>
    BY <1>1 DEF InOrder
  <2>2. PICK y \in Nat : y = Size(q, n) /\ y = Size(q2, n)
    BY <1>1, <1>2, SizeType DEF Size
  <2>3. PICK j \in 1 .. y :
          /\ i + (y - j) <= L
          /\ \A d \in 0 .. y - j : s[i + d] = <<n, j + d>>
          /\ i + (y - j) = L => n = l
          /\ i + (y - j) < L => s[i + (y - j) + 1] = <<n + 1, 1>>
    BY <2>1, <2>2
  <2>4. i + (y - j) < L + z
    BY <1>1, <2>3
  <2>5. \A d \in 0 .. y - j : s2[i + d] = <<n, j + d>>
    <3>1. \A d \in 0 .. y - j : i + d \in 1 .. L
      BY <1>1, <2>3
    <3> QED
      BY <1>4, <2>3, <3>1
  <2>6. s2[i + (y - j) + 1] = <<n + 1, 1>>
    <3>1. CASE i + (y - j) < L
      <4>1. i + (y - j) + 1 \in 1 .. L
        BY <1>1, <2>3, <3>1
      <4> QED
        BY <1>4, <2>3, <3>1, <4>1
    <3>2. CASE i + (y - j) = L
      <4>1. s2[L + 1] = <<l + 1, 1>>
        BY <1>1, <1>5
      <4> QED
        BY <2>3, <3>2, <4>1
    <3>3. i + (y - j) < L \/ i + (y - j) = L
      BY <1>1, <2>3
    <3> QED
      BY <3>1, <3>2, <3>3
  <2>7. n \in 1 .. l + 1 /\ i + (y - j) <= L + z /\ i + (y - j) # L + z
    BY <1>1, <2>4
  <2> QED
    BY <2>2, <2>5, <2>6, <2>7
<1>7. ASSUME NEW i \in 1 .. L + z, i > L
      PROVE  \E n \in 1 .. l + 1 : \E j \in 1 .. Size(q2, n) :
               /\ i + (Size(q2, n) - j) <= L + z
               /\ \A d \in 0 .. Size(q2, n) - j : s2[i + d] = <<n, j + d>>
               /\ i + (Size(q2, n) - j) = L + z => n = l + 1
               /\ i + (Size(q2, n) - j) < L + z =>
                    s2[i + (Size(q2, n) - j) + 1] = <<n + 1, 1>>
  <2>1. Size(q2, l + 1) = z /\ l + 1 \in 1 .. l + 1
    BY <1>1, <1>2 DEF Size
  <2>2. PICK j \in 1 .. z : j = i - L
    <3>1. i - L \in 1 .. z
      BY <1>7
    <3> QED
      BY <3>1
  <2>3. i + (z - j) = L + z
    BY <1>1, <2>2
  <2>4. \A d \in 0 .. z - j : s2[i + d] = <<l + 1, j + d>>
    <3> SUFFICES ASSUME NEW d \in 0 .. z - j PROVE s2[i + d] = <<l + 1, j + d>>
      OBVIOUS
    <3>1. j + d \in 1 .. z /\ i + d = L + (j + d)
      BY <1>1, <2>2
    <3> QED
      BY <1>5, <3>1
  <2>5. /\ i + (z - j) <= L + z /\ ~ (i + (z - j) < L + z)
    BY <1>1, <2>3
  <2> QED
    BY <2>1, <2>4, <2>5
<1>8. InOrder(q2, s2)
  <2>1. \A i \in 1 .. L + z : i \in 1 .. L \/ i > L
    BY <1>1
  <2>2. \A i \in 1 .. L + z : \E n \in 1 .. l + 1 :
          \E j \in 1 .. Size(q2, n) :
            /\ i + (Size(q2, n) - j) <= L + z
            /\ \A d \in 0 .. Size(q2, n) - j : s2[i + d] = <<n, j + d>>
            /\ i + (Size(q2, n) - j) = L + z => n = l + 1
            /\ i + (Size(q2, n) - j) < L + z =>
                 s2[i + (Size(q2, n) - j) + 1] = <<n + 1, 1>>
    BY <1>6, <1>7, <2>1
  <2>3. PICK L2, l2 : L2 = L + z /\ l2 = l + 1
    OBVIOUS
  <2>4. Len(s2) = L2 /\ Len(q2) = l2
    BY <1>2, <1>4, <2>3
  <2>5. \A i \in 1 .. L2 : \E n \in 1 .. l2 :
          \E j \in 1 .. Size(q2, n) :
            /\ i + (Size(q2, n) - j) <= L2
            /\ \A d \in 0 .. Size(q2, n) - j : s2[i + d] = <<n, j + d>>
            /\ i + (Size(q2, n) - j) = L2 => n = l2
            /\ i + (Size(q2, n) - j) < L2 =>
                 s2[i + (Size(q2, n) - j) + 1] = <<n + 1, 1>>
    BY <2>2, <2>3, Zenon
  <2> QED
    BY <2>4, <2>5, Zenon DEF InOrder
<1>9. Starts(q2, s2, b)
  <2>1. s2 # <<>>
    BY <1>1, <1>4
  <2>2. CASE s = <<>>
    <3>1. s2[1] = <<l + 1, 1>>
      <4>1. L = 0 /\ 1 \in 1 .. z /\ L + 1 = 1
        BY <1>1, <2>2
      <4> QED
        BY <1>5, <4>1
    <3> QED
      BY <1>1, <2>1, <2>2, <3>1 DEF Starts
  <2>3. CASE s # <<>>
    <3>1. 1 \in 1 .. L
      BY <1>1, <2>3
    <3> QED
      BY <1>4, <2>1, <2>3, <3>1 DEF Starts
  <2> QED
    BY <2>2, <2>3
<1> QED
  BY <1>8, <1>9 DEF q2, s2, t

-----------------------------------------------------------------------------
(* The numbers of the buffers onData was called with. *)

BodyOf(q, n) == Bytes(n, H, H + q[n].len)

NumberOf(q, d) ==
  IF \E n \in 1 .. Len(q) : d = BodyOf(q, n) /\ q[n].len > 0
  THEN CHOOSE n \in 1 .. Len(q) : d = BodyOf(q, n)
  ELSE 0

(* Bytes of messages that have been sent. *)
Known(q, s) == \A i \in 1 .. Len(s) : s[i][1] \in 1 .. Len(q)

LEMMA BodyStart ==
  ASSUME NEW q \in Seq(Kind), NEW n \in 1 .. Len(q)
  PROVE  /\ BodyOf(q, n) \in Seq(Byte) /\ Len(BodyOf(q, n)) = q[n].len
         /\ q[n].len > 0 => BodyOf(q, n)[1] = <<n, H + 1>>
<1>1. PICK l \in Nat : l = q[n].len /\ H \in Nat /\ n \in Nat
  BY SizeType
<1>2. H + l \in Nat /\ H <= H + l /\ (H + l) - H = l
  BY <1>1
<1>3. /\ Bytes(n, H, H + l) \in Seq(Byte)
      /\ Len(Bytes(n, H, H + l)) = (H + l) - H
      /\ \A i \in 1 .. (H + l) - H : Bytes(n, H, H + l)[i] = <<n, H + i>>
  BY <1>1, <1>2, BytesAre
<1>4. BodyOf(q, n) = Bytes(n, H, H + l)
  BY <1>1 DEF BodyOf
<1>5. ASSUME l > 0 PROVE Bytes(n, H, H + l)[1] = <<n, H + 1>>
  <2>1. 1 \in 1 .. (H + l) - H
    BY <1>1, <1>2, <1>5
  <2> QED
    BY <1>3, <2>1
<1> QED
  BY <1>1, <1>2, <1>3, <1>4, <1>5

LEMMA NumberOfBody ==
  ASSUME NEW q \in Seq(Kind), NEW n \in 1 .. Len(q), q[n].len > 0
  PROVE  NumberOf(q, BodyOf(q, n)) = n
<1>1. ASSUME NEW m \in 1 .. Len(q), BodyOf(q, n) = BodyOf(q, m)
      PROVE  m = n
  <2>1. q[m].len > 0
    BY <1>1, BodyStart
  <2> QED
    BY <1>1, <2>1, BodyStart
<1> QED
  BY <1>1 DEF NumberOf

LEMMA NumberOfSend ==
  ASSUME NEW q \in Seq(Kind), NEW m \in Kind,
         NEW d \in Seq(Byte), Known(q, d)
  PROVE  NumberOf(Append(q, m), d) = NumberOf(q, d)
<1> DEFINE q2 == Append(q, m)
<1>1. PICK l \in Nat : l = Len(q)
  OBVIOUS
<1>2. /\ q2 \in Seq(Kind) /\ Len(q2) = l + 1
      /\ \A n \in 1 .. l : q2[n] = q[n]
  BY <1>1
<1> HIDE DEF q2
<1>3. \A n \in 1 .. l : n \in 1 .. l + 1 /\ BodyOf(q2, n) = BodyOf(q, n)
  BY <1>2 DEF BodyOf
<1>4. ASSUME NEW n \in 1 .. l + 1, d = BodyOf(q2, n), q2[n].len > 0
      PROVE  n \in 1 .. l
  <2>1. d[1] = <<n, H + 1>> /\ Len(d) = q2[n].len
    BY <1>2, <1>4, BodyStart
  <2>2. 1 \in 1 .. Len(d)
    BY <1>4, <2>1
  <2> QED
    BY <1>1, <2>1, <2>2 DEF Known
<1>5. CASE \E n \in 1 .. l : d = BodyOf(q, n) /\ q[n].len > 0
  <2>1. PICK n \in 1 .. l : d = BodyOf(q, n) /\ q[n].len > 0
    BY <1>5
  <2>2. NumberOf(q, d) = n
    BY <1>1, <2>1, NumberOfBody
  <2>3. NumberOf(q2, d) = n
    BY <1>2, <1>3, <2>1, NumberOfBody
  <2> QED
    BY <2>2, <2>3 DEF q2
<1>6. CASE ~ \E n \in 1 .. l : d = BodyOf(q, n) /\ q[n].len > 0
  <2>1. ~ \E n \in 1 .. l + 1 : d = BodyOf(q2, n) /\ q2[n].len > 0
    BY <1>2, <1>3, <1>4, <1>6
  <2> QED
    BY <1>1, <1>2, <1>6, <2>1 DEF NumberOf, q2
<1> QED
  BY <1>5, <1>6

-----------------------------------------------------------------------------
(* What recv has read, as long as no message was too long. *)

Unread == buf \o wire

(* The next byte to be read is one of message k, the first of it unless    *)
(* header or temp_header have something of k already.                      *)
Reading(k) ==
  /\ k \in 1 .. Len(sent) + 1
  /\ header # NoHeader =>
       /\ k <= Len(sent)
       /\ header = [len |-> sent[k].len, lz4 |-> sent[k].lz4]
       /\ pool = Bytes(k, H, H + cursor)
       /\ Starts(sent, Unread, ByteAfter(sent, k, H + cursor))
  /\ header = NoHeader =>
       /\ pool = <<>> /\ Starts(sent, Unread, <<k, offset + 1>>)
       /\ offset > 0 =>
            k <= Len(sent) /\ First(temp, offset) = Bytes(k, 0, offset)

(* The messages before the k-th have been reported, in their order. *)
Handed(k) ==
  /\ \A i \in DOMAIN Numbers :
       Numbers[i] \in 1 .. k - 1 /\ Seen(sent[Numbers[i]])
  /\ \A i, j \in DOMAIN Numbers : i < j => Numbers[i] < Numbers[j]
  /\ \A n \in 1 .. k - 1 :
       Seen(sent[n]) => \E i \in DOMAIN Numbers : Numbers[i] = n

InStream ==
  ~ overflowed =>
    InOrder(sent, Unread) /\ \E k \in 1 .. Len(sent) + 1 : Reading(k) /\ Handed(k)

(* Whatever has been read was sent. *)
AllKnown ==
  /\ pool \in Seq(Byte) /\ delivered \in Seq(Seq(Byte))
  /\ Known(sent, wire) /\ Known(sent, buf) /\ Known(sent, pool)
  /\ \A i \in DOMAIN delivered : Known(sent, delivered[i])

LEMMA NumbersAre ==
  Numbers = [i \in DOMAIN delivered |-> NumberOf(sent, delivered[i])]
BY DEF Numbers, NumberOf, Body, BodyOf

LEMMA UnreadPieces ==
  ASSUME NEW s \in Seq(Byte), NEW t \in Seq(Byte), NEW c \in 0 .. Len(s)
  PROVE  /\ First(s, c) = First(s \o t, c) /\ c <= Len(s \o t)
         /\ Rest(s, c) \o t = Rest(s \o t, c) /\ s \o t \in Seq(Byte)
<1>1. PICK k \in Nat, l \in Nat : k = Len(s) /\ l = Len(t)
  OBVIOUS
<1> DEFINE u == s \o t
<1>2. /\ u \in Seq(Byte) /\ Len(u) = k + l
      /\ \A i \in 1 .. k : u[i] = s[i]
      /\ \A i \in 1 .. l : u[k + i] = t[i]
  BY <1>1, JoinOf
<1> HIDE DEF u
<1>3. c \in 0 .. k /\ c \in 0 .. k + l /\ c \in Nat
  BY <1>1
<1>4. /\ Len(First(s, c)) = c /\ Len(First(u, c)) = c
      /\ First(s, c) \in Seq(Byte) /\ First(u, c) \in Seq(Byte)
      /\ \A i \in 1 .. c : First(s, c)[i] = s[i]
      /\ \A i \in 1 .. c : First(u, c)[i] = u[i]
  <2>1. c \in 0 .. Len(s) /\ c \in 0 .. Len(u)
    BY <1>2, <1>3
  <2> QED
    BY <1>2, <2>1, PieceOf
<1>5. First(s, c) = First(u, c)
  <2>1. ASSUME NEW i \in 1 .. c PROVE First(s, c)[i] = First(u, c)[i]
    <3>1. i \in 1 .. k
      BY <1>3
    <3> QED
      BY <1>2, <1>4, <3>1
  <2>2. /\ First(s, c) = [i \in 1 .. c |-> First(s, c)[i]]
        /\ First(u, c) = [i \in 1 .. c |-> First(u, c)[i]]
    BY <1>3, <1>4
  <2> QED
    BY <2>1, <2>2
<1>6. PICK n \in Nat : n = k - c
  BY <1>3
<1>7. /\ Len(Rest(s, c)) = n /\ Rest(s, c) \in Seq(Byte)
      /\ \A i \in 1 .. n : Rest(s, c)[i] = s[c + i]
  BY <1>1, <1>3, <1>6, PieceOf
<1>8. /\ Len(Rest(u, c)) = n + l /\ Rest(u, c) \in Seq(Byte)
      /\ \A i \in 1 .. n + l : Rest(u, c)[i] = u[c + i]
  <2>1. (k + l) - c = n + l /\ Len(u) = k + l /\ c \in 0 .. Len(u)
    BY <1>2, <1>3, <1>6
  <2>2. /\ Len(Rest(u, c)) = Len(u) - c /\ Rest(u, c) \in Seq(Byte)
        /\ \A i \in 1 .. Len(u) - c : Rest(u, c)[i] = u[c + i]
    BY <1>2, <2>1, PieceOf
  <2> QED
    BY <2>1, <2>2
<1> DEFINE v == Rest(s, c) \o t
<1>9. /\ v \in Seq(Byte) /\ Len(v) = n + l
      /\ \A i \in 1 .. n : v[i] = Rest(s, c)[i]
      /\ \A i \in 1 .. l : v[n + i] = t[i]
  <2>1. PICK x \in Seq(Byte) : x = Rest(s, c) /\ n = Len(x)
    BY <1>7
  <2>2. /\ x \o t \in Seq(Byte) /\ Len(x \o t) = n + l
        /\ \A i \in 1 .. n : (x \o t)[i] = x[i]
        /\ \A i \in 1 .. l : (x \o t)[n + i] = t[i]
    BY <1>1, <2>1, JoinOf
  <2> QED
    BY <2>1, <2>2
<1> HIDE DEF v
<1>10. ASSUME NEW i \in 1 .. n + l PROVE v[i] = Rest(u, c)[i]
  <2>1. CASE i <= n
    <3>1. i \in 1 .. n /\ c + i \in 1 .. k
      BY <1>3, <1>6, <2>1
    <3> QED
      BY <1>2, <1>7, <1>8, <1>9, <3>1
  <2>2. CASE i > n
    <3>1. PICK j \in 1 .. l : i = n + j
      <4>1. i - n \in 1 .. l /\ i = n + (i - n)
        BY <2>2
      <4> QED
        BY <4>1
    <3>2. c + i = k + j
      BY <1>3, <1>6, <3>1
    <3>3. v[i] = t[j] /\ u[k + j] = t[j]
      BY <1>2, <1>9, <3>1
    <3> QED
      BY <1>8, <3>2, <3>3
  <2> QED
    BY <2>1, <2>2
<1>11. v = Rest(u, c)
  <2>1. /\ v = [i \in 1 .. n + l |-> v[i]]
        /\ Rest(u, c) = [i \in 1 .. n + l |-> Rest(u, c)[i]]
    BY <1>1, <1>6, <1>8, <1>9
  <2> QED
    BY <1>10, <2>1
<1>12. c <= Len(u)
  BY <1>2, <1>3
<1> QED
  BY <1>2, <1>5, <1>11, <1>12 DEF u, v

LEMMA KnownPieces ==
  ASSUME NEW q \in Seq(Kind), NEW s \in Seq(Byte), Known(q, s)
  PROVE  /\ \A c \in 0 .. Len(s) : Known(q, First(s, c)) /\ Known(q, Rest(s, c))
         /\ \A t \in Seq(Byte) : Known(q, t) => Known(q, s \o t)
<1>1. ASSUME NEW c \in 0 .. Len(s)
      PROVE  Known(q, First(s, c)) /\ Known(q, Rest(s, c))
  <2>1. PICK k \in Nat : k = Len(s)
    OBVIOUS
  <2>2. /\ Len(First(s, c)) = c /\ Len(Rest(s, c)) = k - c
        /\ \A i \in 1 .. c : First(s, c)[i] = s[i]
        /\ \A i \in 1 .. k - c : Rest(s, c)[i] = s[c + i]
    BY <2>1, PieceOf
  <2>3. /\ \A i \in 1 .. c : i \in 1 .. k
        /\ \A i \in 1 .. k - c : c + i \in 1 .. k
    BY <2>1
  <2> QED
    BY <2>1, <2>2, <2>3 DEF Known
<1>2. ASSUME NEW t \in Seq(Byte), Known(q, t) PROVE Known(q, s \o t)
  <2>1. PICK k \in Nat, l \in Nat : k = Len(s) /\ l = Len(t)
    OBVIOUS
  <2>2. /\ Len(s \o t) = k + l
        /\ \A i \in 1 .. k : (s \o t)[i] = s[i]
        /\ \A i \in 1 .. l : (s \o t)[k + i] = t[i]
    BY <2>1, JoinOf
  <2> SUFFICES ASSUME NEW i \in 1 .. k + l PROVE (s \o t)[i][1] \in 1 .. Len(q)
    BY <2>2 DEF Known
  <2>3. CASE i <= k
    <3>1. i \in 1 .. k
      BY <2>3
    <3> QED
      BY <2>1, <2>2, <3>1 DEF Known
  <2>4. CASE i > k
    <3>1. PICK j \in 1 .. l : i = k + j
      <4>1. i - k \in 1 .. l /\ i = k + (i - k)
        BY <2>4
      <4> QED
        BY <4>1
    <3> QED
      BY <1>2, <2>1, <2>2, <3>1 DEF Known
  <2>5. i <= k \/ i > k
    OBVIOUS
  <2> QED
    BY <2>3, <2>4, <2>5
<1> QED
  BY <1>1, <1>2

-----------------------------------------------------------------------------
(* The steps. *)

LEMMA AllKnownSend ==
  ASSUME TypeOK, AllKnown, Send
  PROVE  AllKnown'
<1>1. PICK m \in Kind :
        /\ sent' = Append(sent, m)
        /\ wire' = wire \o Bytes(Len(sent'), 0, H + m.len)
  BY DEF Send
<1>2. PICK l \in Nat, z \in Nat : l = Len(sent) /\ z = H + m.len
  BY FramingAssumption DEF TypeOK
<1>3. sent \in Seq(Kind) /\ sent' \in Seq(Kind) /\ Len(sent') = l + 1
  BY <1>1, <1>2 DEF TypeOK
<1>4. \A s : Known(sent, s) => Known(sent', s)
  BY <1>2, <1>3 DEF Known
<1>5. /\ Bytes(l + 1, 0, z) \in Seq(Byte) /\ Known(sent', Bytes(l + 1, 0, z))
  <2>1. /\ Bytes(l + 1, 0, z) \in Seq(Byte)
        /\ Len(Bytes(l + 1, 0, z)) = z - 0
        /\ \A i \in 1 .. z - 0 : Bytes(l + 1, 0, z)[i] = <<l + 1, 0 + i>>
    <3>1. l + 1 \in Nat /\ 0 \in Nat /\ 0 <= z
      OBVIOUS
    <3> QED
      BY <3>1, BytesAre
  <2> QED
    BY <1>3, <2>1 DEF Known
<1>6. Known(sent', wire')
  <2>1. wire \in Seq(Byte) /\ Known(sent', wire)
    BY <1>4 DEF TypeOK, AllKnown, Byte
  <2> QED
    BY <1>1, <1>2, <1>3, <1>5, <2>1, KnownPieces
<1>7. UNCHANGED <<buf, pool, delivered>>
  BY DEF Send
<1>8. /\ Known(sent', buf') /\ Known(sent', pool')
      /\ \A i \in DOMAIN delivered' : Known(sent', delivered'[i])
  BY <1>4, <1>7 DEF AllKnown
<1> QED
  BY <1>6, <1>7, <1>8 DEF AllKnown

LEMMA AllKnownReceive ==
  ASSUME TypeOK, AllKnown, Receive
  PROVE  AllKnown'
<1>1. PICK n \in 1 .. Len(wire) :
        buf' = First(wire, n) /\ wire' = Rest(wire, n)
  BY DEF Receive
<1>2. wire \in Seq(Byte) /\ n \in 0 .. Len(wire) /\ sent \in Seq(Kind)
  BY DEF TypeOK, Byte
<1>3. Known(sent, buf') /\ Known(sent, wire')
  BY <1>1, <1>2, KnownPieces DEF AllKnown
<1>4. UNCHANGED <<sent, pool, delivered>>
  BY DEF Receive
<1> QED
  BY <1>3, <1>4 DEF AllKnown

LEMMA AllKnownRecv ==
  ASSUME Inv, AllKnown, Recv
  PROVE  AllKnown'
<1>1. /\ sent \in Seq(Kind) /\ buf \in Seq(Byte) /\ pool \in Seq(Byte)
      /\ Known(sent, buf) /\ Known(sent, pool)
      /\ delivered \in Seq(Seq(Byte)) /\ Len(buf) \in Nat
  BY DEF Inv, TypeOK, AllKnown, Byte
<1>2. \A c \in 0 .. Len(buf) :
        /\ First(buf, c) \in Seq(Byte) /\ Known(sent, First(buf, c))
        /\ Rest(buf, c) \in Seq(Byte) /\ Known(sent, Rest(buf, c))
  BY <1>1, KnownPieces, PieceOf
<1>3. <<>> \in Seq(Byte) /\ Known(sent, <<>>)
  BY DEF Known
<1>4. CASE FinishMessage
  <2>1. PICK c \in 0 .. Len(buf) : c = Required
    <3>1. Required \in Nat /\ Required <= Len(buf)
      BY <1>1, <1>4 DEF FinishMessage, Complete, Required, Inv, TypeOK, InBounds
    <3> QED
      BY <1>1, <3>1
  <2>2. Message \in Seq(Byte) /\ Known(sent, Message)
    <3>1. /\ pool \o First(buf, c) \in Seq(Byte)
          /\ Known(sent, pool \o First(buf, c))
      BY <1>1, <1>2, KnownPieces
    <3> QED
      BY <1>2, <2>1, <3>1 DEF Message
  <2>3. delivered' = delivered \/ delivered' = Append(delivered, Message)
    BY <1>4 DEF FinishMessage, Hand
  <2>4. /\ UNCHANGED <<sent, wire>> /\ pool' = <<>> /\ buf' = Rest(buf, c)
    BY <1>4, <2>1 DEF FinishMessage
  <2>5. /\ delivered' \in Seq(Seq(Byte))
        /\ \A i \in DOMAIN delivered' : Known(sent, delivered'[i])
    <3>1. CASE delivered' = delivered
      BY <1>1, <3>1 DEF AllKnown
    <3>2. CASE delivered' = Append(delivered, Message)
      <4> HIDE DEF Message
      <4>1. PICK k \in Nat : k = Len(delivered)
        BY <1>1
      <4>2. /\ delivered' \in Seq(Seq(Byte)) /\ DOMAIN delivered' = 1 .. k + 1
            /\ delivered'[k + 1] = Message
            /\ \A i \in 1 .. k : delivered'[i] = delivered[i]
        BY <1>1, <2>2, <3>2, <4>1
      <4>3. \A i \in 1 .. k : Known(sent, delivered[i])
        <5>1. DOMAIN delivered = 1 .. k
          BY <1>1, <4>1
        <5> QED
          BY <5>1 DEF AllKnown
      <4>4. \A i \in 1 .. k + 1 : i \in 1 .. k \/ i = k + 1
        OBVIOUS
      <4> QED
        BY <2>2, <4>2, <4>3, <4>4
    <3> QED
      BY <2>3, <3>1, <3>2
  <2> QED
    BY <1>2, <1>3, <2>4, <2>5 DEF AllKnown
<1>5. CASE AppendToPool
  <2>1. pool' = pool \o buf /\ buf' = <<>> /\ UNCHANGED <<sent, wire, delivered>>
    BY <1>5 DEF AppendToPool
  <2>2. pool' \in Seq(Byte) /\ Known(sent, pool')
    BY <1>1, <2>1, KnownPieces
  <2> QED
    BY <1>1, <1>3, <2>1, <2>2 DEF AllKnown
<1>6. ASSUME UNCHANGED <<sent, wire, pool, delivered>>,
             \/ buf' = <<>>
             \/ \E c \in 0 .. Len(buf) : buf' = Rest(buf, c)
      PROVE  AllKnown'
  BY <1>2, <1>3, <1>6 DEF AllKnown
<1>7. CASE FinishHeader
  <2>1. H - offset \in 0 .. Len(buf)
    BY <1>1, <1>7, FramingAssumption DEF FinishHeader, Short, Inv, TypeOK
  <2> QED
    BY <1>6, <1>7, <2>1 DEF FinishHeader, TakeHeader
<1>8. CASE ReadHeader
  <2>1. H \in 0 .. Len(buf)
    BY <1>1, <1>8, FramingAssumption DEF ReadHeader, Short
  <2> QED
    BY <1>6, <1>8, <2>1 DEF ReadHeader, TakeHeader
<1>9. CASE ExtendHeader \/ StartHeader
  BY <1>6, <1>9 DEF ExtendHeader, StartHeader
<1> QED
  BY <1>4, <1>5, <1>7, <1>8, <1>9 DEF Recv

(* The first bytes of what MsQuic has handed over are those of message k. *)
LEMMA TakeBytes ==
  ASSUME TypeOK, InOrder(sent, Unread),
         NEW k \in 1 .. Len(sent), NEW o \in 0 .. Size(sent, k) - 1,
         Starts(sent, Unread, <<k, o + 1>>),
         NEW c \in 0 .. Size(sent, k) - o, c <= Len(buf)
  PROVE  /\ First(buf, c) = Bytes(k, o, o + c)
         /\ InOrder(sent, Rest(buf, c) \o wire)
         /\ Starts(sent, Rest(buf, c) \o wire, ByteAfter(sent, k, o + c))
<1>1. sent \in Seq(Kind) /\ buf \in Seq(Byte) /\ wire \in Seq(Byte)
  BY DEF TypeOK, Byte
<1>2. c \in 0 .. Len(buf)
  <2>1. Size(sent, k) \in Nat /\ Len(buf) \in Nat
    BY <1>1, SizeType
  <2> QED
    BY <2>1
<1>3. /\ First(buf, c) = First(Unread, c) /\ c <= Len(Unread)
      /\ Rest(buf, c) \o wire = Rest(Unread, c) /\ Unread \in Seq(Byte)
  BY <1>1, <1>2, UnreadPieces DEF Unread
<1> HIDE DEF Unread
<1>4. /\ First(Unread, c) = Bytes(k, o, o + c)
      /\ InOrder(sent, Rest(Unread, c))
      /\ Starts(sent, Rest(Unread, c), ByteAfter(sent, k, o + c))
  BY <1>1, <1>3, ReadOn
<1> QED
  BY <1>3, <1>4

(* Some message is under way when a byte has been handed over. *)
LEMMA SomeMessage ==
  ASSUME TypeOK, InOrder(sent, Unread), buf # <<>>,
         NEW k \in Nat, NEW o \in Nat, Starts(sent, Unread, <<k, o + 1>>)
  PROVE  k \in 1 .. Len(sent)
<1>1. sent \in Seq(Kind) /\ buf \in Seq(Byte) /\ wire \in Seq(Byte)
  BY DEF TypeOK, Byte
<1>2. PICK a \in Nat, b \in Nat : a = Len(buf) /\ b = Len(wire) /\ a > 0
  BY <1>1
<1>3. Unread \in Seq(Byte) /\ Len(Unread) = a + b
  BY <1>1, <1>2, JoinOf DEF Unread
<1> HIDE DEF Unread
<1>4. Unread # <<>> /\ 1 \in 1 .. Len(Unread) /\ Unread[1] = <<k, o + 1>>
  BY <1>2, <1>3 DEF Starts
<1>5. PICK n \in 1 .. Len(sent) : \E j \in 1 .. Size(sent, n) :
        \A d \in 0 .. Size(sent, n) - j : Unread[1 + d] = <<n, j + d>>
  BY <1>4 DEF InOrder
<1>6. PICK j \in 1 .. Size(sent, n) :
        \A d \in 0 .. Size(sent, n) - j : Unread[1 + d] = <<n, j + d>>
  BY <1>5
<1>7. Unread[1 + 0] = <<n, j + 0>>
  <2>1. Size(sent, n) \in Nat
    BY <1>1, SizeType
  <2>2. 0 \in 0 .. Size(sent, n) - j
    BY <2>1
  <2> QED
    BY <1>6, <2>2
<1>8. n = k
  BY <1>4, <1>7
<1> QED
  BY <1>8

(* What recv makes of the header of a message. *)
LEMMA DecodedHeader ==
  ASSUME TypeOK, NEW k \in 1 .. Len(sent), NEW hd \in Decoded(Bytes(k, 0, H))
  PROVE  hd = [len |-> sent[k].len, lz4 |-> sent[k].lz4]
<1>1. k \in Nat /\ H \in Nat /\ 1 \in 1 .. H
  BY FramingAssumption DEF TypeOK
<1>2. ASSUME NEW n \in 1 .. Len(sent), Bytes(k, 0, H) = Bytes(n, 0, H)
      PROVE  n = k
  <2>1. Bytes(k, 0, H)[1] = <<k, 0 + 1>> /\ Bytes(n, 0, H)[1] = <<n, 0 + 1>>
    BY <1>1 DEF Bytes
  <2> QED
    BY <1>2, <2>1
<1>3. {n \in 1 .. Len(sent) : Bytes(k, 0, H) = HeaderBytes(n)} = {k}
  BY <1>2 DEF HeaderBytes
<1> QED
  BY <1>3 DEF Decoded

LEMMA NextInStream ==
  ASSUME TypeOK, NEW k \in 1 .. Len(sent)
  PROVE  ByteAfter(sent, k, Size(sent, k)) = <<k + 1, 1>>
<1>1. sent \in Seq(Kind)
  BY DEF TypeOK
<1>2. Size(sent, k) \in Nat
  BY <1>1, SizeType
<1> QED
  BY <1>2 DEF ByteAfter

(* Only what is reported counts. *)
LEMMA HandedNext ==
  ASSUME Inv, NEW k \in 1 .. Len(sent), Handed(k), UNCHANGED sent,
         IF Seen(sent[k]) THEN delivered' = Append(delivered, BodyOf(sent, k))
                          ELSE delivered' = delivered,
         AllKnown
  PROVE  Handed(k + 1)'
<1>1. sent \in Seq(Kind) /\ delivered \in Seq(Seq(Byte)) /\ k \in Nat
  BY DEF Inv, TypeOK, AllKnown
<1>2. PICK L \in Nat : L = Len(delivered)
  BY <1>1
<1>3. /\ DOMAIN Numbers = 1 .. L
      /\ \A i \in 1 .. L : Numbers[i] = NumberOf(sent, delivered[i])
  BY <1>1, <1>2, NumbersAre
<1>4. /\ DOMAIN Numbers' = DOMAIN delivered'
      /\ \A i \in DOMAIN delivered' : Numbers'[i] = NumberOf(sent, delivered'[i])
  <2>1. PICK D : D = delivered'
    OBVIOUS
  <2>2. PICK M : M = Numbers'
    OBVIOUS
  <2>3. M = [i \in DOMAIN D |-> NumberOf(sent, D[i])]
    BY <2>1, <2>2 DEF Numbers, NumberOf, Body, BodyOf
  <2>4. DOMAIN M = DOMAIN D /\ \A i \in DOMAIN D : M[i] = NumberOf(sent, D[i])
    BY <2>3
  <2> QED
    BY <2>1, <2>2, <2>4, Zenon
<1>5. \A i \in 1 .. L : Numbers[i] \in 1 .. k - 1 /\ Seen(sent[Numbers[i]])
  BY <1>3 DEF Handed
<1>6. CASE ~ Seen(sent[k])
  <2>1. /\ DOMAIN Numbers' = 1 .. L
        /\ \A i \in 1 .. L : Numbers'[i] = Numbers[i]
    <3>1. delivered' = delivered /\ DOMAIN delivered = 1 .. L
      BY <1>1, <1>2, <1>6
    <3> QED
      BY <1>3, <1>4, <3>1
  <2>2. \A i \in 1 .. L : Numbers[i] \in 1 .. k + 1 - 1
    BY <1>1, <1>5
  <2>3. \A n \in 1 .. k + 1 - 1 : Seen(sent[n]) => n \in 1 .. k - 1
    BY <1>1, <1>6
  <2> QED
    BY <1>3, <1>5, <2>1, <2>2, <2>3 DEF Handed
<1>7. CASE Seen(sent[k])
  <2>1. /\ DOMAIN delivered' = 1 .. L + 1
        /\ delivered'[L + 1] = BodyOf(sent, k)
        /\ \A i \in 1 .. L : delivered'[i] = delivered[i]
    <3>1. PICK d : d = BodyOf(sent, k)
      OBVIOUS
    <3>2. PICK e : e = Append(delivered, d)
      OBVIOUS
    <3>3. d \in Seq(Byte)
      BY <1>1, <3>1, BodyStart
    <3>4. Len(e) = L + 1 /\ e \in Seq(Seq(Byte))
      BY <1>1, <1>2, <3>2, <3>3
    <3>5. e[L + 1] = d /\ \A i \in 1 .. L : e[i] = delivered[i]
      BY <1>1, <1>2, <3>2, <3>3
    <3>6. DOMAIN e = 1 .. L + 1
      BY <3>4
    <3>7. delivered' = e
      BY <1>7, <3>1, <3>2
    <3> QED
      BY <3>1, <3>5, <3>6, <3>7, Zenon
  <2>2. sent[k].len > 0
    BY <1>7 DEF Seen
  <2>3. NumberOf(sent, BodyOf(sent, k)) = k
    BY <1>1, <2>2, NumberOfBody
  <2>4. /\ DOMAIN Numbers' = 1 .. L + 1 /\ Numbers'[L + 1] = k
        /\ \A i \in 1 .. L : Numbers'[i] = Numbers[i]
    <3>1. \A i \in 1 .. L : i \in 1 .. L + 1
      OBVIOUS
    <3>2. L + 1 \in 1 .. L + 1
      OBVIOUS
    <3> QED
      BY <1>3, <1>4, <2>1, <2>3, <3>1, <3>2
  <2>5. \A i \in 1 .. L + 1 : i \in 1 .. L \/ i = L + 1
    OBVIOUS
  <2>6. \A i \in 1 .. L + 1 :
          Numbers'[i] \in 1 .. k /\ Seen(sent[Numbers'[i]])
    <3>1. \A i \in 1 .. L : Numbers[i] \in 1 .. k
      BY <1>1, <1>5
    <3>2. k \in 1 .. k
      BY <1>1
    <3> QED
      BY <1>5, <1>7, <2>4, <2>5, <3>1, <3>2
  <2>7. \A i, j \in 1 .. L + 1 : i < j => Numbers'[i] < Numbers'[j]
    <3> SUFFICES ASSUME NEW i \in 1 .. L + 1, NEW j \in 1 .. L + 1, i < j
                 PROVE  Numbers'[i] < Numbers'[j]
      OBVIOUS
    <3>1. i \in 1 .. L
      OBVIOUS
    <3>2. CASE j \in 1 .. L
      BY <1>3, <2>4, <3>1, <3>2 DEF Handed
    <3>3. CASE j = L + 1
      <4>1. Numbers[i] < k
        BY <1>1, <1>5, <3>1
      <4> QED
        BY <2>4, <3>1, <3>3, <4>1
    <3> QED
      BY <2>5, <3>2, <3>3
  <2>8. \A n \in 1 .. k :
          Seen(sent[n]) => \E i \in 1 .. L + 1 : Numbers'[i] = n
    <3> SUFFICES ASSUME NEW n \in 1 .. k, Seen(sent[n])
                 PROVE  \E i \in 1 .. L + 1 : Numbers'[i] = n
      OBVIOUS
    <3>1. CASE n = k
      <4>1. L + 1 \in 1 .. L + 1
        OBVIOUS
      <4> QED
        BY <2>4, <3>1, <4>1
    <3>2. CASE n # k
      <4>1. n \in 1 .. k - 1
        BY <1>1, <3>2
      <4>2. PICK i \in 1 .. L : Numbers[i] = n
        BY <1>3, <4>1 DEF Handed
      <4>3. i \in 1 .. L + 1
        OBVIOUS
      <4> QED
        BY <2>4, <4>2, <4>3
    <3> QED
      BY <3>1, <3>2
  <2>9. DOMAIN Numbers' = 1 .. L + 1
    BY <2>4
  <2>10. sent' = sent
    OBVIOUS
  <2>11. PICK D, k1 : D = 1 .. L + 1 /\ k1 = k + 1 /\ 1 .. k1 - 1 = 1 .. k
    BY <1>1
  <2>12. \A i \in D : Numbers'[i] \in 1 .. k1 - 1 /\ Seen(sent'[Numbers'[i]])
    BY <2>6, <2>10, <2>11
  <2>13. \A i, j \in D : i < j => Numbers'[i] < Numbers'[j]
    BY <2>7, <2>11, Zenon
  <2>14. \A n \in 1 .. k1 - 1 : Seen(sent'[n]) => \E i \in D : Numbers'[i] = n
    BY <2>8, <2>10, <2>11
  <2> QED
    BY <2>9, <2>11, <2>12, <2>13, <2>14, Zenon DEF Handed
<1> QED
  BY <1>6, <1>7

LEMMA InStreamSend ==
  ASSUME Inv, InStream, AllKnown, Send
  PROVE  InStream' /\ Numbers' = Numbers
<1>1. PICK m \in Kind :
        /\ sent' = Append(sent, m)
        /\ wire' = wire \o Bytes(Len(sent'), 0, H + m.len)
  BY DEF Send
<1>2. /\ UNCHANGED <<buf, header, cursor, pool, temp, offset>>
      /\ UNCHANGED <<delivered, overflowed>>
  BY DEF Send
<1>3. /\ sent \in Seq(Kind) /\ buf \in Seq(Byte) /\ wire \in Seq(Byte)
      /\ delivered \in Seq(Seq(Byte))
  BY DEF Inv, TypeOK, AllKnown, Byte
<1>4. PICK l \in Nat : l = Len(sent)
  BY <1>3
<1>5. /\ sent' \in Seq(Kind) /\ Len(sent') = l + 1
      /\ \A n \in 1 .. l : sent'[n] = sent[n]
  BY <1>1, <1>3, <1>4
<1> DEFINE B == Bytes(l + 1, 0, H + m.len)
<1>6. Unread' = Unread \o B /\ Unread \in Seq(Byte)
  <2>1. PICK z \in Nat : z = H + m.len
    BY FramingAssumption
  <2>2. l + 1 \in Nat /\ 0 \in Nat /\ 0 <= z
    OBVIOUS
  <2>3. Bytes(l + 1, 0, z) \in Seq(Byte)
    BY <2>2, BytesAre
  <2>4. B \in Seq(Byte)
    BY <2>1, <2>3
  <2>5. wire' = wire \o B
    BY <1>1, <1>4, <1>5
  <2> HIDE DEF B
  <2> QED
    BY <1>2, <1>3, <2>4, <2>5 DEF Unread
<1>7. \A i \in DOMAIN delivered :
        NumberOf(sent', delivered[i]) = NumberOf(sent, delivered[i])
  <2>1. \A i \in DOMAIN delivered :
          delivered[i] \in Seq(Byte) /\ Known(sent, delivered[i])
    BY <1>3 DEF AllKnown
  <2> QED
    BY <1>1, <1>3, <2>1, NumberOfSend
<1>8. Numbers' = Numbers
  <2>1. Numbers' = [i \in DOMAIN delivered' |-> NumberOf(sent', delivered'[i])]
    BY DEF Numbers, NumberOf, Body, BodyOf
  <2> QED
    BY <1>2, <1>7, <2>1, NumbersAre
<1>9. ASSUME ~ overflowed'
      PROVE  InOrder(sent', Unread')
             /\ \E k \in 1 .. Len(sent') + 1 : Reading(k)' /\ Handed(k)'
  <2>1. PICK k \in 1 .. l + 1 : Reading(k) /\ Handed(k)
    BY <1>2, <1>4, <1>9 DEF InStream
  <2>2. InOrder(sent, Unread)
    BY <1>2, <1>9 DEF InStream
  <2>3. \A b : Starts(sent, Unread, b) =>
                 InOrder(sent', Unread') /\ Starts(sent', Unread', b)
    BY <1>1, <1>3, <1>4, <1>6, <2>2, InOrderSend
  <2>4. \E b : Starts(sent, Unread, b)
    BY <2>1 DEF Reading
  <2>5. k \in 1 .. Len(sent') + 1
    BY <1>5
  <2>6. ASSUME header # NoHeader
        PROVE  /\ k <= Len(sent')
               /\ header = [len |-> sent'[k].len, lz4 |-> sent'[k].lz4]
               /\ Starts(sent', Unread', ByteAfter(sent', k, H + cursor))
    <3>1. k \in 1 .. l
      BY <1>4, <2>1, <2>6 DEF Reading
    <3>2. sent'[k] = sent[k]
      BY <1>5, <3>1
    <3>3. ByteAfter(sent', k, H + cursor) = ByteAfter(sent, k, H + cursor)
      BY <3>2 DEF ByteAfter, Size
    <3>4. k <= Len(sent')
      BY <1>5, <3>1
    <3> QED
      BY <2>1, <2>3, <2>6, <3>2, <3>3, <3>4 DEF Reading
  <2>7. ASSUME header = NoHeader
        PROVE  /\ pool = <<>> /\ Starts(sent', Unread', <<k, offset + 1>>)
               /\ offset > 0 =>
                    k <= Len(sent') /\ First(temp, offset) = Bytes(k, 0, offset)
    <3>1. k <= l => k <= Len(sent')
      BY <1>5
    <3> QED
      BY <1>4, <2>1, <2>3, <2>7, <3>1 DEF Reading
  <2>8. Reading(k)'
    BY <1>2, <2>1, <2>5, <2>6, <2>7 DEF Reading
  <2>9. Handed(k)'
    <3>1. \A n \in 1 .. k - 1 : sent'[n] = sent[n]
      BY <1>5
    <3> QED
      BY <1>8, <2>1, <3>1 DEF Handed
  <2> QED
    BY <2>3, <2>4, <2>5, <2>8, <2>9
<1> QED
  BY <1>8, <1>9 DEF InStream

LEMMA SameNumbers ==
  ASSUME UNCHANGED <<sent, delivered>>
  PROVE  Numbers' = Numbers
BY DEF Numbers, Body

LEMMA InStreamReceive ==
  ASSUME Inv, InStream, Receive
  PROVE  InStream'
<1>1. PICK n \in 1 .. Len(wire) :
        buf' = First(wire, n) /\ wire' = Rest(wire, n)
  BY DEF Receive
<1>2. /\ buf = <<>> /\ wire \in Seq(Byte)
      /\ UNCHANGED <<sent, header, cursor, pool, temp, offset>>
      /\ UNCHANGED <<delivered, overflowed>>
  BY DEF Receive, Inv, TypeOK, Byte
<1>3. Unread' = Unread
  <2>1. Unread = wire
    BY <1>2 DEF Unread
  <2>2. First(wire, n) \o Rest(wire, n) = wire
    BY <1>2 DEF First, Rest
  <2> QED
    BY <1>1, <2>1, <2>2 DEF Unread
<1>4. Numbers' = Numbers
  BY <1>2, SameNumbers
<1>5. \A k : Reading(k) /\ Handed(k) => Reading(k)' /\ Handed(k)'
  BY <1>2, <1>3, <1>4 DEF Reading, Handed
<1> QED
  BY <1>2, <1>3, <1>5 DEF InStream

LEMMA HandIn ==
  ASSUME TypeOK, NEW k \in 1 .. Len(sent), header # NoHeader,
         header = [len |-> sent[k].len, lz4 |-> sent[k].lz4],
         NEW d, d = BodyOf(sent, k), Hand(d)
  PROVE  IF Seen(sent[k]) THEN delivered' = Append(delivered, d)
                          ELSE delivered' = delivered
<1>1. /\ sent \in Seq(Kind) /\ sent[k] \in Kind /\ sent[k].len \in Nat
      /\ sent[k].lz4 \in BOOLEAN /\ sent[k].fits \in BOOLEAN
  <2>1. sent \in Seq(Kind)
    BY DEF TypeOK
  <2>2. sent[k] \in Kind /\ sent[k].len \in Nat
    BY <2>1, SizeType
  <2> QED
    BY <2>1, <2>2, FramingAssumption DEF Comp
<1>2. header.lz4 = sent[k].lz4 /\ header.len = sent[k].len
  OBVIOUS
<1>3. Len(d) = sent[k].len /\ d \in Seq(Byte)
  BY <1>1, BodyStart
<1>4. CASE ~ header.lz4
  <2>1. sent[k].len # 0
    BY <1>1, <1>2, <1>4 DEF NoHeader
  <2>2. Seen(sent[k])
    BY <1>1, <1>2, <1>4, <2>1 DEF Seen
  <2>3. delivered' = Append(delivered, d)
    BY <1>4 DEF Hand
  <2> QED
    BY <2>2, <2>3
<1>5. CASE header.lz4
  <2> DEFINE E == \E n \in 1 .. Len(sent) :
                    d = Body(n) /\ sent[n].fits /\ d # <<>>
  <2>1. d = Body(k) /\ sent[k].lz4
    BY <1>2, <1>5 DEF Body, BodyOf
  <2>2. Decompresses(d) = {E}
    BY <2>1, Zenon DEF Decompresses
  <2>3. CASE Seen(sent[k])
    <3>1. d # <<>> /\ sent[k].fits
      BY <1>1, <1>3, <2>1, <2>3 DEF Seen
    <3>2. E
      BY <2>1, <3>1
    <3> HIDE DEF E
    <3>3. \A ok \in Decompresses(d) : ok
      BY <2>2, <3>2, Zenon
    <3>4. delivered' = Append(delivered, d)
      BY <1>5, <3>3, Zenon DEF Hand
    <3> QED
      BY <2>3, <3>4
  <2>4. CASE ~ Seen(sent[k])
    <3>1. ~ E
      <4> SUFFICES ASSUME NEW n \in 1 .. Len(sent), d = Body(n), sent[n].fits,
                          d # <<>>
                   PROVE  FALSE
        OBVIOUS
      <4>1. sent[k].len > 0
        BY <1>1, <1>3
      <4>2. Len(BodyOf(sent, n)) = sent[n].len /\ d = BodyOf(sent, n)
        BY <1>1, BodyStart DEF Body, BodyOf
      <4>3. sent[n].len > 0
        BY <1>3, <4>1, <4>2
      <4>4. n = k
        BY <1>1, <4>1, <4>2, <4>3, NumberOfBody
      <4> QED
        BY <1>1, <2>4, <4>1, <4>4 DEF Seen
    <3> HIDE DEF E
    <3>2. \A ok \in Decompresses(d) : ~ ok
      BY <2>2, <3>1, Zenon
    <3>3. delivered' = delivered
      BY <1>5, <3>2, Zenon DEF Hand
    <3> QED
      BY <2>4, <3>3
  <2> QED
    BY <2>3, <2>4
<1> QED
  BY <1>4, <1>5

(* What is said of the k-th message, all at once. *)
At(k) == /\ k \in 1 .. Len(sent) + 1 /\ ~ overflowed
         /\ InOrder(sent, Unread) /\ Reading(k) /\ Handed(k)

LEMMA InStreamFinish ==
  ASSUME Inv, AllKnown, NEW k \in Nat, At(k), FinishMessage
  PROVE  /\ At(k + 1)'
         /\ IF Seen(sent[k]) THEN delivered' = Append(delivered, BodyOf(sent, k))
                             ELSE delivered' = delivered
         /\ k \in 1 .. Len(sent)
<1>1. /\ header # NoHeader /\ buf' = Rest(buf, Required)
      /\ header' = NoHeader /\ cursor' = 0 /\ pool' = <<>> /\ Complete
      /\ UNCHANGED <<sent, wire, temp, offset, overflowed>>
  BY DEF FinishMessage
<1>2. /\ k \in 1 .. Len(sent)
      /\ header = [len |-> sent[k].len, lz4 |-> sent[k].lz4]
      /\ pool = Bytes(k, H, H + cursor)
      /\ Starts(sent, Unread, ByteAfter(sent, k, H + cursor))
      /\ InOrder(sent, Unread) /\ Handed(k) /\ ~ overflowed
  BY <1>1 DEF At, Reading
<1>3. /\ TypeOK /\ sent \in Seq(Kind) /\ buf \in Seq(Byte)
      /\ offset = 0 /\ Len(sent) \in Nat
  BY <1>1 DEF Inv, TypeOK, InBounds, Byte
<1>4. PICK l \in Nat, a \in Nat :
        l = header.len /\ l = sent[k].len /\ a = cursor
  BY <1>2, <1>3, SizeType DEF TypeOK
<1>5. /\ H \in Nat /\ Size(sent, k) = H + l
      /\ a > 0 => a < l
      /\ Required = l - a /\ Len(buf) \in Nat /\ Len(buf) >= l - a
  BY <1>1, <1>2, <1>3, <1>4, FramingAssumption
     DEF Size, Inv, InBounds, Required, Complete
<1>6. /\ Message = BodyOf(sent, k)
      /\ InOrder(sent, Unread') /\ Starts(sent, Unread', <<k + 1, 1>>)
  <2>0. Unread' = Rest(buf, l - a) \o wire
    BY <1>1, <1>5 DEF Unread
  <2>1. CASE l = 0
    <3>1. a = 0 /\ l - a = 0
      BY <1>5, <2>1
    <3>2. First(buf, 0) = <<>> /\ Rest(buf, 0) = buf
      BY <1>3 DEF First, Rest
    <3>3. BodyOf(sent, k) = <<>>
      <4>1. sent[k].len = 0
        BY <1>4, <2>1
      <4>2. Len(BodyOf(sent, k)) = sent[k].len /\ BodyOf(sent, k) \in Seq(Byte)
        BY <1>2, <1>3, BodyStart
      <4>3. PICK b : b = BodyOf(sent, k)
        OBVIOUS
      <4>4. b \in Seq(Byte) /\ Len(b) = 0
        BY <4>1, <4>2, <4>3
      <4>5. b = <<>>
        BY <4>4
      <4> QED
        BY <4>3, <4>5
    <3>4. Message = BodyOf(sent, k)
      BY <1>4, <1>5, <3>1, <3>2, <3>3 DEF Message
    <3>5. Unread' = Unread
      BY <2>0, <3>1, <3>2 DEF Unread
    <3>6. ByteAfter(sent, k, H + cursor) = <<k + 1, 1>>
      BY <1>4, <1>5, <2>1, <3>1 DEF ByteAfter
    <3> QED
      BY <1>2, <3>4, <3>5, <3>6
  <2>2. CASE l # 0
    <3>1. PICK o \in Nat, c \in Nat : o = H + a /\ c = l - a /\ a < l
      BY <1>5, <2>2
    <3>2. /\ o \in 0 .. Size(sent, k) - 1 /\ c \in 0 .. Size(sent, k) - o
          /\ c <= Len(buf) /\ o + c = Size(sent, k) /\ o + c = H + l
      BY <1>5, <3>1
    <3>3. ByteAfter(sent, k, H + cursor) = <<k, o + 1>>
      BY <1>4, <1>5, <3>1 DEF ByteAfter
    <3>4. /\ First(buf, c) = Bytes(k, o, o + c)
          /\ InOrder(sent, Rest(buf, c) \o wire)
          /\ Starts(sent, Rest(buf, c) \o wire, ByteAfter(sent, k, o + c))
      BY <1>2, <1>3, <3>2, <3>3, TakeBytes
    <3>5. ByteAfter(sent, k, o + c) = <<k + 1, 1>>
      BY <1>2, <1>3, <3>2, NextInStream
    <3>6. BodyOf(sent, k) = Bytes(k, H, H + l)
      BY <1>4 DEF BodyOf
    <3>7. Message = BodyOf(sent, k)
      <4>1. CASE a = 0
        <5>1. o = H /\ o + c = H + l
          BY <1>5, <3>1, <3>2, <4>1
        <5> QED
          BY <1>4, <1>5, <3>1, <3>4, <3>6, <4>1, <5>1 DEF Message
      <4>2. CASE a # 0
        <5>1. a \in 0 .. l
          BY <3>1
        <5>2. Bytes(k, H, H + a) \o Bytes(k, H + a, H + l) = Bytes(k, H, H + l)
          BY <5>1, BodyJoin, Zenon
        <5>3. First(buf, c) = Bytes(k, H + a, H + l)
          BY <3>1, <3>2, <3>4
        <5>4. Message = pool \o First(buf, c)
          BY <1>4, <1>5, <3>1, <4>2 DEF Message
        <5> QED
          BY <1>2, <1>4, <3>6, <5>2, <5>3, <5>4
      <4> QED
        BY <4>1, <4>2
    <3> QED
      BY <2>0, <3>1, <3>4, <3>5, <3>7
  <2> QED
    BY <2>1, <2>2
<1>7. IF Seen(sent[k]) THEN delivered' = Append(delivered, BodyOf(sent, k))
                       ELSE delivered' = delivered
  <2>1. Hand(Message)
    BY DEF FinishMessage
  <2>2. PICK d : d = Message
    OBVIOUS
  <2>3. Hand(d)
    BY <2>1, <2>2
  <2> QED
    BY <1>1, <1>2, <1>3, <1>6, <2>2, <2>3, HandIn
<1>8. Handed(k + 1)'
  BY <1>1, <1>2, <1>7, HandedNext
<1>9. Reading(k + 1)'
  <2>1. k + 1 \in 1 .. Len(sent) + 1 /\ offset' = 0 /\ 0 + 1 = 1
    BY <1>1, <1>2, <1>3
  <2> QED
    BY <1>1, <1>6, <2>1 DEF Reading
<1>10. k + 1 \in 1 .. Len(sent') + 1 /\ InOrder(sent', Unread')
  BY <1>1, <1>2, <1>3, <1>6
<1> QED
  BY <1>1, <1>2, <1>7, <1>8, <1>9, <1>10 DEF At

LEMMA WholePiece ==
  ASSUME NEW s \in Seq(Byte)
  PROVE  Len(s) \in Nat /\ First(s, Len(s)) = s /\ Rest(s, Len(s)) = <<>>
BY DEF First, Rest

LEMMA InStreamAppend ==
  ASSUME Inv, NEW k \in Nat, At(k), AppendToPool
  PROVE  At(k)' /\ Numbers' = Numbers
<1>1. /\ buf # <<>> /\ header # NoHeader /\ ~ Complete
      /\ pool' = pool \o buf /\ cursor' = cursor + Len(buf) /\ buf' = <<>>
      /\ UNCHANGED <<sent, wire, header, temp, offset, delivered, overflowed>>
  BY DEF AppendToPool
<1>2. /\ k \in 1 .. Len(sent)
      /\ header = [len |-> sent[k].len, lz4 |-> sent[k].lz4]
      /\ pool = Bytes(k, H, H + cursor)
      /\ Starts(sent, Unread, ByteAfter(sent, k, H + cursor))
      /\ InOrder(sent, Unread) /\ Handed(k) /\ ~ overflowed
  BY <1>1 DEF At, Reading
<1>3. /\ TypeOK /\ sent \in Seq(Kind) /\ buf \in Seq(Byte)
      /\ wire \in Seq(Byte) /\ Len(sent) \in Nat
  BY <1>1 DEF Inv, TypeOK, InBounds, Byte
<1>4. PICK l \in Nat, a \in Nat, c \in Nat :
        l = header.len /\ l = sent[k].len /\ a = cursor /\ c = Len(buf)
  <2>1. sent[k].len \in Nat /\ header.len = sent[k].len
    BY <1>2, <1>3, SizeType
  <2>2. cursor \in Nat /\ Len(buf) \in Nat
    BY <1>3 DEF TypeOK
  <2> QED
    BY <2>1, <2>2
<1>5. H \in Nat /\ Size(sent, k) = H + l /\ c < l - a /\ c > 0
  BY <1>1, <1>2, <1>3, <1>4, FramingAssumption DEF Size, Required, Complete
<1>6. PICK o \in Nat : o = H + a
  BY <1>5
<1>7. /\ o \in 0 .. Size(sent, k) - 1 /\ c \in 0 .. Size(sent, k) - o
      /\ c <= Len(buf) /\ o + c = H + (a + c)
  BY <1>4, <1>5, <1>6
<1>8. ByteAfter(sent, k, H + cursor) = <<k, o + 1>>
  BY <1>4, <1>5, <1>6 DEF ByteAfter
<1>9. /\ First(buf, c) = Bytes(k, o, o + c)
      /\ InOrder(sent, Rest(buf, c) \o wire)
      /\ Starts(sent, Rest(buf, c) \o wire, ByteAfter(sent, k, o + c))
  BY <1>2, <1>3, <1>7, <1>8, TakeBytes
<1>10. First(buf, c) = buf /\ Rest(buf, c) = <<>>
  BY <1>3, <1>4, WholePiece
<1>11. Unread' = Rest(buf, c) \o wire
  BY <1>1, <1>10 DEF Unread
<1>12. pool' = Bytes(k, H, H + cursor')
  <2>1. cursor' = a + c /\ a \in 0 .. a + c /\ a + c \in Nat
    BY <1>1, <1>4
  <2>2. Bytes(k, H, H + a) \o Bytes(k, H + a, H + (a + c)) = Bytes(k, H, H + (a + c))
    BY <2>1, BodyJoin, Zenon
  <2>3. buf = Bytes(k, H + a, H + (a + c))
    BY <1>6, <1>7, <1>9, <1>10
  <2> QED
    BY <1>1, <1>2, <1>4, <2>1, <2>2, <2>3
<1>13. Reading(k)'
  <2>1. o + c = H + cursor'
    BY <1>1, <1>4, <1>7
  <2>2. k <= Len(sent') /\ k \in 1 .. Len(sent') + 1
    BY <1>1, <1>2, <1>3
  <2>3. Starts(sent', Unread', ByteAfter(sent', k, H + cursor'))
    BY <1>1, <1>9, <1>11, <2>1
  <2> QED
    BY <1>1, <1>2, <1>12, <2>2, <2>3 DEF Reading
<1>14. Numbers' = Numbers
  BY <1>1, SameNumbers
<1>15. Handed(k)'
  BY <1>1, <1>2, <1>14 DEF Handed
<1> QED
  <2>1. k \in 1 .. Len(sent') + 1
    BY <1>1, <1>2, <1>3
  <2> QED
    BY <1>1, <1>2, <1>9, <1>11, <1>13, <1>14, <1>15, <2>1 DEF At

LEMMA HeaderJoin ==
  ASSUME NEW n \in Nat, NEW b \in Nat, NEW a \in 0 .. b
  PROVE  Bytes(n, 0, a) \o Bytes(n, a, b) = Bytes(n, 0, b)
<1>1. 0 \in Nat /\ a \in Nat /\ 0 <= a /\ a <= b
  OBVIOUS
<1> QED
  BY <1>1, BytesJoin, Zenon

(* While no header is known, the next bytes are the rest of one. *)
LEMMA ReadMore ==
  ASSUME Inv, NEW k \in Nat, At(k), header = NoHeader, buf # <<>>,
         NEW c \in 0 .. H - offset, c <= Len(buf)
  PROVE  /\ k \in 1 .. Len(sent) /\ cursor = 0 /\ pool = <<>>
         /\ First(buf, c) = Bytes(k, offset, offset + c)
         /\ InOrder(sent, Rest(buf, c) \o wire)
         /\ Starts(sent, Rest(buf, c) \o wire, ByteAfter(sent, k, offset + c))
<1>1. /\ InOrder(sent, Unread) /\ pool = <<>>
      /\ Starts(sent, Unread, <<k, offset + 1>>)
  BY DEF At, Reading
<1>2. /\ TypeOK /\ sent \in Seq(Kind) /\ offset \in Nat /\ offset < H /\ H \in Nat
  BY FramingAssumption DEF Inv, TypeOK
<1>3. cursor = 0
  BY DEF Inv, TypeOK, InBounds, NoHeader
<1>4. k \in 1 .. Len(sent)
  BY <1>1, <1>2, SomeMessage
<1>5. PICK z \in Nat : z = Size(sent, k) /\ H <= z
  BY <1>2, <1>4, SizeType
<1>6. offset \in 0 .. Size(sent, k) - 1 /\ c \in 0 .. Size(sent, k) - offset
  BY <1>2, <1>5
<1> QED
  BY <1>1, <1>2, <1>3, <1>4, <1>6, TakeBytes

LEMMA InStreamHeader ==
  ASSUME Inv, AllKnown, NEW k \in 1 .. Len(sent), At(k), header = NoHeader,
         cursor = 0, pool = <<>>, NEW used \in 0 .. Len(buf),
         InOrder(sent, Rest(buf, used) \o wire),
         Starts(sent, Rest(buf, used) \o wire, ByteAfter(sent, k, H)),
         TakeHeader(Bytes(k, 0, H), used),
         UNCHANGED <<sent, wire, cursor, pool, delivered>>
  PROVE  \/ At(k)' \/ At(k + 1)'
         \/ overflowed' = TRUE /\ LongerThanPool(sent[k])
<1>1. PICK hd \in Decoded(Bytes(k, 0, H)) :
        \/ /\ Acceptable(hd)
           /\ header' = hd /\ offset' = 0 /\ buf' = Rest(buf, used)
           /\ UNCHANGED overflowed
        \/ ~ Acceptable(hd) /\ overflowed' = TRUE
  BY DEF TakeHeader
<1>2. /\ TypeOK /\ sent \in Seq(Kind) /\ Len(sent) \in Nat /\ k \in Nat
      /\ H \in Nat /\ MaxRecv \in Nat
  BY FramingAssumption DEF Inv, TypeOK
<1>3. hd = [len |-> sent[k].len, lz4 |-> sent[k].lz4]
  BY <1>2, DecodedHeader
<1>4. PICK l \in Nat : l = sent[k].len /\ Size(sent, k) = H + l
  BY <1>2, SizeType
<1>5. CASE ~ Acceptable(hd) /\ overflowed' = TRUE
  <2>1. sent[k].len > MaxRecv
    BY <1>2, <1>3, <1>4, <1>5 DEF Acceptable
  <2> QED
    BY <1>5, <2>1 DEF LongerThanPool
<1>6. CASE /\ header' = hd /\ offset' = 0 /\ buf' = Rest(buf, used)
           /\ UNCHANGED overflowed
  <2>1. /\ Unread' = Rest(buf, used) \o wire /\ sent' = sent
        /\ InOrder(sent', Unread') /\ ~ overflowed'
    BY <1>6 DEF Unread, At
  <2>2. Numbers' = Numbers
    BY SameNumbers
  <2>3. CASE hd # NoHeader
    <3>1. Bytes(k, H, H + 0) = <<>>
      BY <1>2 DEF Bytes
    <3>2. pool' = Bytes(k, H, H + cursor') /\ H + cursor' = H
      BY <1>2, <3>1
    <3>3. Starts(sent', Unread', ByteAfter(sent', k, H + cursor'))
      BY <2>1, <3>2
    <3>4. k <= Len(sent') /\ k \in 1 .. Len(sent') + 1
      BY <1>2, <2>1
    <3>5. header' = [len |-> sent'[k].len, lz4 |-> sent'[k].lz4]
      BY <1>3, <1>6, <2>1
    <3>6. Reading(k)'
      BY <1>6, <2>3, <3>2, <3>3, <3>4, <3>5 DEF Reading
    <3>7. Handed(k)'
      BY <2>1, <2>2 DEF At, Handed
    <3> QED
      BY <2>1, <3>4, <3>6, <3>7 DEF At
  <2>4. CASE hd = NoHeader
    <3>1. sent[k].len = 0
      BY <1>3, <2>4 DEF NoHeader
    <3>2. ~ Seen(sent[k])
      BY <3>1 DEF Seen
    <3>3. Handed(k + 1)'
      BY <3>2, HandedNext DEF At
    <3>4. ByteAfter(sent, k, H) = <<k + 1, 1>>
      BY <1>2, <1>4, <3>1 DEF ByteAfter
    <3>5. Starts(sent', Unread', <<k + 1, offset' + 1>>)
      BY <1>6, <2>1, <3>4
    <3>6. k + 1 \in 1 .. Len(sent') + 1
      BY <1>2, <2>1
    <3>7. Reading(k + 1)'
      BY <1>6, <2>4, <3>5, <3>6 DEF Reading
    <3> QED
      BY <2>1, <3>3, <3>6, <3>7 DEF At
  <2> QED
    BY <2>3, <2>4
<1> QED
  BY <1>1, <1>5, <1>6

LEMMA InStreamRead ==
  ASSUME Inv, AllKnown, NEW k \in Nat, At(k), ReadHeader
  PROVE  \/ At(k)' \/ At(k + 1)'
         \/ k \in 1 .. Len(sent) /\ overflowed' = TRUE /\ LongerThanPool(sent[k])
<1>1. /\ buf # <<>> /\ header = NoHeader /\ offset = 0 /\ ~ Short
      /\ TakeHeader(First(buf, H), H)
      /\ UNCHANGED <<sent, wire, cursor, pool, delivered>>
  BY DEF ReadHeader
<1>2. PICK c \in Nat : c = Len(buf) /\ c >= H /\ H \in Nat
  BY <1>1, FramingAssumption DEF Inv, TypeOK, Short
<1>3. H \in 0 .. H - offset /\ H <= Len(buf) /\ H \in 0 .. Len(buf)
  BY <1>1, <1>2
<1>4. /\ k \in 1 .. Len(sent) /\ cursor = 0 /\ pool = <<>>
      /\ First(buf, H) = Bytes(k, offset, offset + H)
      /\ InOrder(sent, Rest(buf, H) \o wire)
      /\ Starts(sent, Rest(buf, H) \o wire, ByteAfter(sent, k, offset + H))
  BY <1>1, <1>3, ReadMore
<1>5. offset + H = H
  BY <1>1, <1>2
<1>6. First(buf, H) = Bytes(k, 0, H)
  BY <1>1, <1>4, <1>5
<1>7. TakeHeader(Bytes(k, 0, H), H)
  BY <1>1, <1>6
<1>8. Starts(sent, Rest(buf, H) \o wire, ByteAfter(sent, k, H))
  BY <1>4, <1>5
<1> QED
  BY <1>1, <1>3, <1>4, <1>7, <1>8, InStreamHeader

LEMMA InStreamEnd ==
  ASSUME Inv, AllKnown, NEW k \in Nat, At(k), FinishHeader
  PROVE  \/ At(k)' \/ At(k + 1)'
         \/ k \in 1 .. Len(sent) /\ overflowed' = TRUE /\ LongerThanPool(sent[k])
<1>1. /\ buf # <<>> /\ header = NoHeader /\ offset > 0 /\ ~ Short
      /\ temp' = First(temp, offset) \o First(buf, H - offset)
      /\ TakeHeader(temp', H - offset)
      /\ UNCHANGED <<sent, wire, cursor, pool, delivered>>
  BY DEF FinishHeader
<1>2. PICK c \in Nat :
        c = H - offset /\ c <= Len(buf) /\ offset \in 0 .. H /\ H \in Nat
  BY <1>1, FramingAssumption DEF Inv, TypeOK, Short
<1>3. c \in 0 .. H - offset /\ c \in 0 .. Len(buf) /\ offset + c = H
  BY <1>2
<1>4. /\ k \in 1 .. Len(sent) /\ cursor = 0 /\ pool = <<>>
      /\ First(buf, c) = Bytes(k, offset, offset + c)
      /\ InOrder(sent, Rest(buf, c) \o wire)
      /\ Starts(sent, Rest(buf, c) \o wire, ByteAfter(sent, k, offset + c))
  BY <1>1, <1>2, <1>3, ReadMore
<1>5. First(temp, offset) = Bytes(k, 0, offset)
  BY <1>1 DEF At, Reading
<1>6. temp' = Bytes(k, 0, H)
  <2>1. Bytes(k, 0, offset) \o Bytes(k, offset, H) = Bytes(k, 0, H)
    BY <1>2, HeaderJoin
  <2> QED
    BY <1>1, <1>2, <1>3, <1>4, <1>5, <2>1
<1>7. TakeHeader(Bytes(k, 0, H), c)
  BY <1>1, <1>2, <1>6
<1>8. Starts(sent, Rest(buf, c) \o wire, ByteAfter(sent, k, H))
  BY <1>3, <1>4
<1> QED
  BY <1>1, <1>3, <1>4, <1>7, <1>8, InStreamHeader

(* A piece that does not complete a header is kept. *)
LEMMA InStreamKeep ==
  ASSUME Inv, NEW k \in Nat, At(k), header = NoHeader, buf # <<>>, Short,
         temp' = First(temp, offset) \o buf, offset' = offset + Len(buf),
         buf' = <<>>, UNCHANGED <<sent, wire, header, cursor, pool, delivered>>,
         UNCHANGED overflowed
  PROVE  At(k)'
<1>1. PICK c \in Nat, o \in Nat :
        c = Len(buf) /\ o = offset /\ o + c < H /\ c > 0 /\ H \in Nat
  BY FramingAssumption DEF Inv, TypeOK, Short
<1>2. buf \in Seq(Byte) /\ sent \in Seq(Kind)
  BY DEF Inv, TypeOK, Byte
<1>3. c \in 0 .. H - offset /\ c <= Len(buf)
  BY <1>1
<1>4. /\ k \in 1 .. Len(sent) /\ cursor = 0 /\ pool = <<>>
      /\ First(buf, c) = Bytes(k, offset, offset + c)
      /\ InOrder(sent, Rest(buf, c) \o wire)
      /\ Starts(sent, Rest(buf, c) \o wire, ByteAfter(sent, k, offset + c))
  BY <1>3, ReadMore
<1>5. First(buf, c) = buf /\ Rest(buf, c) = <<>>
  BY <1>1, <1>2, WholePiece
<1>6. Unread' = Rest(buf, c) \o wire
  BY <1>5 DEF Unread
<1>7. ByteAfter(sent, k, offset + c) = <<k, offset' + 1>>
  <2>1. PICK z \in Nat : z = Size(sent, k) /\ H <= z
    BY <1>2, <1>4, SizeType
  <2>2. offset + c < Size(sent, k) /\ offset' = offset + c
    BY <1>1, <2>1
  <2> QED
    BY <2>2 DEF ByteAfter
<1>8. First(temp, offset) = Bytes(k, 0, o)
  <2>1. CASE o = 0
    <3>1. Bytes(k, 0, 0) = <<>> /\ First(temp, 0) = <<>>
      BY DEF Bytes, First
    <3> QED
      BY <1>1, <2>1, <3>1
  <2>2. CASE o > 0
    BY <1>1, <2>2 DEF At, Reading
  <2> QED
    BY <2>1, <2>2
<1>9. temp' = Bytes(k, 0, offset')
  <2>1. o + c \in Nat /\ o \in 0 .. o + c /\ offset' = o + c /\ k \in Nat
    BY <1>1
  <2>2. Bytes(k, 0, o) \o Bytes(k, o, o + c) = Bytes(k, 0, o + c)
    BY <2>1, HeaderJoin, Zenon
  <2> QED
    BY <1>1, <1>4, <1>5, <1>8, <2>1, <2>2
<1>10. First(temp', offset') = Bytes(k, 0, offset')
  <2>1. PICK n \in Nat : n = offset'
    BY <1>1
  <2>2. Bytes(k, 0, n) \in Seq(Byte) /\ Len(Bytes(k, 0, n)) = n
    <3>1. 0 \in Nat /\ 0 <= n /\ n - 0 = n
      BY <2>1
    <3>2. /\ Bytes(k, 0, n) \in Seq(Byte) /\ Len(Bytes(k, 0, n)) = n - 0
      BY <3>1, BytesAre, Zenon
    <3> QED
      BY <3>1, <3>2
  <2> QED
    BY <1>9, <2>1, <2>2, WholePiece
<1>11. Numbers' = Numbers
  BY SameNumbers
<1>12. k \in 1 .. Len(sent') + 1 /\ k <= Len(sent')
  BY <1>2, <1>4
<1>13. Reading(k)'
  BY <1>4, <1>6, <1>7, <1>10, <1>12 DEF Reading
<1>14. Handed(k)'
  BY <1>11 DEF At, Handed
<1> QED
  BY <1>4, <1>6, <1>12, <1>13, <1>14 DEF At

LEMMA InStreamPart ==
  ASSUME Inv, NEW k \in Nat, At(k), ExtendHeader \/ StartHeader
  PROVE  At(k)'
<1>1. CASE ExtendHeader
  BY <1>1, InStreamKeep DEF ExtendHeader
<1>2. CASE StartHeader
  <2>1. /\ buf # <<>> /\ header = NoHeader /\ offset = 0 /\ Short
        /\ temp' = buf /\ offset' = Len(buf) /\ buf' = <<>>
        /\ UNCHANGED <<sent, wire, header, cursor, pool, delivered>>
        /\ UNCHANGED overflowed
    BY <1>2 DEF StartHeader
  <2>2. buf \in Seq(Byte)
    BY DEF Inv, TypeOK, Byte
  <2>3. First(temp, offset) = <<>>
    BY <2>1 DEF First
  <2>4. temp' = First(temp, offset) \o buf /\ offset' = offset + Len(buf)
    BY <2>1, <2>2, <2>3
  <2> QED
    BY <2>1, <2>4, InStreamKeep
<1> QED
  BY <1>1, <1>2

LEMMA InStreamInit == Init => InStream /\ AllKnown
<1> SUFFICES ASSUME Init PROVE InStream /\ AllKnown
  OBVIOUS
<1>1. Unread = <<>> /\ Len(sent) = 0
  BY DEF Init, Unread
<1>2. 1 \in 1 .. Len(sent) + 1
  BY <1>1
<1>3. Numbers = <<>>
  BY DEF Init, Numbers
<1>4. InOrder(sent, Unread)
  BY <1>1 DEF InOrder
<1>5. Reading(1)
  BY <1>1, <1>2 DEF Init, Reading, Starts
<1>6. Handed(1)
  BY <1>3 DEF Handed
<1>7. AllKnown
  BY DEF Init, AllKnown, Known
<1> QED
  BY <1>2, <1>4, <1>5, <1>6, <1>7 DEF InStream

LEMMA InStreamStep ==
  ASSUME Inv, InStream, AllKnown, [Next]_vars
  PROVE  InStream' /\ AllKnown'
<1>1. CASE Send
  BY <1>1, InStreamSend, AllKnownSend DEF Inv
<1>2. CASE Receive
  BY <1>2, InStreamReceive, AllKnownReceive DEF Inv
<1>3. CASE Recv
  <2>1. AllKnown'
    BY <1>3, AllKnownRecv
  <2>2. ASSUME overflowed PROVE overflowed'
    BY <1>3, <2>2 DEF Recv, FinishMessage, AppendToPool, FinishHeader,
       ExtendHeader, ReadHeader, StartHeader, TakeHeader
  <2>3. ASSUME ~ overflowed PROVE InStream'
    <3>1. PICK k \in Nat : At(k)
      BY <2>3 DEF InStream, At
    <3>2. At(k)' => InStream'
      BY DEF At, InStream
    <3>3. At(k + 1)' => InStream'
      BY DEF At, InStream
    <3>4. CASE FinishMessage
      BY <3>1, <3>3, <3>4, InStreamFinish
    <3>5. CASE AppendToPool
      BY <3>1, <3>2, <3>5, InStreamAppend
    <3>6. CASE FinishHeader
      BY <3>1, <3>2, <3>3, <3>6, InStreamEnd DEF InStream
    <3>7. CASE ReadHeader
      BY <3>1, <3>2, <3>3, <3>7, InStreamRead DEF InStream
    <3>8. CASE ExtendHeader \/ StartHeader
      BY <3>1, <3>2, <3>8, InStreamPart
    <3> QED
      BY <1>3, <3>4, <3>5, <3>6, <3>7, <3>8 DEF Recv
  <2> QED
    BY <2>1, <2>2, <2>3 DEF InStream
<1>4. CASE Disconnected \/ UNCHANGED vars
  <2>1. UNCHANGED <<sent, wire, buf, header, cursor, pool, temp, offset,
                    delivered, overflowed, failed>>
    BY <1>4 DEF Disconnected, vars
  <2>2. Numbers' = Numbers /\ Unread' = Unread
    BY <2>1, SameNumbers DEF Unread
  <2>3. AllKnown'
    BY <2>1 DEF AllKnown
  <2>4. \A k : Reading(k) /\ Handed(k) => Reading(k)' /\ Handed(k)'
    BY <2>1, <2>2 DEF Reading, Handed
  <2> QED
    BY <2>1, <2>2, <2>3, <2>4 DEF InStream
<1> QED
  BY <1>1, <1>2, <1>3, <1>4 DEF Next, Idle

-----------------------------------------------------------------------------
(***************************************************************************)
(* The state keeps its types, after an overflow too: cursor stays in the   *)
(* pool and temp_header_offset in temp_header.                             *)
(***************************************************************************)
THEOREM TypeCorrect == Spec => []TypeOK
<1>1. Init => Inv
  BY InitInv
<1>2. Inv /\ [Next]_vars => Inv'
  BY SendInv, ReceiveInv, RecvInv, DisconnectedInv, StutterInv DEF Next, Idle
<1> QED
  BY <1>1, <1>2, PTL DEF Spec, Inv

LEMMA Sound == Spec => [](Inv /\ InStream /\ AllKnown)
<1>1. Init => Inv /\ InStream /\ AllKnown
  BY InitInv, InStreamInit
<1>2. Inv /\ [Next]_vars => Inv'
  BY SendInv, ReceiveInv, RecvInv, DisconnectedInv, StutterInv DEF Next, Idle
<1>3. Inv /\ InStream /\ AllKnown /\ [Next]_vars => InStream' /\ AllKnown'
  BY InStreamStep
<1> QED
  BY <1>1, <1>2, <1>3, PTL DEF Spec

LEMMA AllRead ==
  ASSUME Inv, InStream
  PROVE  CutsDoNotMatter
<1> SUFFICES ASSUME buf = <<>>, wire = <<>>, ~ overflowed
             PROVE  {Numbers[i] : i \in DOMAIN Numbers} = SeenNumbers
  BY DEF CutsDoNotMatter
<1>1. PICK k \in 1 .. Len(sent) + 1 : Reading(k) /\ Handed(k)
  BY DEF InStream
<1>2. PICK l \in Nat : l = Len(sent) /\ sent \in Seq(Kind)
  BY DEF Inv, TypeOK
<1>3. \A b : Starts(sent, Unread, b) => b = <<l + 1, 1>>
  BY <1>2 DEF Unread, Starts
<1>4. ASSUME NEW n \in 1 .. l, Seen(sent[n]) PROVE n \in 1 .. k - 1
  <2>1. CASE header = NoHeader
    <3>1. <<k, offset + 1>> = <<l + 1, 1>>
      BY <1>1, <1>3, <2>1 DEF Reading
    <3> QED
      BY <1>2, <3>1
  <2>2. CASE header # NoHeader
    <3>1. /\ k \in 1 .. l /\ header.len = sent[k].len
          /\ ByteAfter(sent, k, H + cursor) = <<l + 1, 1>>
      BY <1>1, <1>2, <1>3, <2>2 DEF Reading
    <3>2. PICK z \in Nat, a \in Nat :
            /\ z = sent[k].len /\ a = cursor /\ (a > 0 => a < z)
            /\ H \in Nat /\ Size(sent, k) = H + z
      <4>1. sent[k].len \in Nat /\ Size(sent, k) = H + sent[k].len /\ H \in Nat
        BY <1>2, <3>1, SizeType
      <4>2. cursor \in Nat /\ (cursor > 0 => cursor < header.len)
        BY FramingAssumption DEF Inv, TypeOK, InBounds
      <4> QED
        BY <3>1, <4>1, <4>2
    <3>3. H + cursor >= Size(sent, k) /\ k = l
      BY <1>2, <3>1, <3>2 DEF ByteAfter
    <3>4. sent[k].len = 0
      BY <3>2, <3>3
    <3>5. n # k
      BY <1>4, <3>4 DEF Seen
    <3> QED
      BY <1>2, <3>3, <3>5
  <2> QED
    BY <2>1, <2>2
<1>5. \A i \in DOMAIN Numbers : Numbers[i] \in 1 .. l /\ Seen(sent[Numbers[i]])
  BY <1>1, <1>2 DEF Handed
<1>6. \A n \in 1 .. l : Seen(sent[n]) => \E i \in DOMAIN Numbers : Numbers[i] = n
  BY <1>1, <1>4 DEF Handed
<1> HIDE DEF Seen
<1> QED
  BY <1>2, <1>5, <1>6 DEF SeenNumbers

(***************************************************************************)
(* However long the stream and however it is cut (message.hpp:62-129): the *)
(* messages that were read have been reported, and nothing else.           *)
(***************************************************************************)
THEOREM CutsHarmless == Spec => []CutsDoNotMatter
<1>1. Inv /\ InStream /\ AllKnown => CutsDoNotMatter
  BY AllRead
<1> QED
  BY <1>1, Sound, PTL

LEMMA OneMore ==
  ASSUME Inv, AllKnown, NEW k \in 1 .. Len(sent), sent[k].len > 0,
         delivered' = Append(delivered, BodyOf(sent, k)), UNCHANGED sent
  PROVE  /\ Numbers \in Seq(Nat) /\ Numbers' = Append(Numbers, k)
<1>1. /\ delivered \in Seq(Seq(Byte)) /\ sent \in Seq(Kind)
  BY DEF Inv, TypeOK, AllKnown
<1>2. PICK L \in Nat : L = Len(delivered)
  BY <1>1
<1>3. BodyOf(sent, k) \in Seq(Byte) /\ NumberOf(sent, BodyOf(sent, k)) = k
  BY <1>1, BodyStart, NumberOfBody
<1>4. \A d : NumberOf(sent, d) \in Nat
  BY <1>1 DEF NumberOf
<1>5. Numbers = [i \in 1 .. L |-> NumberOf(sent, delivered[i])]
  BY <1>1, <1>2, NumbersAre
<1>6. PICK D : D = delivered'
  OBVIOUS
<1>7. Numbers' = [i \in DOMAIN D |-> NumberOf(sent, D[i])]
  BY <1>6 DEF Numbers, NumberOf, Body, BodyOf
<1>8. /\ DOMAIN D = 1 .. L + 1
      /\ \A i \in 1 .. L : D[i] = delivered[i]
      /\ D[L + 1] = BodyOf(sent, k)
  BY <1>1, <1>2, <1>3, <1>6
<1>9. Numbers \in Seq(Nat) /\ Len(Numbers) = L
  BY <1>4, <1>5
<1>10. PICK M : M = Append(Numbers, k)
  OBVIOUS
<1>11. /\ M \in Seq(Nat) /\ Len(M) = L + 1 /\ M[L + 1] = k
       /\ \A i \in 1 .. L : M[i] = Numbers[i]
  BY <1>1, <1>9, <1>10
<1>12. M = [i \in 1 .. L + 1 |-> M[i]]
  BY <1>11
<1>13. \A i \in 1 .. L + 1 : M[i] = NumberOf(sent, D[i])
  <2> SUFFICES ASSUME NEW i \in 1 .. L + 1 PROVE M[i] = NumberOf(sent, D[i])
    OBVIOUS
  <2>1. CASE i = L + 1
    BY <1>3, <1>8, <1>11, <2>1
  <2>2. CASE i \in 1 .. L
    BY <1>5, <1>8, <1>11, <2>2
  <2> QED
    BY <2>1, <2>2
<1> QED
  BY <1>7, <1>8, <1>9, <1>10, <1>12, <1>13

LEMMA NextOne ==
  ASSUME Inv, NEW k \in 1 .. Len(sent), Handed(k), Seen(sent[k]),
         Numbers \in Seq(Nat)
  PROVE  Channel!IsNext(k)
<1>1. PICK L \in Nat, l \in Nat : L = Len(Numbers) /\ l = Len(sent)
  BY DEF Inv, TypeOK
<1>2. /\ \A i \in 1 .. L : Numbers[i] \in 1 .. k - 1
      /\ \A i, j \in 1 .. L : i < j => Numbers[i] < Numbers[j]
      /\ \A n \in 1 .. k - 1 : Seen(sent[n]) => \E i \in 1 .. L : Numbers[i] = n
  <2>1. DOMAIN Numbers = 1 .. L
    BY <1>1
  <2> QED
    BY <2>1, Zenon DEF Handed
<1>3. PICK b \in Nat : b = Channel!Last /\ b < k /\ \A i \in 1 .. L : Numbers[i] <= b
  <2>1. CASE L = 0
    <3>1. Numbers = <<>>
      <4>1. PICK N \in Seq(Nat) : N = Numbers
        OBVIOUS
      <4>2. Len(N) = 0
        BY <1>1, <2>1, <4>1
      <4>3. N = <<>>
        BY <4>2
      <4> QED
        BY <4>1, <4>3
    <3> QED
      BY <1>1, <2>1, <3>1 DEF Channel!Last
  <2>2. CASE L > 0
    <3>1. Numbers # <<>> /\ L \in 1 .. L /\ Channel!Last = Numbers[L]
      BY <1>1, <2>2 DEF Channel!Last
    <3>2. Numbers[L] \in 1 .. k - 1
      BY <1>2, <3>1
    <3>3. \A i \in 1 .. L : i = L \/ i < L
      OBVIOUS
    <3>4. \A i \in 1 .. L : Numbers[i] <= Numbers[L]
      BY <1>2, <3>1, <3>3
    <3> QED
      BY <3>1, <3>2, <3>4
  <2> QED
    BY <2>1, <2>2
<1>4. \A j \in b + 1 .. k - 1 : ~ Seen(sent[j])
  BY <1>2, <1>3
<1>5. k \in b + 1 .. l
  BY <1>1, <1>3
<1> QED
  BY <1>1, <1>3, <1>4, <1>5 DEF Channel!IsNext

(* Each step of MessageFraming is a step of MessageChannel, or none. *)
LEMMA ChannelStep ==
  ASSUME Inv, InStream, AllKnown, [Next]_vars
  PROVE  [Channel!Next]_<<sent, Numbers, overflowed>>
<1> DEFINE Same == UNCHANGED <<sent, Numbers, overflowed>>
<1>1. CASE Send
  <2>1. Numbers' = Numbers
    BY <1>1, InStreamSend
  <2>2. Channel!Send
    BY <1>1, <2>1 DEF Send, Channel!Send
  <2> QED
    BY <2>2 DEF Channel!Next
<1>2. CASE Receive
  BY <1>2, SameNumbers DEF Receive
<1>3. CASE Recv /\ overflowed
  <2>1. sent' = sent /\ overflowed' = overflowed
    BY <1>3 DEF Recv, FinishMessage, AppendToPool, FinishHeader,
       ExtendHeader, ReadHeader, StartHeader, TakeHeader, Inv, TypeOK
  <2>2. CASE Numbers' = Numbers
    BY <2>1, <2>2
  <2>3. CASE Numbers' # Numbers
    BY <1>3, <2>1, <2>3 DEF Channel!Garble, Channel!Next
  <2> QED
    BY <2>2, <2>3
<1>4. CASE Recv /\ ~ overflowed
  <2>1. PICK k \in Nat : At(k)
    BY <1>4 DEF InStream, At
  <2>2. sent' = sent
    BY <1>4 DEF Recv, FinishMessage, AppendToPool, FinishHeader,
       ExtendHeader, ReadHeader, StartHeader
  <2>3. overflowed = FALSE
    BY <1>4 DEF Inv, TypeOK
  <2>4. CASE FinishMessage
    <3>1. /\ k \in 1 .. Len(sent) /\ overflowed' = overflowed
          /\ IF Seen(sent[k]) THEN delivered' = Append(delivered, BodyOf(sent, k))
                              ELSE delivered' = delivered
      BY <2>1, <2>4, InStreamFinish DEF FinishMessage
    <3>2. CASE Seen(sent[k])
      <4>1. sent[k].len > 0
        BY <3>2 DEF Seen
      <4>2. Numbers \in Seq(Nat) /\ Numbers' = Append(Numbers, k)
        BY <2>2, <3>1, <3>2, <4>1, OneMore
      <4>3. Channel!IsNext(k)
        BY <2>1, <3>1, <3>2, <4>2, NextOne DEF At
      <4>4. Channel!Deliver
        BY <1>4, <2>2, <3>1, <4>2, <4>3 DEF Channel!Deliver
      <4> QED
        BY <4>4 DEF Channel!Next
    <3>3. CASE ~ Seen(sent[k])
      BY <2>2, <3>1, <3>3, SameNumbers
    <3> QED
      BY <3>2, <3>3
  <2>5. CASE AppendToPool
    BY <2>1, <2>5, <2>2, InStreamAppend DEF AppendToPool
  <2>6. CASE FinishHeader \/ ReadHeader
    <3>1. delivered' = delivered
      BY <2>6 DEF FinishHeader, ReadHeader
    <3>2. Numbers' = Numbers
      BY <2>2, <3>1, SameNumbers
    <3>3. \/ overflowed' = overflowed
          \/ k \in 1 .. Len(sent) /\ overflowed' = TRUE /\ LongerThanPool(sent[k])
      <4>1. At(k)' \/ At(k + 1)' => ~ overflowed'
        BY DEF At
      <4>2. overflowed' \in BOOLEAN
        BY <2>3, <2>6 DEF FinishHeader, ReadHeader, TakeHeader
      <4> QED
        BY <2>1, <2>3, <2>6, <4>1, <4>2, InStreamRead, InStreamEnd
    <3>4. CASE k \in 1 .. Len(sent) /\ overflowed' = TRUE /\ LongerThanPool(sent[k])
      BY <2>2, <3>2, <3>4 DEF Channel!Break, Channel!Next
    <3> QED
      BY <2>2, <3>2, <3>3, <3>4
  <2>7. CASE ExtendHeader \/ StartHeader
    BY <2>2, <2>7, SameNumbers DEF ExtendHeader, StartHeader
  <2> QED
    BY <1>4, <2>4, <2>5, <2>6, <2>7 DEF Recv
<1>5. CASE Disconnected \/ UNCHANGED vars
  BY <1>5, SameNumbers DEF Disconnected, vars
<1> QED
  BY <1>1, <1>2, <1>3, <1>4, <1>5 DEF Next, Idle

(***************************************************************************)
(* message.hpp implements what its users rely on: onData is called once    *)
(* for each message that is not empty and can be decompressed, in the      *)
(* order the peer sent them, up to the first message that is longer than   *)
(* the receiver takes.                                                     *)
(***************************************************************************)
THEOREM ImplementsChannel == Spec => RefinesChannel
<1>1. Init => Channel!Init
  <2> SUFFICES ASSUME Init PROVE Channel!Init
    OBVIOUS
  <2>1. Numbers = <<>>
    BY DEF Init, Numbers
  <2> QED
    BY <2>1 DEF Init, Channel!Init
<1>2. Inv /\ InStream /\ AllKnown /\ [Next]_vars
        => [Channel!Next]_<<sent, Numbers, overflowed>>
  BY ChannelStep
<1> QED
  BY <1>1, <1>2, Sound, PTL DEF Spec, RefinesChannel, Channel!Spec

(* recv stays in its buffers and delivers all it reads, whatever the cuts.  *)
THEOREM RecvIsCorrect == Spec => []RecvCorrect
BY RecvInBounds, CutsHarmless, PTL DEF RecvCorrect
=============================================================================
