--------------------------- MODULE MessageFraming ---------------------------
(***************************************************************************)
(* MessageProtocol (network/quic/message.hpp) at both ends of one QUIC     *)
(* stream: SendReq puts a header before each message, MsQuic delivers the  *)
(* bytes in order but in pieces of any size, and recv puts the messages    *)
(* together again.  One call of recv, and each of its recursive calls on   *)
(* what is left of the piece, is one step.                                 *)
(*                                                                         *)
(* A byte is named by the message it belongs to and its place there, so a  *)
(* byte that ends up in the wrong place is noticed.                        *)
(***************************************************************************)
EXTENDS Integers, Sequences

CONSTANTS
  H,        \* sizeof(header_t): 8
  MaxRecv,  \* maxRecv, the size of pool: 1024 on the server, 2 MB on clients
  MaxLen,   \* the longest length a header may hold: 2^63 - 1
  Kind,     \* messages: [len, lz4, fits]; fits: decompresses in maxDecomp
  MaxSent   \* how many messages are sent: a bound for model checking

Comp == BOOLEAN    \* COMP_NONE is FALSE, COMP_LZ4 is TRUE

ASSUME FramingAssumption ==
  /\ H \in Nat /\ H > 1
  /\ MaxRecv \in Nat /\ MaxLen \in Nat
  /\ Kind \subseteq [len : 0 .. MaxLen, lz4 : Comp, fits : BOOLEAN]
  /\ MaxSent \in Nat

NoHeader == [len |-> 0, lz4 |-> FALSE]    \* header.value == 0

VARIABLES
  sent,          \* the messages given to StreamSend
  wire,          \* bytes MsQuic has not delivered yet
  buf,           \* what recv has not read of the piece it was called with
  header,        \* the header of the message being received, or NoHeader
  cursor,        \* how much of it is in the pool
  pool,          \* the first cursor bytes of pool
  temp,          \* temp_header.bytes, as far as they were written
  offset,        \* temp_header_offset
  delivered,     \* the buffers onData was called with
  overflowed,    \* onBufferOverflow was called
  failed,        \* onDecompressionFailed was called
  closed         \* the stream has ended, as disconnect() asked

vars == <<sent, wire, buf, header, cursor, pool, temp, offset, delivered,
          overflowed, failed, closed>>

Init ==
  /\ sent = <<>> /\ wire = <<>> /\ buf = <<>>
  /\ header = NoHeader /\ cursor = 0 /\ pool = <<>>
  /\ temp = <<>> /\ offset = 0
  /\ delivered = <<>> /\ overflowed = FALSE /\ failed = FALSE
  /\ closed = FALSE

First(s, n) == SubSeq(s, 1, n)
Rest(s, n) == SubSeq(s, n + 1, Len(s))

-----------------------------------------------------------------------------
(* The sender: the header, then the body (SendReq). *)

Bytes(n, from, to) == [k \in 1 .. to - from |-> <<n, from + k>>]
HeaderBytes(n) == Bytes(n, 0, H)
Body(n) == Bytes(n, H, H + sent[n].len)

Send ==
  /\ Len(sent) < MaxSent
  /\ \E m \in Kind :
       /\ sent' = Append(sent, m)
       /\ wire' = wire \o Bytes(Len(sent'), 0, H + m.len)
  /\ UNCHANGED <<buf, header, cursor, pool, temp, offset, delivered,
                 overflowed, failed, closed>>

(* QUIC_STREAM_EVENT_RECEIVE, for one of its buffers. *)
Receive ==
  /\ buf = <<>> /\ ~ closed
  /\ \E n \in 1 .. Len(wire) : buf' = First(wire, n) /\ wire' = Rest(wire, n)
  /\ UNCHANGED <<sent, header, cursor, pool, temp, offset, delivered,
                 overflowed, failed, closed>>

(***************************************************************************)
(* onBufferOverflow and onDecompressionFailed call disconnect(): sooner or *)
(* later MsQuic delivers no more of the stream.  recv still goes through   *)
(* what it has been called with, and MsQuic may call it again before.      *)
(***************************************************************************)
Disconnected ==
  /\ (overflowed \/ failed) /\ ~ closed
  /\ closed' = TRUE
  /\ UNCHANGED <<sent, wire, buf, header, cursor, pool, temp, offset,
                 delivered, overflowed, failed>>

-----------------------------------------------------------------------------
(***************************************************************************)
(* What header_t makes of H bytes: the length and the compression bit the  *)
(* sender put there, if they are one header; any value if they are not.    *)
(***************************************************************************)
Decoded(bytes) ==
  LET whole == {n \in 1 .. Len(sent) : bytes = HeaderBytes(n)} IN
  IF whole = {}
  THEN [len : 0 .. MaxLen, lz4 : Comp]
  ELSE {[len |-> sent[n].len, lz4 |-> sent[n].lz4] : n \in whole}

(* Whether LZ4_decompress_safe can succeed on this buffer. *)
Decompresses(data) ==
  IF \E n \in 1 .. Len(sent) : data = Body(n) /\ sent[n].lz4
  THEN {\E n \in 1 .. Len(sent) :
          data = Body(n) /\ sent[n].fits /\ data # <<>>}
  ELSE {FALSE, data # <<>>}

(* A message is complete: onData, by way of LZ4 if its header says so, or  *)
(* onDecompressionFailed.                                                  *)
Hand(data) ==
  \/ /\ ~ header.lz4
     /\ delivered' = Append(delivered, data) /\ UNCHANGED failed
  \/ /\ header.lz4
     /\ \E ok \in Decompresses(data) :
          IF ok THEN delivered' = Append(delivered, data) /\ UNCHANGED failed
                ELSE failed' = TRUE /\ UNCHANGED delivered

Required == header.len - cursor

(* header is known and this piece has the rest of the message. *)
BugComplete == Len(buf) > Required          \* > for >=

Complete == Len(buf) >= Required

BugMessage == First(buf, Required)          \* the pool forgotten

Message == IF cursor = 0 THEN First(buf, Required)
                         ELSE pool \o First(buf, Required)

FinishMessage ==
  /\ buf # <<>> /\ header # NoHeader /\ Complete
  /\ Hand(Message)
  /\ header' = NoHeader /\ cursor' = 0 /\ pool' = <<>>
  /\ buf' = Rest(buf, Required)
  /\ UNCHANGED <<sent, wire, temp, offset, overflowed, closed>>

(* header is known and the piece does not complete the message. *)
AppendToPool ==
  /\ buf # <<>> /\ header # NoHeader /\ ~ Complete
  /\ pool' = pool \o buf /\ cursor' = cursor + Len(buf)
  /\ buf' = <<>>
  /\ UNCHANGED <<sent, wire, header, temp, offset, delivered, overflowed,
                 failed, closed>>

(***************************************************************************)
(* A header is complete.  One that is too long drops the rest of the piece *)
(* and leaves temp_header_offset as it is.                                 *)
(***************************************************************************)
BugAcceptable(hd) == TRUE                   \* without the test of maxRecv

Acceptable(hd) == hd.len <= MaxRecv

TakeHeader(bytes, used) ==
  \E hd \in Decoded(bytes) :
    \/ /\ Acceptable(hd)
       /\ header' = hd /\ offset' = 0 /\ buf' = Rest(buf, used)
       /\ UNCHANGED overflowed
    \/ /\ ~ Acceptable(hd)
       /\ overflowed' = TRUE /\ buf' = <<>>
       /\ UNCHANGED <<header, offset>>

(* Part of a header has been read; this piece ends it, or does not. *)
BugShort == Len(buf) <= H - offset          \* <= for <

Short == Len(buf) < H - offset

FinishHeader ==
  /\ buf # <<>> /\ header = NoHeader /\ offset > 0 /\ ~ Short
  /\ temp' = First(temp, offset) \o First(buf, H - offset)
  /\ TakeHeader(temp', H - offset)
  /\ UNCHANGED <<sent, wire, cursor, pool, delivered, failed, closed>>

ExtendHeader ==
  /\ buf # <<>> /\ header = NoHeader /\ offset > 0 /\ Short
  /\ temp' = First(temp, offset) \o buf /\ offset' = offset + Len(buf)
  /\ buf' = <<>>
  /\ UNCHANGED <<sent, wire, header, cursor, pool, delivered, overflowed,
                 failed, closed>>

(* No header has begun; this piece holds a whole one, or does not. *)
ReadHeader ==
  /\ buf # <<>> /\ header = NoHeader /\ offset = 0 /\ ~ Short
  /\ TakeHeader(First(buf, H), H)
  /\ UNCHANGED <<sent, wire, cursor, pool, temp, delivered, failed, closed>>

BugStartHeader ==              \* without temp_header_offset = buf_len
  /\ buf # <<>> /\ header = NoHeader /\ offset = 0 /\ Short
  /\ temp' = buf /\ buf' = <<>>
  /\ UNCHANGED <<sent, wire, header, cursor, pool, offset, delivered,
                 overflowed, failed, closed>>

StartHeader ==
  /\ buf # <<>> /\ header = NoHeader /\ offset = 0 /\ Short
  /\ temp' = buf /\ offset' = Len(buf)
  /\ buf' = <<>>
  /\ UNCHANGED <<sent, wire, header, cursor, pool, delivered, overflowed,
                 failed, closed>>

Recv ==
  \/ FinishMessage \/ AppendToPool
  \/ FinishHeader \/ ExtendHeader
  \/ ReadHeader \/ StartHeader

(* All has been sent, and all that is delivered has been read. *)
Idle ==
  /\ Len(sent) = MaxSent /\ buf = <<>> /\ (wire = <<>> \/ closed)
  /\ UNCHANGED vars

Next == Send \/ Receive \/ Recv \/ Disconnected \/ Idle

Spec == Init /\ [][Next]_vars

(* MsQuic delivers what was sent while the stream lives; recv is           *)
(* sequential code.                                                        *)
FairSpec == Spec /\ WF_vars(Receive \/ Recv)

-----------------------------------------------------------------------------
(* Properties. *)

TypeOK ==
  /\ sent \in Seq(Kind) /\ Len(sent) <= MaxSent
  /\ wire \in Seq(Nat \X Nat) /\ buf \in Seq(Nat \X Nat)
  /\ header \in [len : 0 .. MaxLen, lz4 : Comp]
  /\ cursor \in 0 .. MaxRecv /\ offset \in 0 .. H - 1
  /\ overflowed \in BOOLEAN /\ failed \in BOOLEAN /\ closed \in BOOLEAN

(***************************************************************************)
(* Every memcpy stays within its destination, even when a piece of the     *)
(* stream is mistaken for a header: what is in pool is part of a message   *)
(* that fits in it and lacks at least a byte, and no header is begun while *)
(* one is being obeyed (message.hpp:88, 112, 123, 127).                    *)
(***************************************************************************)
InBounds ==
  /\ header.len <= MaxRecv
  /\ cursor > 0 => cursor < header.len
  /\ header # NoHeader => offset = 0

(***************************************************************************)
(* The numbers of the messages whose bodies were delivered; 0 for a buffer *)
(* that is not a message.                                                  *)
(***************************************************************************)
Numbers ==
  [i \in DOMAIN delivered |->
     IF \E n \in 1 .. Len(sent) : delivered[i] = Body(n) /\ sent[n].len > 0
     THEN CHOOSE n \in 1 .. Len(sent) : delivered[i] = Body(n)
     ELSE 0]

(* onData is called for messages with a body that decompress. *)
Seen(m) == m.len > 0 /\ (m.lz4 => m.fits)

(***************************************************************************)
(* However the stream is cut, the messages of everything that was read     *)
(* have been delivered by the time recv returns, and nothing else: the     *)
(* cut makes no difference.                                                *)
(***************************************************************************)
SeenNumbers == {n \in 1 .. Len(sent) : Seen(sent[n])}

CutsDoNotMatter ==
  buf = <<>> /\ wire = <<>> /\ ~ overflowed =>
    {Numbers[i] : i \in DOMAIN Numbers} = SeenNumbers

(***************************************************************************)
(* recv as a whole: it stays in its buffers and has delivered what it      *)
(* read.                                                                   *)
(***************************************************************************)
RecvCorrect == TypeOK /\ InBounds /\ CutsDoNotMatter

LongerThanPool(m) == m.len > MaxRecv

Channel == INSTANCE MessageChannel WITH
  Reported <- Seen, TooLong <- LongerThanPool, delivered <- Numbers, broken <- overflowed

(* message.hpp implements MessageChannel: each message once and in order.  *)
RefinesChannel == Channel!Spec

(* Messages recv answers with disconnect().                                *)
Rejected(m) == m.len > MaxRecv \/ (m.lz4 /\ ~ (m.fits /\ m.len > 0))

(***************************************************************************)
(* A message that was sent arrives, unless the receiver disconnects        *)
(* because of one that was sent before it (message.hpp:80, 96, 129, 145).  *)
(***************************************************************************)
MessagesArrive ==
  \A n \in 1 .. MaxSent :
    (n <= Len(sent) /\ n \in SeenNumbers)
      ~> \/ \E i \in DOMAIN Numbers : Numbers[i] = n
         \/ \E k \in 1 .. Len(sent) : k <= n /\ Rejected(sent[k])
=============================================================================
