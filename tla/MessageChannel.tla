--------------------------- MODULE MessageChannel ---------------------------
(***************************************************************************)
(* What MessageProtocol promises its users: onData is called once for each *)
(* message the peer sent, in the order they were sent, whatever the sizes  *)
(* of the pieces the stream arrives in.  Messages it cannot or does not    *)
(* report (too long to decompress, or empty) are passed over, if what      *)
(* follows them is delivered at all: after one that does not decompress    *)
(* the receiver disconnects.  A message longer than maxRecv ends the       *)
(* promise.                                                                *)
(***************************************************************************)
EXTENDS Integers, Sequences

CONSTANTS
  Kind,          \* the kinds of message: records with a field len
  Reported(_),   \* Reported(m): does onData see a message of kind m?
  TooLong(_)     \* TooLong(m): is m longer than the receiver takes?

VARIABLES
  sent,          \* the messages sent
  delivered,     \* the numbers of the messages onData was called with
  broken         \* a message was too long for the receiver

Last == IF delivered = <<>> THEN 0 ELSE delivered[Len(delivered)]

(* n is the next message onData should be called with. *)
IsNext(n) ==
  /\ n \in Last + 1 .. Len(sent)
  /\ Reported(sent[n])
  /\ \A k \in Last + 1 .. n - 1 : ~ Reported(sent[k])

Init == sent = <<>> /\ delivered = <<>> /\ broken = FALSE

Send ==
  /\ \E m \in Kind : sent' = Append(sent, m)
  /\ UNCHANGED <<delivered, broken>>

Deliver ==
  /\ ~ broken
  /\ \E n \in 1 .. Len(sent) : IsNext(n) /\ delivered' = Append(delivered, n)
  /\ UNCHANGED <<sent, broken>>

Break ==
  /\ \E n \in 1 .. Len(sent) : TooLong(sent[n])
  /\ broken' = TRUE
  /\ UNCHANGED <<sent, delivered>>

(* What onData sees after that is anybody's guess. *)
Garble == broken /\ delivered' # delivered /\ UNCHANGED <<sent, broken>>

Next == Send \/ Deliver \/ Break \/ Garble

Spec == Init /\ [][Next]_<<sent, delivered, broken>>
=============================================================================
