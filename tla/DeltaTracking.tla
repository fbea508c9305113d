--------------------------- MODULE DeltaTracking ---------------------------
(***************************************************************************)
(* One awake object in three dimensions: it moves, and with every message  *)
(* the server sends the difference to the pose it believes the client has  *)
(* (server-tick.cpp:111-119), in the coding of Bitmagic.  The client       *)
(* decodes the bytes; the server adds what its encoder writes back.        *)
(***************************************************************************)
EXTENDS Bitmagic

CONSTANTS
  Places,     \* where objects are added, a coordinate in 1/1024
  Moves,      \* how far the object may move at a time, [Axis -> Int]
  MaxMoves    \* bound: moves in all

ASSUME MoveAssumption == Places \subseteq Int /\ Moves \subseteq [Axis -> Int]

ASSUME CountAssumption == MaxMoves \in Nat

VARIABLES
  place,  \* where the object was added
  pos,    \* the actor's global pose, counted from where it was added
  cache,  \* prevPos in the server's cache
  shown,  \* obj.pos in the client's data
  backlog, \* auxiliary: the way made that messages have had no room for
  moves    \* moves in all

vars == <<place, pos, cache, shown, backlog, moves>>

(* addObject: both ends start from what the 16 bits of a coordinate say.   *)
Added(p) == (OnGrid(p) - p) * (Unit \div 1024)

Init ==
  /\ place \in [Axis -> Places]
  /\ pos = [a \in Axis |-> 0]
  /\ cache = [a \in Axis |-> Added(place[a])]
  /\ shown = cache
  /\ backlog = [a \in Axis |-> Magnitude(cache[a])]
  /\ moves = 0

Move(v) ==
  /\ moves < MaxMoves
  /\ pos' = [a \in Axis |-> pos[a] + v[a]]
  /\ backlog' = [a \in Axis |-> backlog[a] + Magnitude(v[a])]
  /\ moves' = moves + 1
  /\ UNCHANGED <<place, cache, shown>>

Apart == [a \in Axis |-> pos[a] - cache[a]]

BugKept(a) == pos[a]                   \* prevPos = currPos

Kept(a) == cache[a] + WriteBack(Apart[a])

(* What the encoder makes of differences beyond the clamp: (124 + 3.5)/31. *)
Reach == 255 * (Unit \div 62)

Send ==
  /\ cache' = [a \in Axis |-> Kept(a)]
  /\ shown' = [a \in Axis |->
                 shown[a] + Decode(Header(Apart), a, Encode(Apart[a]).byte)]
  /\ backlog' = [a \in Axis |-> IF backlog[a] > Reach THEN backlog[a] - Reach ELSE 0]
  /\ UNCHANGED <<place, pos, moves>>

Next == (\E v \in Moves : Move(v)) \/ Send

Spec == Init /\ [][Next]_vars

FairSpec == Spec /\ WF_vars(Send)

-----------------------------------------------------------------------------
(* Properties. *)

(***************************************************************************)
(* Types; in particular what is sent fits: the ranges of the three         *)
(* coordinates touch neither each other in the header nor the operation in *)
(* its two upper bits, and the code leaves the sign of its byte alone.     *)
(***************************************************************************)
FieldsFit(d) ==
  /\ Header(d) \in UPD_OBJ .. UPD_OBJ + 63
  /\ \A a \in Axis : Encode(d[a]) \in [range : 0..3, byte : 0..255]

TypeOK ==
  /\ place \in [Axis -> Places]
  /\ pos \in [Axis -> Int] /\ cache \in [Axis -> Int] /\ shown \in [Axis -> Int]
  /\ backlog \in [Axis -> Nat] /\ moves \in 0..MaxMoves
  /\ FieldsFit(Apart)

(***************************************************************************)
(* An object is added at most 1/128 from where it is, and at the edge of   *)
(* what 16 bits can say if it is beyond, never on the other side.          *)
(***************************************************************************)
AddedClose ==
  \A a \in Axis :
    LET p == place[a]
    IN  IF Magnitude(p) <= 511 * 1024
          THEN Magnitude(OnGrid(p) - p) <= Grain \div 2
          ELSE Magnitude(OnGrid(p)) = 511 * 1024 /\ (OnGrid(p) < 0 <=> p < 0)

(***************************************************************************)
(* What the client decodes from the shared header and the three bytes is   *)
(* what the encoder has added to the cache: errors do not add up           *)
(* (bitmagic.hpp:27-92).                                                   *)
(***************************************************************************)
SamePose == shown = cache

(***************************************************************************)
(* What both ends hold of a position: in its range, near it when it is     *)
(* added, and the same ever after.                                         *)
(***************************************************************************)
PositionKept == TypeOK /\ AddedClose /\ SamePose

(***************************************************************************)
(* A message never makes a coordinate worse: the shown pose comes closer   *)
(* to the object, or stays within half a step of the finest range.         *)
(***************************************************************************)
HalfStep == Step(0) \div 2

NeverWorse ==
  [][Send => \A a \in Axis :
       LET before == Magnitude(Apart[a])
           after  == Magnitude(pos[a] - cache'[a])
       IN  after < before \/ after <= HalfStep]_vars

(***************************************************************************)
(* The shown pose lags no further behind than the offset of the last range *)
(* and what the clamp has kept back: a message brings at most Reach, 4.1   *)
(* units, of what a fast object makes (bitmagic.hpp:29-51).  So an object  *)
(* that makes less per message is shown within 3.5 units after each; the   *)
(* lag of a faster one grows, but goes at 4.1 units a message when it      *)
(* slows down.                                                             *)
(***************************************************************************)
LagBounded ==
  \A a \in Axis : Magnitude(Apart[a]) <= 7 * (Unit \div 2) + backlog[a]

(***************************************************************************)
(* An object at rest, asleep or not, is shown within half a step in the end. *)
(***************************************************************************)
Settles == <>[](\A a \in Axis : Magnitude(pos[a] - shown[a]) <= HalfStep)
=============================================================================
