------------------------------ MODULE MCPoses ------------------------------
(***************************************************************************)
(* A pose on its way from the actor to the screen: the position's codec    *)
(* and the cache it is a difference to, the rotation's codec, and the      *)
(* interpolation between two messages.  The three share no state in the    *)
(* models, so a behaviour runs the one that `part' names and leaves the    *)
(* others in their initial states.                                         *)
(***************************************************************************)
EXTENDS DeltaTracking, Sequences

CONSTANTS
  Norm,
  Objects, Players, Window, Stride, MaxPackets, MaxTime,
  o1, p1    \* an object and a player

(* Distances around every boundary of the codec: nothing, the rounding     *)
(* boundary, both ends of each range, the clamp, and what a launched cube  *)
(* makes in five or six ticks.                                             *)
Half == Unit \div 2

Distances == <<0, 1, HalfStep - 1, HalfStep, HalfStep + 1, 3 * HalfStep,
               Half - 1, Half, 3 * Half - 1, 3 * Half, 7 * Half - 1, 7 * Half,
               8 * Half, 15 * Half, 28 * Half>>

(* The three coordinates take the list at different paces and both signs.  *)
TheMoves ==
  {[x |-> Distances[i], y |-> - Distances[((4 * i) % 15) + 1],
    z |-> Distances[((7 * i) % 15) + 1] * (1 - 2 * (i % 2))] : i \in 1..15}

(* Near the middle, at both edges of what 16 bits can say, and beyond.     *)
ThePlaces == {-520 * 1024, -512 * 1024, -7, 0, 9, 511 * 1024 - 8, 520 * 1024}

Corners ==
  {[x |-> -520 * 1024, y |-> 511 * 1024 - 8, z |-> -7],
   [x |-> 9, y |-> -512 * 1024, z |-> 520 * 1024]}

TheObjects == {o1}
ThePlayers == {p1}

-----------------------------------------------------------------------------
VARIABLES
  part,
  pose, code,
  now, stamp, things, worker, render, seen, lerp, drawn, packets, decoded, frame,
  mixed

rotationVars == <<pose, code>>
viewVars == <<now, stamp, things, worker, render, seen, lerp, drawn, packets,
              decoded, frame, mixed>>

Rotation == INSTANCE RotationCodec
View     == INSTANCE ClientView

ASSUME RotationAssumption == Rotation!RotationConstants

ASSUME ViewAssumption == View!ViewConstants

(* Where an object is that is only turned or drawn, and how it lies there. *)
PartsInit ==
  /\ part \in {"position", "rotation", "view"}
  /\ place \in IF part = "position" THEN Corners ELSE {[a \in Axis |-> 0]}
  /\ pose \in IF part = "rotation" THEN Rotation!Rotations ELSE {<<0, 0, 0, Norm>>}
  /\ Init /\ Rotation!Init /\ View!Init

PartsNext ==
  \/ part = "position" /\ Next /\ UNCHANGED <<part, rotationVars, viewVars>>
  \/ part = "rotation" /\ Rotation!Next /\ UNCHANGED <<part, vars, viewVars>>
  \/ part = "view" /\ View!Next /\ UNCHANGED <<part, vars, rotationVars>>

PartsSpec == PartsInit /\ [][PartsNext]_<<part, vars, rotationVars, viewVars>>

(* The fairness of each part's FairSpec, while it is the one that runs. *)
PositionRuns == WF_vars(part = "position" /\ Send)

ViewRuns ==
  /\ WF_viewVars(part = "view" /\ View!Tick)
  /\ WF_viewVars(part = "view" /\ View!Render)
  /\ WF_viewVars(part = "view" /\ View!Decode)

FairPartsSpec == PartsSpec /\ PositionRuns /\ ViewRuns

-----------------------------------------------------------------------------
(***************************************************************************)
(* The rotation that is decoded is the one that was encoded, to a          *)
(* rounding, and equal rotations have equal codes (bitmagic.hpp). An idle  *)
(* rotation is not looked at over and over.                                *)
(***************************************************************************)
RotationRight ==
  part = "rotation" => Rotation!TypeOK /\ Rotation!Faithful /\ Rotation!OneCode

(***************************************************************************)
(* Nothing is drawn ahead of what the server has said, not even by a frame *)
(* whose lerp is from another message (gui.hpp:85-91).                     *)
(***************************************************************************)
NeverAhead == View!TypeOK /\ View!NeverAhead

(***************************************************************************)
(* Things that move forward are drawn moving forward, unless a frame took  *)
(* its lerp from another message than its poses (gui.cpp:30-46).           *)
(***************************************************************************)
SmoothUnlessMixed == View!SmoothUnlessMixed

(***************************************************************************)
(* Once an object stays where it is, the client comes as close to it as    *)
(* the codec can, and the screen comes to what the client has              *)
(* (server-tick.cpp:87-124, bitmagic.hpp:27-92, gui.hpp:86-91).            *)
(***************************************************************************)
PosesSettle == Settles /\ View!Settles
=============================================================================
