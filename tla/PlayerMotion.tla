---------------------------- MODULE PlayerMotion ----------------------------
(***************************************************************************)
(* How one player moves (World::spawn and World::updatePlayers, and the    *)
(* input its handle receives): on the ground it may jump and takes its     *)
(* heading from the input; in the air it keeps its heading and falls.      *)
(* Gravity is counted in ticks since lastGroundTick, the way covered in    *)
(* the real time since the last tick, however late that is.                *)
(*                                                                         *)
(* Heights and speeds are integers; PhysX's controller stops at a floor    *)
(* below or a ceiling above that moves.                                    *)
(***************************************************************************)
EXTENDS Integers

CONSTANTS
  JumpSpeed,   \* 15.f
  Gravity,     \* (1.f / 15) * 9.81f, per tick
  Dts,         \* the times between two ticks
  Floors,      \* heights on which the controller may come to stand
  SpawnHeight, \* desc.position.y
  Headings,    \* what the movement keys and dir may say
  MaxWait,     \* bound: ticks while spawn runs
  MaxAir       \* bound: ticks in the air; no player of the runs comes near it

(* What the proofs need of them; the module of the run assumes it.         *)
MotionConstants ==
  /\ JumpSpeed \in Nat /\ Gravity \in Nat \ {0}
  /\ Dts \subseteq Nat /\ \E d \in Dts : \A e \in Dts : e <= d
  /\ Floors \subseteq Nat /\ SpawnHeight \in Nat
  /\ MaxWait \in Nat /\ MaxAir \in Nat

VARIABLES
  stage,   \* of the player: "spawning" (its state is set), "playing"
  input,   \* Player::input, [jump, heading]
  ground,  \* state.ground
  vy,      \* state.velocity.y
  heading, \* state.velocity.x and z
  air,     \* tick - state.lastGroundTick
  y,       \* state.position.y
  from     \* where the player last stood or was spawned

vars == <<stage, input, ground, vy, heading, air, y, from>>

Inputs == [jump : BOOLEAN, heading : Headings]

TypeOK ==
  /\ stage \in {"spawning", "playing"} /\ input \in Inputs
  /\ ground \in BOOLEAN /\ vy \in {0, JumpSpeed} /\ heading \in Headings
  /\ air \in Nat /\ y \in Nat /\ from \in Nat

(* spawn on the connection's thread: tick is read, the player not listed.  *)
Init ==
  /\ stage = "spawning" /\ input \in Inputs
  /\ ground = FALSE /\ vy = 0 /\ heading \in Headings
  /\ air = 0 /\ y = SpawnHeight /\ from = SpawnHeight

(* The tick's step, before spawn has come to players.push_back.            *)
Wait ==
  /\ stage = "spawning" /\ air < MaxWait
  /\ air' = air + 1
  /\ UNCHANGED <<stage, input, ground, vy, heading, y, from>>

Listed ==
  /\ stage = "spawning" /\ stage' = "playing"
  /\ UNCHANGED <<input, ground, vy, heading, air, y, from>>

(* onData; a message that is too short leaves the input as it is.          *)
OnData(i) ==
  /\ input' = i
  /\ UNCHANGED <<stage, ground, vy, heading, air, y, from>>

-----------------------------------------------------------------------------
BugJumped == IF input.jump THEN vy + JumpSpeed ELSE vy  \* in the air, too

(* A jump only from the ground, and once.                                  *)
Jumped == IF input.jump /\ ground /\ vy = 0 THEN JumpSpeed ELSE vy

BugFallV == 0                          \* without gravity

FallV == - (air * Gravity)

BugAfter == air + 1                    \* lastGroundTick is left alone

(* lastGroundTick = tick, and then step counts the tick.                   *)
AfterLanding == 1

(* updatePlayers and the step after it.                                    *)
Update(dt, floor, blocked) ==
  LET to   == y + (Jumped + FallV) * dt
      down == to <= floor
  IN  /\ stage = "playing" /\ floor <= y /\ air < MaxAir
      /\ blocked => to > y
      /\ heading' = (IF ground THEN input.heading ELSE heading)
      /\ y' = (IF down THEN floor ELSE IF blocked THEN y ELSE to)
      /\ ground' = down
      /\ vy' = (IF down THEN 0 ELSE Jumped)
      /\ air' = (IF down THEN AfterLanding ELSE air + 1)
      /\ from' = (IF down \/ ground THEN IF down THEN floor ELSE y ELSE from)
      /\ UNCHANGED <<stage, input>>

Play == \E dt \in Dts, floor \in Floors, blocked \in BOOLEAN :
          Update(dt, floor, blocked)

Next == Wait \/ Listed \/ Play \/ (\E i \in Inputs : OnData(i))

Spec == Init /\ [][Next]_vars

(* The server ticks, and the handshake goes on.                            *)
FairSpec == Spec /\ WF_vars(Listed) /\ WF_vars(Play)

-----------------------------------------------------------------------------
(* Properties. *)

(***************************************************************************)
(* Gravity does not build up while a player stands, so that it neither     *)
(* drops like a stone from the first edge nor jumps short: on the ground   *)
(* the last landing is one tick ago and nothing is left of a jump          *)
(* (world.cpp:202-231).                                                    *)
(***************************************************************************)
StandsAtRest == ground => air = 1 /\ vy = 0

(***************************************************************************)
(* Who is in the air keeps heading and speed until it lands, whatever      *)
(* inputs arrive: no second jump, not even after walking off an edge       *)
(* (world.cpp:192-217).                                                    *)
(***************************************************************************)
Ballistic ==
  [][~ ground /\ ~ ground' => heading' = heading /\ vy' = vy]_vars

(***************************************************************************)
(* A jump goes as high as the rising ticks take it in the longest time     *)
(* between two ticks; input sent at any time in the air adds nothing.      *)
(***************************************************************************)
LongestDt == CHOOSE d \in Dts : \A e \in Dts : e <= d

Rise(n) == JumpSpeed * n - (Gravity * n * (n + 1)) \div 2

JumpBounded == y <= from + LongestDt * Rise(JumpSpeed \div Gravity)

(***************************************************************************)
(* A player that is in the air lands again.                                *)
(***************************************************************************)
Lands == (stage = "playing") ~> ground
=============================================================================
