------------------------------ MODULE MCTicks ------------------------------
(***************************************************************************)
(* What the server's tick does for a player, and when: the timer, the      *)
(* player's motion, the input that drives it and the locks of a tick.  The *)
(* four share no state in the models, so a behaviour runs the one that     *)
(* `part' names and leaves the others in their initial states.             *)
(***************************************************************************)
EXTENDS TickTimer, Sequences

CONSTANTS
  JumpSpeed, Gravity, Dts, Floors, SpawnHeight, Headings, MaxWait, MaxAir,
  Letters, Others, Arrows, Esc, FlagOf, MaxEvents, MaxWire,
  Conns, Free

VARIABLES
  part,
  stage, input, ground, vy, heading, air, y, from,
  pressed, shift, downKeys, roam, keys, wire, server, events, loose, shifted,
  code, owner, readers, joined

motionVars == <<stage, input, ground, vy, heading, air, y, from>>
keysVars == <<pressed, shift, downKeys, roam, keys, wire, server, events, loose, shifted>>
locksVars == <<code, owner, readers, joined>>

Motion == INSTANCE PlayerMotion
Keys   == INSTANCE ClientInput WITH input <- keys
Locks  == INSTANCE SceneLocks

ASSUME MotionAssumption == Motion!MotionConstants
ASSUME KeysAssumption == Keys!KeysConstants
ASSUME LocksAssumption == Locks!LocksConstants

(* A player that is not moved has one input. *)
PartsInit ==
  /\ part \in {"timer", "motion", "keys", "locks"}
  /\ Init /\ Motion!Init /\ Keys!Init /\ Locks!Init
  /\ part # "motion" => heading = "none" /\ input = [jump |-> FALSE, heading |-> "none"]

PartsNext ==
  \/ /\ part = "timer" /\ Next
     /\ UNCHANGED <<part, motionVars, keysVars, locksVars>>
  \/ /\ part = "motion" /\ Motion!Next
     /\ UNCHANGED <<part, vars, keysVars, locksVars>>
  \/ /\ part = "keys" /\ Keys!Next
     /\ UNCHANGED <<part, vars, motionVars, locksVars>>
  \/ /\ part = "locks" /\ Locks!Next
     /\ UNCHANGED <<part, vars, motionVars, keysVars>>

PartsSpec == PartsInit /\ [][PartsNext]_<<part, vars, motionVars, keysVars, locksVars>>

(* The fairness of each part's FairSpec, while it is the one that runs. *)
TimerRuns == WF_vars(part = "timer" /\ InTime)

MotionRuns ==
  /\ WF_motionVars(part = "motion" /\ Motion!Listed)
  /\ WF_motionVars(part = "motion" /\ Motion!Play)

KeysRun ==
  /\ WF_keysVars(part = "keys" /\ Keys!PostRender)
  /\ WF_keysVars(part = "keys" /\ Keys!OnData)

LocksRun ==
  /\ WF_locksVars(part = "locks" /\ Locks!StartTick)
  /\ \A t \in Locks!Threads :
       /\ WF_locksVars(part = "locks" /\ Locks!Proceed(t))
       /\ WF_locksVars(part = "locks" /\ Locks!Loop(t))
       /\ WF_locksVars(part = "locks" /\ Locks!Drain(t))
       /\ SF_locksVars(part = "locks" /\ Locks!Lock(t))
       /\ SF_locksVars(part = "locks" /\ Locks!Enter(t))

FairPartsSpec == PartsSpec /\ TimerRuns /\ MotionRuns /\ KeysRun /\ LocksRun

-----------------------------------------------------------------------------
(***************************************************************************)
(* Two ticks are never closer than half an interval less a millisecond,    *)
(* and no net interval is skipped for good after the loop was held up      *)
(* (game.cpp:24-64).                                                       *)
(***************************************************************************)
KeepsTime == TicksApart /\ CatchesUp

(***************************************************************************)
(* A player that stands has no leftovers of a jump or a fall, and no jump  *)
(* goes higher than its speed allows (world.cpp:192-231).                  *)
(***************************************************************************)
MotionRight == Motion!TypeOK /\ Motion!StandsAtRest /\ Motion!JumpBounded

(***************************************************************************)
(* Input flags and camera follow the keys that are held, in whatever order *)
(* they go down and up, with the exceptions that ClientInput names         *)
(* (gui.cpp:144-208).                                                      *)
(***************************************************************************)
KeysRight == Keys!TypeOK /\ Keys!FollowsKeys /\ Keys!CameraFollowsKeys

(***************************************************************************)
(* No order of the tick, the renderer and MsQuic's callbacks leaves anyone *)
(* waiting for itself, and all but the three known pairs of accesses share *)
(* a lock (world.cpp:265-329, quic/server.cpp:297, 303).                   *)
(***************************************************************************)
LocksRight == Locks!TypeOK /\ Locks!NobodyStuck /\ Locks!OnlyKnownRaces

(***************************************************************************)
(* What a player does reaches it: in the air it keeps heading and speed    *)
(* and it lands again, and the server comes to have the flags of the keys. *)
(***************************************************************************)
PlayersServed == Motion!Ballistic /\ Motion!Lands /\ Keys!ServerAgrees

(***************************************************************************)
(* The tick and every callback get the locks they wait for.                *)
(***************************************************************************)
LocksGo == Locks!TickGoesOn /\ Locks!CallbacksEnd

-----------------------------------------------------------------------------
(* Floors for a jump of four rising ticks, and two keys for one flag.      *)
TheDts == {1, 2}
TheFloors == {0, 4}
TheHeadings == {"none", "north"}

TheFlagOf ==
  [k \in {"w", "space", "up"} |-> IF k = "space" THEN "jump" ELSE "movF"]
=============================================================================
