----------------------------- MODULE ClientView -----------------------------
(***************************************************************************)
(* What a client shows (client/gui.cpp, client/gui.hpp, client/base.hpp):  *)
(* the QUIC thread stamps a message when it arrives and decodes it under   *)
(* the mutex m (client-tick.cpp); the render thread takes the time since   *)
(* the stamp, without m, and then draws objects and players, each under m, *)
(* between the pose they had and the pose they got.                        *)
(*                                                                         *)
(* A pose is a number on the line the thing moves along, always forward.   *)
(* Time is counted in units of 200 ms / Window.                            *)
(***************************************************************************)
EXTENDS Integers

CONSTANTS
  Objects, Players, \* the things the server sends, disjoint sets
  Window,           \* the units over which a pose is interpolated
  Stride,           \* how far a message moves a thing
  MaxPackets,       \* bound: messages
  MaxTime           \* bound: the clock

(* What the proofs need of them; the module of the run assumes it.         *)
ViewConstants == Window \in Nat \ {0} /\ Stride \in Nat /\ MaxPackets \in Nat /\ MaxTime \in Nat

VARIABLES
  now,      \* uv_hrtime
  stamp,    \* last_packet; -1 before it is first written
  things,   \* the drawn things, [prev, net, curr, asleep]
  worker,   \* the QUIC thread: "idle", or "decode" once it has the stamp
  render,   \* the render thread: "idle", "read", "objects", "players"
  seen,     \* last_packet as render() has read it
  lerp,     \* in 1/Window
  drawn,    \* the pose each thing was last drawn with
  packets,  \* messages stamped (bounded, and the number of the last one)
  decoded,  \* the message the things are from
  frame,    \* the message the frame's lerp is from
  mixed     \* something was drawn with another message's lerp since `decoded'

vars == <<now, stamp, things, worker, render, seen, lerp, drawn,
          packets, decoded, frame, mixed>>

Things == Objects \cup Players

None == [prev |-> -1, net |-> -1, curr |-> -1, asleep |-> FALSE]

Present(t) == things[t] # None

TypeOK ==
  /\ now \in 0..MaxTime /\ stamp \in -1..MaxTime /\ seen \in -1..MaxTime
  /\ \A t \in Things :
       things[t] \in [prev : Int, net : Int, curr : Int, asleep : BOOLEAN]
  /\ worker \in {"idle", "decode"}
  /\ render \in {"idle", "read", "objects", "players"}
  /\ lerp \in 0..Window /\ drawn \in [Things -> Int]
  /\ packets \in 0..MaxPackets /\ decoded \in 0..packets /\ frame \in 0..packets
  /\ mixed \in BOOLEAN

Init ==
  /\ now = 0 /\ stamp = -1 /\ seen = -1 /\ lerp = 0
  /\ things = [t \in Things |-> None] /\ drawn = [t \in Things |-> -1]
  /\ worker = "idle" /\ render = "idle"
  /\ packets = 0 /\ decoded = 0 /\ frame = 0 /\ mixed = FALSE

-----------------------------------------------------------------------------
(* The QUIC thread. *)

OnAdd(pos) == [prev |-> pos, net |-> pos, curr |-> pos, asleep |-> FALSE]

BugOnUpdate(r, pos) == [r EXCEPT !.net = pos]  \* prevPos is forgotten

OnUpdate(r, pos) == [r EXCEPT !.prev = r.curr, !.net = pos]

(* What one message may do to a thing: nothing while it sleeps, or a new   *)
(* pose, with which an object may also fall asleep or wake up; objects are *)
(* removed, players never.                                                 *)
Updates(t) ==
  LET r == things[t]
      next == {OnUpdate(r, r.net + d) : d \in {0, Stride}}
  IN  IF ~ Present(t) THEN {None, OnAdd(0)}
      ELSE IF t \in Players THEN next
      ELSE {None} \cup
           (IF r.asleep THEN {r} \cup {[u EXCEPT !.asleep = FALSE] : u \in next}
                        ELSE next \cup {[u EXCEPT !.asleep = TRUE] : u \in next})

(* onData: the stamp, before m is taken.                                   *)
Stamp ==
  /\ worker = "idle" /\ packets < MaxPackets /\ now + Window < MaxTime
  /\ worker' = "decode"
  /\ stamp' = now /\ packets' = packets + 1
  /\ UNCHANGED <<now, things, render, seen, lerp, drawn, decoded, frame, mixed>>

(* The rest of onData, under m.                                            *)
Decode ==
  /\ worker = "decode"
  /\ worker' = "idle"
  /\ things' \in {f \in [Things -> UNION {Updates(t) : t \in Things}] :
                    \A t \in Things : f[t] \in Updates(t)}
  /\ drawn' = [t \in Things |-> IF Present(t) THEN drawn[t] ELSE -1]
  /\ decoded' = packets /\ mixed' = FALSE
  /\ UNCHANGED <<now, stamp, render, seen, lerp, packets, frame>>

-----------------------------------------------------------------------------
(* The render thread. *)

(* lastPacketTime(), without m.                                            *)
ReadStamp ==
  /\ render = "idle" /\ render' = "read"
  /\ seen' = stamp /\ frame' = packets
  /\ UNCHANGED <<now, stamp, things, worker, lerp, drawn, packets, decoded, mixed>>

BugLerp(since) == since                \* without min(lerp, 1.f)

Lerp(since) == IF since < Window THEN since ELSE Window

(* uv_hrtime(), so never before the stamp; anything if there was no stamp. *)
ReadTime ==
  /\ render = "read" /\ render' = "objects"
  /\ IF seen = -1 THEN lerp' \in 0..Window ELSE lerp' = Lerp(now - seen)
  /\ UNCHANGED <<now, stamp, things, worker, seen, drawn, packets, decoded, frame,
                 mixed>>

BugPose(r) ==                          \* asleep where it was, not where it is
  IF r.asleep THEN r.curr ELSE r.prev + ((r.net - r.prev) * lerp) \div Window

Pose(r) ==
  IF r.asleep THEN r.net ELSE r.prev + ((r.net - r.prev) * lerp) \div Window

(* update and render for one kind of thing, in syncObj or in syncPlayer.   *)
Draw(kind, from, to) ==
  /\ render = from /\ render' = to
  /\ LET shown == {t \in kind : Present(t)} IN
       /\ things' = [t \in Things |->
                       IF t \in shown THEN [things[t] EXCEPT !.curr = Pose(things[t])]
                                      ELSE things[t]]
       /\ drawn' = [t \in Things |->
                       IF t \in shown THEN Pose(things[t]) ELSE drawn[t]]
  /\ mixed' = (mixed \/ frame # decoded)
  /\ UNCHANGED <<now, stamp, worker, seen, lerp, packets, decoded, frame>>

DrawObjects == Draw(Objects, "objects", "players")

DrawPlayers == Draw(Players, "players", "idle")

Tick ==
  /\ now < MaxTime /\ now' = now + 1
  /\ UNCHANGED <<stamp, things, worker, render, seen, lerp, drawn, packets,
                 decoded, frame, mixed>>

Render == ReadStamp \/ ReadTime \/ DrawObjects \/ DrawPlayers

Next == Stamp \/ Decode \/ Render \/ Tick

Spec == Init /\ [][Next]_vars

(* Time passes, the render loop goes on, and a message being decoded is.   *)
FairSpec ==
  Spec /\ WF_vars(Tick) /\ WF_vars(Render) /\ WF_vars(Decode)

-----------------------------------------------------------------------------
(* Properties. *)

(***************************************************************************)
(* Nothing is drawn ahead of what the server has said (gui.hpp:85-91): not *)
(* even by a frame whose lerp is from another message.                     *)
(***************************************************************************)
NeverAhead ==
  \A t \in Things : Present(t) =>
    /\ things[t].prev <= things[t].curr /\ things[t].curr <= things[t].net
    /\ drawn[t] <= things[t].net

(***************************************************************************)
(* Things that move forward are drawn moving forward, from one frame to    *)
(* the next and from one message to the next, unless since the last        *)
(* message a frame took its lerp from another (gui.cpp:30-46): that race,  *)
(* which gui.hpp:85 means to prevent, is the only cause of things jumping  *)
(* back, and the next message ends it.                                     *)
(***************************************************************************)
SmoothUnlessMixed ==
  [][render' # render /\ ~ mixed' => \A t \in Things : drawn'[t] >= drawn[t]]_vars

(***************************************************************************)
(* When messages stop, everything is drawn where the last one put it       *)
(* (gui.hpp:86-91).                                                        *)
(***************************************************************************)
Settles ==
  <>[](\A t \in Things : Present(t) => drawn[t] = things[t].net)
=============================================================================
