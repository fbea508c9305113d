---------------------------- MODULE ClientInput ----------------------------
(***************************************************************************)
(* From the keyboard to Player::input: the key callbacks of the GUI client *)
(* (gl/base.cpp, client/gui.cpp) set flags and the keys it believes held;  *)
(* what is sent, on a key and after every frame, replaces the input of the *)
(* server's handle (server-tick.cpp:10-22).                                *)
(*                                                                         *)
(* Escape switches between playing and roaming with a camera of one's own. *)
(* GLUT reports a letter as the character it would type, so the same key   *)
(* may go down as `w' and come up as `W'.                                  *)
(***************************************************************************)
EXTENDS Naturals, Sequences

CONSTANTS
  Letters, Others,  \* keys reported as characters, with and without case
  Arrows,           \* special keys
  Esc,              \* Escape, which sets no flag
  FlagOf,           \* the flag of PlayerInput each key sets: one character key per flag
  MaxEvents,        \* bound: what the player does
  MaxWire           \* bound: messages under way

CharKeys == Letters \cup Others \cup {Esc}

(* What the proofs need of them; the module of the run assumes it.         *)
KeysConstants ==
  /\ Letters \cap Others = {} /\ CharKeys \cap Arrows = {}
  /\ Esc \notin Letters \cup Others
  /\ \A k, l \in CharKeys \ {Esc} : FlagOf[k] = FlagOf[l] => k = l
  /\ MaxEvents \in Nat /\ MaxWire \in Nat

FlagsOf(some) == {FlagOf[k] : k \in some \ {Esc}}

Flags == FlagsOf(CharKeys \cup Arrows)

VARIABLES
  pressed,   \* the keys that are really down
  shift,     \* whether shift is
  downKeys,  \* BaseRenderer::downKeys, [key, upper]
  roam,      \* GUIClient::roam
  input,     \* GUIClient::input, the flags that are set
  wire,      \* inputs on their way
  server,    \* Player::input
  events,    \* key events so far (bounded)
  loose,     \* flags whose keys were used in a way the client cannot follow
  shifted    \* letters that were down while shift changed

vars == <<pressed, shift, downKeys, roam, input, wire, server, events, loose, shifted>>

BugCode(k) == [key |-> k, upper |-> shift]   \* whatever the key

Code(k) == [key |-> k, upper |-> k \in Letters /\ shift]

TypeOK ==
  /\ pressed \subseteq CharKeys \cup Arrows /\ shift \in BOOLEAN
  /\ downKeys \subseteq
       [key : Letters, upper : BOOLEAN]
       \cup [key : CharKeys \ Letters, upper : {FALSE}]
  /\ roam \in BOOLEAN /\ input \subseteq Flags /\ server \subseteq Flags
  /\ wire \in Seq(SUBSET Flags) /\ Len(wire) <= MaxWire
  /\ events \in 0..MaxEvents /\ loose \subseteq Flags
  /\ shifted \subseteq Letters

Init ==
  /\ pressed = {} /\ shift = FALSE /\ downKeys = {} /\ roam = FALSE
  /\ input = {} /\ wire = <<>> /\ server = {}
  /\ events = 0 /\ loose = {} /\ shifted = {}

-----------------------------------------------------------------------------
(* The render thread; every event is one of MaxEvents. *)

Event == events < MaxEvents /\ events' = events + 1

Send(i) == Len(wire) < MaxWire /\ wire' = Append(wire, i)

(* Also repeated while the key is down.                                    *)
KeyDown(k) ==
  /\ Event
  /\ pressed' = pressed \cup {k}
  /\ downKeys' = downKeys \cup {Code(k)}
  /\ input' = (IF roam THEN input ELSE input \cup FlagsOf({k}))
  /\ Send(input')
  /\ UNCHANGED <<shift, roam, server, loose, shifted>>

BugCleared(k) == input               \* onKeyUp does nothing, as for arrows

Cleared(k) == IF roam THEN input ELSE input \ FlagsOf({k})

BugForget(k) == downKeys             \* downKeys only grows

Forget(k) == downKeys \ {Code(k)}

KeyUp(k) ==
  /\ Event /\ k \in pressed
  /\ pressed' = pressed \ {k}
  /\ downKeys' = Forget(k)
  /\ input' = Cleared(k)
  /\ loose' = (IF roam THEN loose ELSE loose \ FlagsOf({k}))
  /\ UNCHANGED <<shift, roam, wire, server, shifted>>

SpecialKeyDown(a) ==
  /\ Event
  /\ pressed' = pressed \cup {a}
  /\ input' = input \cup {FlagOf[a]}
  /\ Send(input')
  /\ loose' = loose \cup {FlagOf[a]}
  /\ UNCHANGED <<shift, downKeys, roam, server, shifted>>

SpecialKeyUp(a) ==
  /\ Event /\ a \in pressed
  /\ pressed' = pressed \ {a}
  /\ UNCHANGED <<shift, downKeys, roam, input, wire, server, loose, shifted>>

(* Escape comes up.  It goes down like any other key.                      *)
Escape ==
  /\ Event /\ Esc \in pressed
  /\ pressed' = pressed \ {Esc}
  /\ downKeys' = Forget(Esc)
  /\ roam' = ~ roam
  /\ loose' = loose \cup FlagsOf(pressed)
  /\ UNCHANGED <<shift, input, wire, server, shifted>>

Shift ==
  /\ Event
  /\ shift' = ~ shift
  /\ shifted' = shifted \cup (pressed \cap Letters)
  /\ UNCHANGED <<pressed, downKeys, roam, input, wire, server, loose>>

BugFrame == UNCHANGED wire           \* only keys that go down are sent

Frame == Send(input)

PostRender ==
  /\ Frame
  /\ UNCHANGED <<pressed, shift, downKeys, roam, input, server, events, loose, shifted>>

-----------------------------------------------------------------------------
(* The server. *)

OnData ==
  /\ wire # <<>>
  /\ server' = Head(wire) /\ wire' = Tail(wire)
  /\ UNCHANGED <<pressed, shift, downKeys, roam, input, events, loose, shifted>>

Next ==
  \/ \E k \in CharKeys : KeyDown(k)
  \/ \E k \in CharKeys \ {Esc} : KeyUp(k)
  \/ \E a \in Arrows : SpecialKeyDown(a) \/ SpecialKeyUp(a)
  \/ Escape \/ Shift \/ PostRender \/ OnData

Spec == Init /\ [][Next]_vars

(* Frames are drawn and messages delivered; nobody has to press a key.     *)
FairSpec == Spec /\ WF_vars(PostRender) /\ WF_vars(OnData)

-----------------------------------------------------------------------------
(* Properties. *)

(***************************************************************************)
(* A player moves as long as a key is held and stops with it, unless an    *)
(* arrow was used, which nothing clears, or the client went roaming or     *)
(* came back with the key down (gui.cpp:144-208).                          *)
(***************************************************************************)
FollowsKeys ==
  \/ roam
  \/ input \ loose = FlagsOf(pressed \cap CharKeys) \ loose

(***************************************************************************)
(* The roaming camera is moved by the keys that are held (gl/base.cpp:     *)
(* 57-65, 141-143), but for letters that were down while shift changed:    *)
(* what such a key put in downKeys may stay there.                         *)
(***************************************************************************)
CameraFollowsKeys ==
  {c.key : c \in downKeys} \ shifted = (pressed \cap CharKeys) \ shifted

(***************************************************************************)
(* In the end the server has the keys as they are, those that only came up *)
(* included, though no key that comes up sends anything (gui.cpp:117-119). *)
(***************************************************************************)
ServerAgrees == <>[](server = input)
=============================================================================
