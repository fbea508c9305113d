---------------------------- MODULE WorldMirror ----------------------------
(***************************************************************************)
(* What replication promises a client: the objects it shows are those of   *)
(* the server's world at some net tick, the next message takes it to the   *)
(* next such picture, and no picture is skipped, repeated or mixed with    *)
(* another, until the connection breaks.                                   *)
(***************************************************************************)
EXTENDS Integers, Sequences

VARIABLES
  world,     \* the objects of the server's world
  coming,    \* the pictures on their way: sets of records with a field obj
  shown      \* the picture the client shows

vars == <<world, coming, shown>>

ObjectsOf(p) == {r.obj : r \in p}

Init == coming = <<>> /\ shown = {}

(* Objects come and go between two net ticks. *)
Evolve == UNCHANGED <<coming, shown>>

(* A net tick: a picture of all the objects there are. *)
Publish ==
  /\ coming' # <<>>
  /\ LET new == coming'[Len(coming')]
     IN  ObjectsOf(new) = world /\ coming' = Append(coming, new)
  /\ UNCHANGED <<world, shown>>

Show ==
  /\ coming # <<>>
  /\ shown' = Head(coming) /\ coming' = Tail(coming)
  /\ UNCHANGED world

Disconnect == coming' = <<>> /\ UNCHANGED <<world, shown>>

Next == Evolve \/ Publish \/ Show \/ Disconnect

Spec == Init /\ [][Next]_vars
=============================================================================
