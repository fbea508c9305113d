--------------------------- MODULE RotationCodec ---------------------------
(***************************************************************************)
(* quat_sm3_encode and quat_sm3_decode (network/util/bitmagic.hpp): of a   *)
(* unit quaternion the largest component is left out, made positive by the *)
(* signs of the others, and computed from them by the receiver.            *)
(*                                                                         *)
(* A quaternion is four integers whose squares add up to Norm * Norm; what *)
(* is decoded is in units of 1 / m_encode, the largest component known by  *)
(* its square.  m_encode is c times the square root of 2.                  *)
(***************************************************************************)
EXTENDS Integers

CONSTANT Norm  \* of the rotations tried: integers over Norm

(* What the proofs need of it; the module of the run assumes it.           *)
RotationConstants == Norm \in Nat \ {0}

c == 511

Unit2 == 2 * c * c                      \* m_encode squared

Parts == 1..4                           \* x, y, z, w

Square(n) == n * n

Magnitude(n) == IF n < 0 THEN - n ELSE n

Rotations ==
  {q \in [Parts -> - Norm .. Norm] :
     Square(q[1]) + Square(q[2]) + Square(q[3]) + Square(q[4]) = Square(Norm)}

-----------------------------------------------------------------------------
BugIndex(q) == 1                        \* maxV is not looked at

(* The first of the largest components.                                    *)
Index(q) ==
  CHOOSE i \in Parts :
    /\ \A j \in Parts : Magnitude(q[j]) <= Magnitude(q[i])
    /\ \A j \in 1..i - 1 : Magnitude(q[j]) < Magnitude(q[i])

(* n1, n2, n3: the other parts, in order.                                  *)
Other(index, k) == IF k < index THEN k ELSE k + 1

(* roundf(m_encode * fabsf(f)), which does not exceed c but for the        *)
(* largest component.                                                      *)
Rounds(r, n) ==
  /\ r = 0 \/ Square(2 * r - 1) * Square(Norm) <= 4 * Unit2 * Square(n)
  /\ Square(2 * r + 1) * Square(Norm) > 4 * Unit2 * Square(n)

Truc(n) == CHOOSE r \in 0..2 * c : Rounds(r, n)

BugFlip(q) == FALSE                     \* q and - q in different codes

Flip(q) == q[Index(q)] <= 0

(* The 32 bits: index, and three signs and values.                         *)
Encode(q) ==
  LET Sent(k) == IF Flip(q) THEN - q[Other(Index(q), k)] ELSE q[Other(Index(q), k)]
  IN  [index |-> Index(q) - 1,
       signs |-> [k \in 1..3 |-> IF Sent(k) < 0 THEN 1 ELSE 0],
       values |-> [k \in 1..3 |-> Truc(Sent(k)) % (c + 1)]]

Rest(code) ==
  Unit2 - Square(code.values[1]) - Square(code.values[2]) - Square(code.values[3])

BugSlot(index, i) == IF i = 4 THEN 3 ELSE i  \* as for w, in every case

Slot(index, i) == IF i < index THEN i ELSE i - 1

(* Each part by its sign and its square.                                   *)
Decode(code) ==
  [i \in Parts |->
     IF i = code.index + 1 THEN [sign |-> 0, square |-> Rest(code)]
     ELSE LET k == Slot(code.index + 1, i)
          IN  [sign |-> code.signs[k], square |-> Square(code.values[k])]]

-----------------------------------------------------------------------------
VARIABLES
  pose,  \* the object's rotation
  code   \* what was last sent

vars == <<pose, code>>

Init == pose \in Rotations /\ code = Encode(pose)

(* A half turn, as a product with i, j or k, so that it stays a unit.      *)
Turn ==
  /\ pose' \in {<<pose[4], pose[3], - pose[2], - pose[1]>>,
                <<- pose[3], pose[4], pose[1], - pose[2]>>,
                <<pose[2], - pose[1], pose[4], - pose[3]>>}
  /\ UNCHANGED code

Send == code' = Encode(pose) /\ UNCHANGED pose

Next == Turn \/ Send

Spec == Init /\ [][Next]_vars

-----------------------------------------------------------------------------
(* Properties. *)

(***************************************************************************)
(* Types; in particular the values fit their nine bits and leave a positive*)
(* rest for the receiver to take the root of (bitmagic.hpp:147).           *)
(***************************************************************************)
TypeOK ==
  /\ pose \in [Parts -> - Norm .. Norm]
  /\ code.index \in 0..3
  /\ \A k \in 1..3 : code.signs[k] \in {0, 1} /\ code.values[k] \in 0..c
  /\ 4 * Rest(code) >= Unit2 - 9 * c

(***************************************************************************)
(* What is decoded is the pose or its negative, the same rotation: every   *)
(* part where it was and with its sign, and as long as it was but for half *)
(* a unit of rounding; the computed part takes up the errors of the three. *)
(***************************************************************************)
Negative(i) == pose[i] < 0

SameRotation(d) ==
  \E flipped \in BOOLEAN : \A i \in Parts :
    d[i].square # 0 /\ pose[i] # 0 => (d[i].sign = 1) = (Negative(i) # flipped)

Near(d) ==
  \A i \in Parts :
    LET exact == (Unit2 * Square(pose[i])) \div Square(Norm)
    IN  Magnitude(d[i].square - exact) <= 3 * c + 1

UpToDate == code = Encode(pose)

Faithful ==
  UpToDate => SameRotation(Decode(code)) /\ Near(Decode(code))

(***************************************************************************)
(* A rotation and its negative, which PhysX may give for the same pose,    *)
(* have one code.                                                          *)
(***************************************************************************)
OneCode ==
  Encode([i \in Parts |-> - pose[i]]) = Encode(pose)
=============================================================================
