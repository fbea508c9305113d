----------------------------- MODULE PosesProofs -----------------------------
(***************************************************************************)
(* What the run of MCPoses shows of a pose on its way to the screen: of    *)
(* the position's codec and the cache it is a difference to for every      *)
(* integer, of the rotation's codec for every unit quaternion of integers  *)
(* over any norm, and of the interpolation for any window, stride, number  *)
(* of things and of messages.                                              *)
(***************************************************************************)
EXTENDS MCPoses, TLAPS, WellFoundedInduction

-----------------------------------------------------------------------------
(* The position.                                                           *)

LEMMA Coordinates ==
  /\ \A p \in Places : p \in Int
  /\ \A v \in Moves : v \in [Axis -> Int]
BY MoveAssumption

LEMMA Numbers ==
  Unit = 42165270 /\ Unit \div 2 = 21082635 /\ Limit = 316239525
BY SMT DEF Unit, Limit

LEMMA Steps ==
  /\ Step(0) = 165354 /\ Step(1) = 332010 /\ Step(2) = 669290 /\ Step(3) = 1360170
  /\ Halves(0) = 0 /\ Halves(1) = 1 /\ Halves(2) = 3 /\ Halves(3) = 7
<1>1. Step(0) = 165354  BY SMT DEF Step, Unit
<1>2. Step(1) = 332010  BY SMT DEF Step, Unit
<1>3. Step(2) = 669290  BY SMT DEF Step, Unit
<1>4. Step(3) = 1360170  BY SMT DEF Step, Unit
<1> QED BY SMT, <1>1, <1>2, <1>3, <1>4 DEF Halves

(* The range of a clamped magnitude, and where in it the magnitude is. *)
LEMMA Ranges ==
  ASSUME NEW ab \in Int, 0 <= ab, ab <= 316239525
  PROVE  \/ Range4(ab) = 0 /\ ab < 21082635
         \/ Range4(ab) = 1 /\ 21082635 <= ab /\ ab < 63247905
         \/ Range4(ab) = 2 /\ 63247905 <= ab /\ ab < 147578445
         \/ Range4(ab) = 3 /\ 147578445 <= ab
<1>1. CASE 2 * ab < 42165270  BY SMT, <1>1 DEF Range4, Unit
<1>2. CASE ~ (2 * ab < 42165270) /\ 2 * ab < 3 * 42165270
  BY SMT, <1>2 DEF Range4, Unit
<1>3. CASE ~ (2 * ab < 3 * 42165270) /\ 2 * ab < 7 * 42165270
  BY SMT, <1>3 DEF Range4, Unit
<1>4. CASE ~ (2 * ab < 7 * 42165270)  BY SMT, <1>4 DEF Range4, Unit
<1> QED BY SMT, <1>1, <1>2, <1>3, <1>4

LEMMA Clamped ==
  ASSUME NEW d \in Int
  PROVE  /\ Magnitude(d) \in Nat
         /\ Least(Magnitude(d), Limit) \in Int
         /\ 0 <= Least(Magnitude(d), Limit) /\ Least(Magnitude(d), Limit) <= 316239525
         /\ Magnitude(d) <= Limit => Least(Magnitude(d), Limit) = Magnitude(d)
         /\ Magnitude(d) > Limit => Least(Magnitude(d), Limit) = Limit
<1>1. Magnitude(d) \in Nat  BY SMT DEF Magnitude
<1> QED BY SMT, <1>1, Numbers DEF Least

(* In each range seven bits are enough.  The decoded magnitude exceeds the *)
(* encoded one by half a step of the first range at most, and falls short  *)
(* of it by what the offset of the range takes away.                       *)
Decoded(i, r) == r * Step(i) + Halves(i) * (Step(i) \div 2)

LEMMA InRange0 ==
  ASSUME NEW ab \in Int, 0 <= ab, ab <= 21082634
  PROVE  /\ Rounded(ab, 0) \in 0..127
         /\ Decoded(0, Rounded(ab, 0)) \in Nat
         /\ Decoded(0, Rounded(ab, 0)) - ab <= 82677
         /\ ab - Decoded(0, Rounded(ab, 0)) <= 82677
<1>1. PICK r \in Int : r = (ab - 0 + 82677) \div 165354  BY SMT
<1>2. Rounded(ab, 0) = r  BY SMT, <1>1, Steps, Numbers DEF Rounded
<1>3. Decoded(0, r) = r * 165354 + 0  BY SMT, Steps DEF Decoded
<1>4. r \in 0..127 /\ r * 165354 <= ab - 0 + 82677 /\ ab - 0 + 82677 < r * 165354 + 165354
  BY SMT, <1>1
<1> QED BY SMT, <1>2, <1>3, <1>4

LEMMA InRange1 ==
  ASSUME NEW ab \in Int, 21082635 <= ab, ab <= 63247904
  PROVE  /\ Rounded(ab, 1) \in 0..127
         /\ Decoded(1, Rounded(ab, 1)) \in Nat
         /\ Decoded(1, Rounded(ab, 1)) > 0
         /\ Decoded(1, Rounded(ab, 1)) < ab
         /\ ab - Decoded(1, Rounded(ab, 1)) <= 21082635
<1>1. PICK r \in Int : r = (ab - 21082635 + 166005) \div 332010  BY SMT
<1>2. Rounded(ab, 1) = r  BY SMT, <1>1, Steps, Numbers DEF Rounded
<1>3. Decoded(1, r) = r * 332010 + 166005  BY SMT, Steps DEF Decoded
<1>4. r \in 0..127 /\ r * 332010 <= ab - 21082635 + 166005 /\ ab - 21082635 + 166005 < r * 332010 + 332010
  BY SMT, <1>1
<1> QED BY SMT, <1>2, <1>3, <1>4

LEMMA InRange2 ==
  ASSUME NEW ab \in Int, 63247905 <= ab, ab <= 147578444
  PROVE  /\ Rounded(ab, 2) \in 0..127
         /\ Decoded(2, Rounded(ab, 2)) \in Nat
         /\ Decoded(2, Rounded(ab, 2)) > 0
         /\ Decoded(2, Rounded(ab, 2)) < ab
         /\ ab - Decoded(2, Rounded(ab, 2)) <= 63247905
<1>1. PICK r \in Int : r = (ab - 63247905 + 334645) \div 669290  BY SMT
<1>2. Rounded(ab, 2) = r  BY SMT, <1>1, Steps, Numbers DEF Rounded
<1>3. Decoded(2, r) = r * 669290 + 1003935  BY SMT, Steps DEF Decoded
<1>4. r \in 0..127 /\ r * 669290 <= ab - 63247905 + 334645 /\ ab - 63247905 + 334645 < r * 669290 + 669290
  BY SMT, <1>1
<1> QED BY SMT, <1>2, <1>3, <1>4

LEMMA InRange3 ==
  ASSUME NEW ab \in Int, 147578445 <= ab, ab <= 316239525
  PROVE  /\ Rounded(ab, 3) \in 0..127
         /\ Decoded(3, Rounded(ab, 3)) \in Nat
         /\ Decoded(3, Rounded(ab, 3)) > 0
         /\ Decoded(3, Rounded(ab, 3)) < ab
         /\ ab - Decoded(3, Rounded(ab, 3)) <= 147578445
<1>1. PICK r \in Int : r = (ab - 147578445 + 680085) \div 1360170  BY SMT
<1>2. Rounded(ab, 3) = r  BY SMT, <1>1, Steps, Numbers DEF Rounded
<1>3. Decoded(3, r) = r * 1360170 + 4760595  BY SMT, Steps DEF Decoded
<1>4. r \in 0..127 /\ r * 1360170 <= ab - 147578445 + 680085 /\ ab - 147578445 + 680085 < r * 1360170 + 1360170
  BY SMT, <1>1
<1> QED BY SMT, <1>2, <1>3, <1>4

(* The three cases in one, for a clamped magnitude and the range it has. *)
LEMMA InAnyRange ==
  ASSUME NEW ab \in Int, 0 <= ab, ab <= 316239525
  PROVE  LET i == Range4(ab)
             r == Rounded(ab, i)
             v == Decoded(i, r)
         IN  /\ i \in 0..3 /\ r \in 0..127 /\ v \in Nat
             /\ v - ab <= 82677 /\ ((0 < v /\ v < ab) \/ ab - v <= 82677)
             /\ ab - v <= 147578445
<1>1. CASE Range4(ab) = 0 /\ ab < 21082635
  <2>1. 0 <= ab /\ ab <= 21082634  BY SMT, <1>1
  <2>2. /\ Rounded(ab, 0) \in 0..127 /\ Decoded(0, Rounded(ab, 0)) \in Nat
        /\ Decoded(0, Rounded(ab, 0)) - ab <= 82677
        /\ \/ 0 < Decoded(0, Rounded(ab, 0)) /\ Decoded(0, Rounded(ab, 0)) < ab
           \/ ab - Decoded(0, Rounded(ab, 0)) <= 82677
        /\ ab - Decoded(0, Rounded(ab, 0)) <= 147578445
    BY SMT, <2>1, InRange0
  <2> QED BY SMT, <1>1, <2>2
<1>2. CASE Range4(ab) = 1 /\ 21082635 <= ab /\ ab < 63247905
  <2>1. 21082635 <= ab /\ ab <= 63247904  BY SMT, <1>2
  <2>2. /\ Rounded(ab, 1) \in 0..127 /\ Decoded(1, Rounded(ab, 1)) \in Nat
        /\ Decoded(1, Rounded(ab, 1)) - ab <= 82677
        /\ \/ 0 < Decoded(1, Rounded(ab, 1)) /\ Decoded(1, Rounded(ab, 1)) < ab
           \/ ab - Decoded(1, Rounded(ab, 1)) <= 82677
        /\ ab - Decoded(1, Rounded(ab, 1)) <= 147578445
    BY SMT, <2>1, InRange1
  <2> QED BY SMT, <1>2, <2>2
<1>3. CASE Range4(ab) = 2 /\ 63247905 <= ab /\ ab < 147578445
  <2>1. 63247905 <= ab /\ ab <= 147578444  BY SMT, <1>3
  <2>2. /\ Rounded(ab, 2) \in 0..127 /\ Decoded(2, Rounded(ab, 2)) \in Nat
        /\ Decoded(2, Rounded(ab, 2)) - ab <= 82677
        /\ \/ 0 < Decoded(2, Rounded(ab, 2)) /\ Decoded(2, Rounded(ab, 2)) < ab
           \/ ab - Decoded(2, Rounded(ab, 2)) <= 82677
        /\ ab - Decoded(2, Rounded(ab, 2)) <= 147578445
    BY SMT, <2>1, InRange2
  <2> QED BY SMT, <1>3, <2>2
<1>4. CASE Range4(ab) = 3 /\ 147578445 <= ab
  <2>2. /\ Rounded(ab, 3) \in 0..127 /\ Decoded(3, Rounded(ab, 3)) \in Nat
        /\ Decoded(3, Rounded(ab, 3)) - ab <= 82677
        /\ \/ 0 < Decoded(3, Rounded(ab, 3)) /\ Decoded(3, Rounded(ab, 3)) < ab
           \/ ab - Decoded(3, Rounded(ab, 3)) <= 82677
        /\ ab - Decoded(3, Rounded(ab, 3)) <= 147578445
    BY SMT, <1>4, InRange3
  <2> QED BY SMT, <1>4, <2>2
<1> QED BY SMT, <1>1, <1>2, <1>3, <1>4, Ranges

(* What one coordinate of a message does, for every difference. *)
LEMMA Coded ==
  ASSUME NEW d \in Int
  PROVE  /\ Encode(d) \in [range : 0..3, byte : 0..255]
         /\ WriteBack(d) \in Int
         /\ \/ Magnitude(d - WriteBack(d)) < Magnitude(d)
            \/ Magnitude(d - WriteBack(d)) <= 82677
         /\ Magnitude(d) <= Limit => Magnitude(d - WriteBack(d)) <= 147578445
         /\ Magnitude(d) > Limit =>
              Magnitude(d - WriteBack(d)) = Magnitude(d) - 173421675
<1> DEFINE ab == Least(Magnitude(d), Limit)
           s  == IF d < 0 THEN 128 ELSE 0
<1>1. ab \in Int /\ 0 <= ab /\ ab <= 316239525  BY SMT, Clamped
<1> DEFINE i == Range4(ab)
           r == Rounded(ab, i)
           v == Decoded(i, r)
<1>2. /\ i \in 0..3 /\ r \in 0..127 /\ v \in Nat
      /\ v - ab <= 82677 /\ ((0 < v /\ v < ab) \/ ab - v <= 82677)
      /\ ab - v <= 147578445
  <2> HIDE DEF ab
  <2> QED BY SMT, <1>1, InAnyRange
<1>3. r % 128 = r
  <2> HIDE DEF r
  <2> QED BY SMT, <1>2
<1>4. Encode(d) = [range |-> i, byte |-> s + r]
  BY SMT, <1>3 DEF Encode
<1>5. (s + r) % 128 = r /\ (s + r) \div 128 = (IF d < 0 THEN 1 ELSE 0)
  <2> HIDE DEF r
  <2> QED BY SMT, <1>2
<1>6. WriteBack(d) = (IF d < 0 THEN - v ELSE v)
  <2>0. Encode(d).range = i /\ Encode(d).byte = s + r  BY SMT, <1>4
  <2>1. WriteBack(d) = Value(i, s + r)  BY SMT, <2>0 DEF WriteBack
  <2> HIDE DEF s, ab
  <2>2. Value(i, s + r) = (IF d < 0 THEN - Decoded(i, r) ELSE Decoded(i, r))
    BY SMT, <1>5 DEF Value, Decoded
  <2> QED BY SMT, <1>2, <2>1, <2>2
<1>7. s + r \in 0..255
  <2> HIDE DEF r
  <2> QED BY SMT, <1>2
<1>8. Magnitude(d) = (IF d < 0 THEN - d ELSE d)  BY SMT DEF Magnitude
<1>9. Magnitude(d - WriteBack(d)) = (IF Magnitude(d) < v THEN v - Magnitude(d)
                                                     ELSE Magnitude(d) - v)
  <2> HIDE DEF ab, i, r, v
  <2> QED BY SMT, <1>2, <1>6, <1>8 DEF Magnitude
<1>10. Magnitude(d) <= Limit => ab = Magnitude(d)  BY SMT, Clamped
<1>11. Magnitude(d) > Limit => ab = 316239525  BY SMT, Clamped, Numbers
<1>12. Magnitude(d) \in Nat  BY SMT, Clamped
<1>17. ab = 316239525 => v = 173421675
  <2> HIDE DEF ab
  <2> QED BY SMT DEF Range4, Rounded, Halves, Step, Unit, Decoded
<1> HIDE DEF ab, s, i, r, v
<1>13. Encode(d) \in [range : 0..3, byte : 0..255]  BY SMT, <1>2, <1>4, <1>7
<1>14. WriteBack(d) \in Int  BY SMT, <1>2, <1>6
<1>15. CASE Magnitude(d) <= Limit
  <2>1. v - Magnitude(d) <= 82677 /\ Magnitude(d) - v <= 147578445
    BY SMT, <1>2, <1>10, <1>15
  <2>2. v < Magnitude(d) \/ Magnitude(d) - v <= 82677  BY SMT, <1>2, <1>10, <1>15
  <2>3. v > 0 /\ v <= Magnitude(d) => Magnitude(d) - v < Magnitude(d)
    BY SMT, <1>2, <1>12
  <2>4. v = 0 => Magnitude(d) - v <= 82677
    BY SMT, <1>2, <1>10, <1>12, <1>15
  <2>5. ~ (Magnitude(d) > Limit)  BY SMT, <1>12, <1>15, Numbers
  <2> QED BY SMT, <1>2, <1>9, <1>12, <1>13, <1>14, <1>15, <2>1, <2>2, <2>3, <2>4, <2>5
<1>16. CASE ~ (Magnitude(d) <= Limit)
  <2>1. Magnitude(d) > 316239525 /\ ab = 316239525
    BY SMT, <1>11, <1>12, <1>16, Numbers
  <2> QED BY SMT, <1>2, <1>9, <2>1, <1>12, <1>13, <1>14, <1>16, <1>17
<1> QED BY SMT, <1>15, <1>16

LEMMA Reaches == Reach = 173421675
BY SMT DEF Reach, Unit

(* The header keeps the three ranges apart. *)
LEMMA Headers ==
  ASSUME NEW d \in [Axis -> Int]
  PROVE  /\ FieldsFit(d)
         /\ \A a \in Axis :
              Decode(Header(d), a, Encode(d[a]).byte) = WriteBack(d[a])
<1>1. d["x"] \in Int /\ d["y"] \in Int /\ d["z"] \in Int  BY SMT DEF Axis
<1>2. PICK rx \in 0..3 : rx = Encode(d.x).range  BY SMT, <1>1, Coded
<1>3. PICK ry \in 0..3 : ry = Encode(d.y).range  BY SMT, <1>1, Coded
<1>4. PICK rz \in 0..3 : rz = Encode(d.z).range  BY SMT, <1>1, Coded
<1>5. Header(d) = 128 + 16 * rx + 4 * ry + rz
  BY SMT, <1>2, <1>3, <1>4 DEF Header, Place, UPD_OBJ
<1>6. FieldsFit(d)
  <2>1. 128 + 16 * rx + 4 * ry + rz \in 128 .. 191  BY SMT
  <2>3. Header(d) \in UPD_OBJ .. UPD_OBJ + 63  BY SMT, <1>5, <2>1 DEF UPD_OBJ
  <2>2. ASSUME NEW a \in Axis
        PROVE  Encode(d[a]) \in [range : 0..3, byte : 0..255]
    <3>1. d[a] \in Int  BY SMT
    <3> QED BY SMT, <3>1, Coded
  <2> QED BY <2>2, <2>3 DEF FieldsFit
<1>7. /\ (Header(d) \div 16) % 4 = rx
      /\ (Header(d) \div 4) % 4 = ry
      /\ (Header(d) \div 1) % 4 = rz
  <2>1. rx \in Int /\ 0 <= rx /\ rx <= 3 /\ ry \in Int /\ 0 <= ry /\ ry <= 3
        /\ rz \in Int /\ 0 <= rz /\ rz <= 3
    OBVIOUS
  <2>2. PICK h \in Int : h = 128 + 16 * rx + 4 * ry + rz  BY SMT, <2>1
  <2>3. h \div 16 = 8 + rx  BY SMT, <2>1, <2>2
  <2>4. h \div 4 = 32 + 4 * rx + ry  BY SMT, <2>1, <2>2
  <2>5. h \div 1 = h  BY SMT
  <2>6. (8 + rx) % 4 = rx /\ (32 + 4 * rx + ry) % 4 = ry /\ h % 4 = rz
    BY SMT, <2>1, <2>2
  <2> QED BY SMT, <1>5, <2>2, <2>3, <2>4, <2>5, <2>6
<1>8. ASSUME NEW a \in Axis
      PROVE  Decode(Header(d), a, Encode(d[a]).byte) = WriteBack(d[a])
  BY SMT, <1>2, <1>3, <1>4, <1>7 DEF Decode, WriteBack, Axis
<1> QED BY <1>6, <1>8

-----------------------------------------------------------------------------
(* Types: what is sent fits its fields for every difference. *)
THEOREM TypeCorrect == Spec => []TypeOK
<1> DEFINE Plain == /\ place \in [Axis -> Places]
                    /\ pos \in [Axis -> Int] /\ cache \in [Axis -> Int]
                    /\ shown \in [Axis -> Int]
                    /\ backlog \in [Axis -> Nat] /\ moves \in 0..MaxMoves
<1>1. Plain => Apart \in [Axis -> Int]  BY SMT DEF Apart
<1>2. Plain => TypeOK  BY SMT, <1>1, Headers DEF TypeOK
<1>3. Init => Plain
  <2>1. \A p \in Int : Added(p) \in Int
    BY SMT DEF Added, OnGrid, Float16, Fixed16, Magnitude, Least, Grain, Unit
  <2> SUFFICES ASSUME Init PROVE Plain  OBVIOUS
  <2>2. place \in [Axis -> Places]  BY DEF Init
  <2>3. \A a \in Axis : Added(place[a]) \in Int  BY <2>1, <2>2, Coordinates
  <2>4. cache \in [Axis -> Int] /\ shown \in [Axis -> Int]  BY SMT, <2>3 DEF Init
  <2>5. pos \in [Axis -> Int]  BY SMT DEF Init
  <2>6. backlog \in [Axis -> Nat] /\ moves \in 0..MaxMoves
    <3>1. \A a \in Axis : Magnitude(cache[a]) \in Nat
      BY SMT, <2>4 DEF Magnitude
    <3> QED BY SMT, <3>1, CountAssumption DEF Init
  <2> QED BY <2>2, <2>4, <2>5, <2>6
<1>4. Plain /\ [Next]_vars => Plain'
  <2> SUFFICES ASSUME Plain, [Next]_vars PROVE Plain'  OBVIOUS
  <2>1. ASSUME NEW v \in Moves, Move(v) PROVE Plain'
    <3>1. v \in [Axis -> Int]  BY Coordinates
    <3>2. \A a \in Axis : backlog[a] + Magnitude(v[a]) \in Nat
      BY SMT, <3>1 DEF Magnitude
    <3> QED BY SMT, <2>1, <3>1, <3>2, CountAssumption DEF Move
  <2>2. CASE Send
    <3>1. \A a \in Axis : Apart[a] \in Int /\ WriteBack(Apart[a]) \in Int
      BY SMT, <1>1, Coded
    <3>2. \A a \in Axis : Kept(a) \in Int  BY SMT, <3>1 DEF Kept
    <3>3. \A a \in Axis :
            Decode(Header(Apart), a, Encode(Apart[a]).byte) = WriteBack(Apart[a])
      BY SMT, <1>1, Headers
    <3>4. \A a \in Axis :
            (IF backlog[a] > Reach THEN backlog[a] - Reach ELSE 0) \in Nat
      BY SMT, Reaches
    <3> QED BY SMT, <2>2, <3>1, <3>2, <3>3, <3>4, CountAssumption DEF Send
  <2>3. CASE UNCHANGED vars  BY SMT, <2>3 DEF vars
  <2> QED BY SMT, <2>1, <2>2, <2>3 DEF Next
<1> QED BY <1>2, <1>3, <1>4, PTL DEF Spec

(* The client's pose is the one the server believes it to have: what is    *)
(* decoded is what was written back, whatever the difference was.          *)
THEOREM PosesAgree == Spec => []SamePose
<1>1. Init => SamePose  BY SMT DEF Init, SamePose
<1>2. TypeOK /\ SamePose /\ [Next]_vars => SamePose'
  <2> SUFFICES ASSUME TypeOK, SamePose, [Next]_vars PROVE SamePose'  OBVIOUS
  <2>1. ASSUME NEW v \in Moves, Move(v) PROVE SamePose'
    BY SMT, <2>1 DEF Move, SamePose
  <2>2. CASE Send
    <3>1. Apart \in [Axis -> Int]  BY SMT DEF Apart, TypeOK
    <3>2. \A a \in Axis :
            Decode(Header(Apart), a, Encode(Apart[a]).byte) = WriteBack(Apart[a])
      BY SMT, <3>1, Headers
    <3> QED BY SMT, <2>2, <3>2 DEF Send, Kept, SamePose
  <2>3. CASE UNCHANGED vars  BY SMT, <2>3 DEF vars, SamePose
  <2> QED BY SMT, <2>1, <2>2, <2>3 DEF Next
<1> QED BY <1>1, <1>2, TypeCorrect, PTL DEF Spec

(* No message makes a coordinate worse. *)
THEOREM Improves == Spec => NeverWorse
<1>1. TypeOK /\ [Next]_vars =>
        [Send => \A a \in Axis :
           \/ Magnitude(pos[a] - cache'[a]) < Magnitude(Apart[a])
           \/ Magnitude(pos[a] - cache'[a]) <= HalfStep]_vars
  <2> SUFFICES ASSUME TypeOK, Send, NEW a \in Axis
               PROVE  \/ Magnitude(pos[a] - cache'[a]) < Magnitude(Apart[a])
                      \/ Magnitude(pos[a] - cache'[a]) <= HalfStep
    BY SMT
  <2>1. pos[a] \in Int /\ cache[a] \in Int /\ Apart[a] = pos[a] - cache[a]
    BY SMT DEF TypeOK, Apart
  <2>2. Apart[a] \in Int  BY SMT, <2>1
  <2>3. WriteBack(Apart[a]) \in Int  BY SMT, <2>2, Coded
  <2>4. cache'[a] = cache[a] + WriteBack(Apart[a])  BY SMT DEF Send, Kept
  <2>5. pos[a] - cache'[a] = Apart[a] - WriteBack(Apart[a])
    BY SMT, <2>1, <2>3, <2>4
  <2>6. HalfStep = 82677  BY SMT, Steps DEF HalfStep
  <2> QED BY SMT, <2>2, <2>5, <2>6, Coded
<1>2. [Send => \A a \in Axis :
         \/ Magnitude(pos[a] - cache'[a]) < Magnitude(Apart[a])
         \/ Magnitude(pos[a] - cache'[a]) <= HalfStep]_vars
      => [Send => \A a \in Axis :
            LET before == Magnitude(Apart[a])
                after  == Magnitude(pos[a] - cache'[a])
            IN  after < before \/ after <= HalfStep]_vars
  BY SMT
<1> QED BY <1>1, <1>2, TypeCorrect, PTL DEF Spec, NeverWorse

(* An object is added within half a grain of where it is. *)
LEMMA GridError ==
  ASSUME NEW p \in Int
  PROVE  /\ OnGrid(p) \in Int
         /\ Magnitude(p) <= 523264 => Magnitude(OnGrid(p) - p) <= 8
         /\ Magnitude(p) > 523264 =>
              Magnitude(OnGrid(p)) = 523264 /\ (OnGrid(p) < 0 <=> p < 0)
<1> DEFINE m == Least(Magnitude(p), 511 * 1024)
           b == ((m + Grain \div 2) \div Grain) % 32768
<1>1. m \in Int /\ 0 <= m /\ m <= 523264  BY SMT DEF Least, Magnitude
<1>2. /\ Magnitude(p) <= 523264 => m = Magnitude(p)
      /\ Magnitude(p) > 523264 => m = 523264
  BY SMT DEF Least, Magnitude
<1> HIDE DEF m
<1>3. b \in Nat /\ b * 16 <= m + 8 /\ m + 8 < b * 16 + 16
  BY SMT, <1>1 DEF Grain
<1>4. OnGrid(p) = (IF p < 0 THEN - (b * 16) ELSE b * 16)
  <2>1. Fixed16(p).bits = b  BY SMT DEF Fixed16, m
  <2>2. Fixed16(p).sign = (IF p < 0 THEN 1 ELSE 0)  BY SMT DEF Fixed16
  <2> HIDE DEF b
  <2>3. OnGrid(p) = (IF Fixed16(p).sign = 1 THEN - (b * 16) ELSE b * 16)
    BY SMT, <2>1 DEF OnGrid, Float16, Grain
  <2> QED BY SMT, <2>2, <2>3
<1> HIDE DEF b
<1> QED BY SMT, <1>2, <1>3, <1>4 DEF Magnitude

(* A position starts within half a step of the 16 bits' grid of the        *)
(* actor's.                                                                *)
THEOREM AddedNear == Spec => []AddedClose
<1>1. TypeOK => AddedClose
  <2> SUFFICES ASSUME TypeOK, NEW a \in Axis
               PROVE  IF Magnitude(place[a]) <= 511 * 1024
                        THEN Magnitude(OnGrid(place[a]) - place[a]) <= Grain \div 2
                        ELSE /\ Magnitude(OnGrid(place[a])) = 511 * 1024
                             /\ OnGrid(place[a]) < 0 <=> place[a] < 0
    BY SMT DEF AddedClose
  <2>1. place[a] \in Int  BY Coordinates DEF TypeOK
  <2>2. Magnitude(place[a]) \in Nat  BY SMT, <2>1 DEF Magnitude
  <2> QED BY SMT, <2>1, <2>2, GridError DEF Grain
<1> QED BY <1>1, TypeCorrect, PTL

(* However far the object goes between two messages: what a message leaves *)
(* is at most 3.5 units, the offset of the last range, or 4.1 less than    *)
(* before.                                                                 *)
THEOREM LagIsBounded == Spec => []LagBounded
<1> DEFINE Lag(a) == Magnitude(Apart[a]) <= 147578445 + backlog[a]
<1>1. Unit \div 2 = 21082635  BY SMT DEF Unit
<1>2. LagBounded <=> \A a \in Axis : Lag(a)
  BY SMT, <1>1 DEF LagBounded
<1>3. Init => \A a \in Axis : Lag(a)
  <2> SUFFICES ASSUME Init, NEW a \in Axis PROVE Lag(a)  OBVIOUS
  <2>1. place[a] \in Int  BY Coordinates DEF Init
  <2>2. Added(place[a]) \in Int
    BY SMT, <2>1 DEF Added, OnGrid, Float16, Fixed16, Magnitude, Least, Grain, Unit
  <2>3. cache[a] = Added(place[a]) /\ pos[a] = 0 /\ backlog[a] = Magnitude(cache[a])
    BY SMT DEF Init
  <2>4. Apart[a] = 0 - cache[a]  BY SMT, <2>3 DEF Apart
  <2> QED BY SMT, <2>2, <2>3, <2>4 DEF Magnitude
<1>4. ASSUME TypeOK, \A a \in Axis : Lag(a), [Next]_vars, NEW a \in Axis
      PROVE  Lag(a)'
  <2>1. /\ pos[a] \in Int /\ cache[a] \in Int /\ backlog[a] \in Nat
        /\ Apart[a] = pos[a] - cache[a]
    BY SMT, <1>4 DEF TypeOK, Apart
  <2>2. PICK d \in Int, b \in Nat : d = Apart[a] /\ b = backlog[a]
    BY SMT, <2>1
  <2>3. Magnitude(d) <= 147578445 + b  BY SMT, <1>4, <2>2
  <2>4. ASSUME NEW v \in Moves, Move(v) PROVE Lag(a)'
    <3>1. v[a] \in Int  BY Coordinates
    <3>2. Apart'[a] = d + v[a] /\ backlog'[a] = b + Magnitude(v[a])
      BY SMT, <2>1, <2>2, <2>4, <3>1 DEF Move, Apart
    <3> QED BY SMT, <2>3, <3>1, <3>2 DEF Magnitude
  <2>5. CASE Send
    <3>1. WriteBack(d) \in Int  BY SMT, Coded
    <3>2. Apart'[a] = d - WriteBack(d)
      BY SMT, <2>1, <2>2, <2>5, <3>1 DEF Send, Kept, Apart
    <3>3. backlog'[a] = (IF b > 173421675 THEN b - 173421675 ELSE 0)
      BY SMT, <2>2, <2>5, Reaches DEF Send
    <3>4. Magnitude(d) \in Nat /\ Limit = 316239525
      BY SMT, Numbers DEF Magnitude
    <3>5. \/ Magnitude(d - WriteBack(d)) <= 147578445
          \/ Magnitude(d - WriteBack(d)) = Magnitude(d) - 173421675
      BY SMT, <3>4, Coded
    <3>6. Magnitude(d - WriteBack(d)) \in Nat  BY SMT, <3>1 DEF Magnitude
    <3> QED BY SMT, <2>3, <3>2, <3>3, <3>4, <3>5, <3>6
  <2>6. CASE UNCHANGED vars  BY SMT, <1>4, <2>6 DEF vars, Apart
  <2> QED BY SMT, <1>4, <2>4, <2>5, <2>6 DEF Next
<1> DEFINE Lags == \A a \in Axis : Lag(a)
<1>5. Init => Lags  BY <1>3
<1>6. TypeOK /\ Lags /\ [Next]_vars => Lags'  BY <1>4
<1>7. LagBounded <=> Lags  BY <1>2
<1> HIDE DEF Lags
<1> QED BY <1>5, <1>6, <1>7, TypeCorrect, PTL DEF Spec

(* Both ends hold the same position, and one near the actor's to begin     *)
(* with, wherever it is added and however it moves.                        *)
THEOREM PositionsKept == Spec => []PositionKept
BY TypeCorrect, AddedNear, PosesAgree, PTL DEF PositionKept

(* What is shown of the position's own behaviours holds of the run's too.  *)
LEMMA PositionPart == PartsSpec => Spec
<1>1. PartsInit => Init
  BY DEF PartsInit
<1>2. [PartsNext]_<<part, vars, rotationVars, viewVars>> => [Next]_vars
  BY DEF PartsNext
<1> QED
  BY <1>1, <1>2, PTL DEF PartsSpec, Spec

-----------------------------------------------------------------------------
(* The view: what is drawn between two messages.                           *)

(* Of a message, from the stamp on; the render thread reads stamp and      *)
(* number together.                                                        *)
Stamps ==
  /\ worker = "idle" => decoded = packets
  /\ worker = "decode" => packets > 0
  /\ stamp <= now /\ seen <= now
  /\ packets > 0 => stamp >= 0
  /\ frame > 0 => seen >= 0
  /\ render # "idle" /\ frame = packets => seen = stamp
  /\ render \in {"objects", "players"} /\ frame > 0 => lerp <= View!Lerp(now - seen)
  /\ decoded = 0 => \A t \in View!Things : ~ View!Present(t)

(* Where a thing that is awake is drawn by a frame with this lerp.         *)
At(t, l) == things[t].prev + ((things[t].net - things[t].prev) * l) \div Window

(* How far every thing is drawn, and up to which frame that is behind.     *)
Behind(t) ==
  View!Present(t) =>
    /\ things[t].prev <= things[t].curr /\ things[t].curr <= things[t].net
    /\ drawn[t] <= things[t].curr

InTime(t) ==
  View!Present(t) /\ ~ things[t].asleep /\ ~ mixed =>
    /\ packets = decoded => drawn[t] <= At(t, View!Lerp(now - stamp))
    /\ render = "read" /\ frame = decoded => drawn[t] <= At(t, View!Lerp(now - seen))
    /\ render \in {"objects", "players"} /\ frame = decoded => drawn[t] <= At(t, lerp)

VInv == View!TypeOK /\ Stamps /\ \A t \in View!Things : Behind(t) /\ InTime(t)

-----------------------------------------------------------------------------
LEMMA Division ==
  ASSUME NEW x \in Int, NEW w \in Nat \ {0}
  PROVE  x \div w \in Int /\ w * (x \div w) <= x /\ x < w * (x \div w) + w
OBVIOUS

LEMMA Quotients ==
  ASSUME NEW x \in Int, NEW y \in Int, NEW w \in Nat \ {0}, x <= y
  PROVE  x \div w <= y \div w
<1>1. PICK m \in Int : m = x \div w
  BY Division
<1>2. PICK n \in Int : n = y \div w
  BY Division
<1>3. w * m <= x /\ y < w * n + w
  BY <1>1, <1>2, Division
<1>4. w * m < w * (n + 1)
  BY <1>3
<1>5. ASSUME n + 1 <= m PROVE FALSE
  <2>1. PICK d \in Nat : m = n + 1 + d
    BY <1>5
  <2>2. w * m = w * (n + 1) + w * d /\ w * d >= 0
    BY <2>1
  <2> QED
    BY <1>4, <2>2
<1> QED
  BY <1>1, <1>2, <1>5

(* A part of a way.                                                        *)
LEMMA PartWay ==
  ASSUME NEW way \in Nat, NEW k \in 0..Window, NEW l \in 0..Window, k <= l
  PROVE  /\ (way * k) \div Window \in Int /\ (way * l) \div Window \in Int
         /\ 0 <= (way * k) \div Window
         /\ (way * k) \div Window <= (way * l) \div Window
         /\ (way * l) \div Window <= way
<1>1. Window \in Nat \ {0}
  BY ViewAssumption DEF View!ViewConstants
<1>2. k \in Int /\ l \in Int /\ 0 <= k /\ l <= Window
  BY <1>1
<1>3. PICK d \in Nat : l = k + d
  BY <1>2
<1>4. PICK e \in Nat : Window = l + e
  BY <1>1, <1>2
<1>5. way * k \in Nat /\ way * l \in Nat /\ way * Window \in Nat
  BY <1>1, <1>2
<1>6. way * k <= way * l /\ way * l <= way * Window
  <2>1. way * l = way * k + way * d /\ way * d \in Nat
    BY <1>2, <1>3
  <2>2. way * Window = way * l + way * e /\ way * e \in Nat
    BY <1>2, <1>4
  <2> QED
    BY <1>5, <2>1, <2>2
<1>7. 0 \div Window = 0 /\ (way * Window) \div Window = way
  <2>1. \A n \in Nat, w \in Nat \ {0} : (n * w) \div w = n
    OBVIOUS
  <2> QED
    BY <1>1, <2>1
<1> QED
  BY <1>1, <1>5, <1>6, <1>7, Division, Quotients

LEMMA ViewNumbers ==
  Window \in Nat \ {0} /\ Stride \in Nat /\ MaxPackets \in Nat /\ MaxTime \in Nat
BY ViewAssumption DEF View!ViewConstants

LEMMA Lerps ==
  ASSUME NEW d \in Nat
  PROVE  View!Lerp(d) \in 0..Window /\ \A e \in Nat : d <= e => View!Lerp(d) <= View!Lerp(e)
BY ViewNumbers DEF View!Lerp

Thing == [prev : Int, net : Int, curr : Int, asleep : BOOLEAN]

LEMMA Ways ==
  ASSUME View!TypeOK, NEW t \in View!Things, things[t].prev <= things[t].net,
         NEW k \in 0..Window, NEW l \in 0..Window, k <= l
  PROVE  /\ At(t, k) \in Int /\ At(t, l) \in Int
         /\ things[t].prev <= At(t, k) /\ At(t, k) <= At(t, l) /\ At(t, l) <= things[t].net
<1>1. things[t].prev \in Int /\ things[t].net \in Int
  BY DEF View!TypeOK
<1>2. PICK way \in Nat : way = things[t].net - things[t].prev
  BY <1>1
<1>3. /\ (way * k) \div Window \in Int /\ (way * l) \div Window \in Int
      /\ 0 <= (way * k) \div Window
      /\ (way * k) \div Window <= (way * l) \div Window
      /\ (way * l) \div Window <= way
  BY PartWay
<1>4. /\ At(t, k) = things[t].prev + (way * k) \div Window
      /\ At(t, l) = things[t].prev + (way * l) \div Window
  BY <1>2 DEF At
<1> QED
  BY <1>1, <1>2, <1>3, <1>4

(* What stays true of a thing that a step leaves alone.                    *)
LEMMA BehindStays ==
  ASSUME NEW t \in View!Things, things'[t] = things[t], drawn'[t] = drawn[t], Behind(t)
  PROVE  Behind(t)'
BY DEF Behind, View!Present, View!None

LEMMA IntegersHere == -1 \in Int /\ FALSE \in BOOLEAN
OBVIOUS

LEMMA ViewInit == View!Init => VInv
<1> SUFFICES ASSUME View!Init PROVE VInv
  OBVIOUS
<1> USE ViewNumbers
<1>1. \A t \in View!Things : things[t] = View!None /\ ~ View!Present(t)
  BY DEF View!Init, View!Present
<1>2. View!TypeOK
  <2>1. View!None \in Thing
    BY Zenon, IntegersHere DEF View!None, Thing
  <2>2. \A t \in View!Things : things[t] \in Thing
    BY <1>1, <2>1
  <2>3. drawn \in [View!Things -> Int]
    BY DEF View!Init
  <2>4. lerp \in 0..Window
    BY DEF View!Init
  <2>5. mixed \in BOOLEAN
    BY Zenon DEF View!Init
  <2> QED
    BY <2>2, <2>3, <2>4, <2>5 DEF View!Init, View!TypeOK, Thing
<1>3. Stamps
  BY <1>1 DEF View!Init, Stamps
<1>4. \A t \in View!Things : Behind(t) /\ InTime(t)
  BY <1>1 DEF Behind, InTime
<1> QED
  BY <1>2, <1>3, <1>4 DEF VInv

LEMMA StampVInv ==
  ASSUME VInv, View!Stamp
  PROVE  VInv'
<1> USE ViewNumbers
<1>1. /\ worker = "idle" /\ packets < MaxPackets /\ now + Window < MaxTime
      /\ worker' = "decode" /\ stamp' = now /\ packets' = packets + 1
      /\ UNCHANGED <<now, things, render, seen, lerp, drawn, decoded, frame, mixed>>
  BY DEF View!Stamp
<1>2. View!TypeOK'
  BY <1>1 DEF VInv, View!TypeOK
<1>3. packets \in Nat /\ frame \in 0..packets /\ decoded = packets /\ now \in Nat
  BY <1>1 DEF VInv, View!TypeOK, Stamps
<1>4. Stamps'
  BY <1>1, <1>3 DEF VInv, Stamps, View!Present, View!None, View!Lerp
<1>5. ASSUME NEW t \in View!Things PROVE Behind(t)' /\ InTime(t)'
  <2>1. Behind(t) /\ InTime(t)
    BY DEF VInv
  <2>2. Behind(t)'
    BY <1>1, <2>1, BehindStays
  <2>3. packets' # decoded'
    BY <1>1, <1>3
  <2>4. InTime(t)'
    BY <1>1, <2>1, <2>3 DEF InTime, View!Present, View!None, At, View!Lerp
  <2> QED
    BY <2>2, <2>4
<1> QED
  BY <1>2, <1>4, <1>5 DEF VInv

LEMMA TickVInv ==
  ASSUME VInv, View!Tick
  PROVE  VInv'
<1> USE ViewNumbers
<1>1. /\ now < MaxTime /\ now' = now + 1
      /\ UNCHANGED <<stamp, things, worker, render, seen, lerp, drawn, packets, decoded, frame, mixed>>
  BY DEF View!Tick
<1>2. View!TypeOK'
  BY <1>1 DEF VInv, View!TypeOK
<1>3. /\ now \in Nat /\ stamp \in Int /\ seen \in Int /\ packets \in Nat /\ frame \in Nat
      /\ stamp <= now /\ seen <= now /\ lerp \in 0..Window /\ decoded \in Nat
  BY DEF VInv, View!TypeOK, Stamps
<1>4. /\ now - stamp \in Nat /\ now - seen \in Nat
      /\ now' - stamp \in Nat /\ now' - seen \in Nat
      /\ now - stamp <= now' - stamp /\ now - seen <= now' - seen
  BY <1>1, <1>3
<1>5. /\ View!Lerp(now - stamp) \in 0..Window /\ View!Lerp(now - seen) \in 0..Window
      /\ View!Lerp(now' - stamp) \in 0..Window /\ View!Lerp(now' - seen) \in 0..Window
      /\ View!Lerp(now - stamp) <= View!Lerp(now' - stamp)
      /\ View!Lerp(now - seen) <= View!Lerp(now' - seen)
  BY <1>4, Lerps
<1>6. Stamps'
  <2>1. render \in {"objects", "players"} /\ frame > 0 => lerp <= View!Lerp(now' - seen)
    BY <1>3, <1>5 DEF VInv, Stamps
  <2>2. View!Lerp(now - seen)' = View!Lerp(now' - seen)
    BY <1>1
  <2> QED
    BY <1>1, <1>3, <2>1, <2>2 DEF VInv, Stamps, View!Present, View!None
<1>7. ASSUME NEW t \in View!Things PROVE Behind(t)' /\ InTime(t)'
  <2>1. Behind(t) /\ InTime(t)
    BY DEF VInv
  <2>2. Behind(t)'
    BY <1>1, <2>1, BehindStays
  <2>3. InTime(t)'
    <3> SUFFICES ASSUME View!Present(t), ~ things[t].asleep, ~ mixed PROVE InTime(t)'
      BY <1>1 DEF InTime, View!Present, View!None
    <3>1. things[t].prev \in Int /\ things[t].net \in Int /\ things[t].curr \in Int
      BY DEF VInv, View!TypeOK
    <3>2. things[t].prev <= things[t].net
      BY <2>1, <3>1 DEF Behind
    <3>3. /\ At(t, View!Lerp(now - stamp)) <= At(t, View!Lerp(now' - stamp))
          /\ At(t, View!Lerp(now - stamp)) \in Int /\ At(t, View!Lerp(now' - stamp)) \in Int
      BY <1>5, <3>2, Ways DEF VInv
    <3>4. /\ At(t, View!Lerp(now - seen)) <= At(t, View!Lerp(now' - seen))
          /\ At(t, View!Lerp(now - seen)) \in Int /\ At(t, View!Lerp(now' - seen)) \in Int
      BY <1>5, <3>2, Ways DEF VInv
    <3>5. drawn[t] \in Int
      BY DEF VInv, View!TypeOK
    <3>6. /\ packets = decoded => drawn[t] <= At(t, View!Lerp(now' - stamp))
          /\ render = "read" /\ frame = decoded => drawn[t] <= At(t, View!Lerp(now' - seen))
          /\ render \in {"objects", "players"} /\ frame = decoded => drawn[t] <= At(t, lerp)
      BY <2>1, <3>3, <3>4, <3>5 DEF InTime
    <3>7. /\ At(t, View!Lerp(now - stamp))' = At(t, View!Lerp(now' - stamp))
          /\ At(t, View!Lerp(now - seen))' = At(t, View!Lerp(now' - seen))
          /\ At(t, lerp)' = At(t, lerp)
      BY <1>1 DEF At
    <3> QED
      BY <1>1, <3>6, <3>7 DEF InTime
  <2> QED
    BY <2>2, <2>3
<1> QED
  BY <1>2, <1>6, <1>7 DEF VInv

LEMMA ReadVInv ==
  ASSUME VInv, View!ReadStamp \/ View!ReadTime
  PROVE  VInv'
<1> USE ViewNumbers
<1>1. /\ UNCHANGED <<now, stamp, things, worker, drawn, packets, decoded, mixed>>
      /\ \/ render = "idle" /\ render' = "read" /\ seen' = stamp /\ frame' = packets
            /\ lerp' = lerp
         \/ /\ render = "read" /\ render' = "objects" /\ seen' = seen /\ frame' = frame
            /\ IF seen = -1 THEN lerp' \in 0..Window ELSE lerp' = View!Lerp(now - seen)
  BY DEF View!ReadStamp, View!ReadTime
<1>2. /\ now \in Nat /\ stamp \in Int /\ seen \in Int /\ packets \in Nat /\ frame \in Nat
      /\ stamp <= now /\ seen <= now /\ lerp \in 0..Window /\ decoded \in Nat
  BY DEF VInv, View!TypeOK, Stamps
<1>3. now - stamp \in Nat /\ now - seen \in Nat
  BY <1>2
<1>4. View!Lerp(now - stamp) \in 0..Window /\ View!Lerp(now - seen) \in 0..Window
  BY <1>3, Lerps
<1>5. lerp' \in 0..Window
  BY <1>1, <1>2, <1>4
<1>6. View!TypeOK'
  <2>1. seen' \in -1..MaxTime /\ frame' \in 0..packets'
    BY <1>1 DEF VInv, View!TypeOK
  <2>2. render' \in {"idle", "read", "objects", "players"}
    BY <1>1
  <2> QED
    BY <1>1, <1>5, <2>1, <2>2 DEF VInv, View!TypeOK
<1>7. Stamps'
  <2>1. render' \in {"objects", "players"} /\ frame' > 0 => lerp' <= View!Lerp(now' - seen')
    <3> SUFFICES ASSUME render' \in {"objects", "players"}, frame' > 0
                 PROVE  lerp' <= View!Lerp(now' - seen')
      OBVIOUS
    <3>1. render = "read" /\ seen' = seen /\ frame' = frame /\ now' = now
      BY <1>1
    <3>2. seen # -1
      BY <3>1 DEF VInv, Stamps
    <3>3. lerp' = View!Lerp(now - seen)
      BY <1>1, <3>1, <3>2
    <3> QED
      BY <1>4, <3>1, <3>3
  <2>2. View!Lerp(now - seen)' = View!Lerp(now' - seen')
    BY DEF View!Lerp
  <2>3. seen' <= now' /\ (frame' > 0 => seen' >= 0)
    BY <1>1, <1>2 DEF VInv, Stamps
  <2>4. render' # "idle" /\ frame' = packets' => seen' = stamp'
    BY <1>1 DEF VInv, Stamps
  <2>5. decoded' = 0 => \A t \in View!Things : ~ View!Present(t)'
    BY <1>1 DEF VInv, Stamps, View!Present, View!None
  <2> QED
    BY <1>1, <2>1, <2>2, <2>3, <2>4, <2>5 DEF VInv, Stamps
<1>8. ASSUME NEW t \in View!Things PROVE Behind(t)' /\ InTime(t)'
  <2>1. Behind(t) /\ InTime(t)
    BY DEF VInv
  <2>2. Behind(t)'
    BY <1>1, <2>1, BehindStays
  <2>3. InTime(t)'
    <3> SUFFICES ASSUME View!Present(t), ~ things[t].asleep, ~ mixed PROVE InTime(t)'
      BY <1>1 DEF InTime, View!Present, View!None
    <3>1. /\ At(t, View!Lerp(now - stamp))' = At(t, View!Lerp(now - stamp))
          /\ At(t, View!Lerp(now - seen))' = At(t, View!Lerp(now - seen'))
          /\ At(t, lerp)' = At(t, lerp')
      BY <1>1 DEF At, View!Lerp
    <3>2. /\ packets = decoded => drawn[t] <= At(t, View!Lerp(now - stamp))
          /\ render = "read" /\ frame = decoded => drawn[t] <= At(t, View!Lerp(now - seen))
      BY <2>1 DEF InTime
    <3>3. CASE render' = "read"
      BY <1>1, <3>1, <3>2, <3>3 DEF InTime
    <3>4. CASE render' = "objects"
      <4>1. render = "read" /\ seen' = seen /\ frame' = frame
        BY <1>1, <3>4
      <4>2. frame = decoded => lerp' = View!Lerp(now - seen)
        <5>1. decoded # 0
          BY DEF VInv, Stamps
        <5>2. frame = decoded => seen # -1
          BY <1>2, <5>1 DEF VInv, Stamps
        <5> QED
          BY <1>1, <4>1, <5>2
      <4> QED
        BY <1>1, <3>1, <3>2, <3>4, <4>1, <4>2 DEF InTime
    <3> QED
      BY <1>1, <3>3, <3>4
  <2> QED
    BY <2>2, <2>3
<1> QED
  BY <1>6, <1>7, <1>8 DEF VInv

LEMMA Overwritten ==
  ASSUME NEW r \in Thing
  PROVE  /\ \A to \in Int :
              LET u == View!OnUpdate(r, to)
              IN  u \in Thing /\ u.prev = r.curr /\ u.net = to /\ u.curr = r.curr
         /\ \A a \in BOOLEAN :
              LET u == [r EXCEPT !.asleep = a]
              IN  u \in Thing /\ u.prev = r.prev /\ u.net = r.net /\ u.curr = r.curr
<1>1. ASSUME NEW to \in Int
      PROVE  LET u == View!OnUpdate(r, to)
             IN  u \in Thing /\ u.prev = r.curr /\ u.net = to /\ u.curr = r.curr
  BY DEF View!OnUpdate, Thing
<1>2. ASSUME NEW a \in BOOLEAN
      PROVE  LET u == [r EXCEPT !.asleep = a]
             IN  u \in Thing /\ u.prev = r.prev /\ u.net = r.net /\ u.curr = r.curr
  BY DEF Thing
<1> QED
  BY <1>1, <1>2

(* What a message makes of a thing.                                        *)
LEMMA Updated ==
  ASSUME VInv, NEW t \in View!Things, NEW u \in View!Updates(t),
         u # View!None
  PROVE  /\ u \in Thing /\ u.prev <= u.curr /\ u.curr <= u.net
         /\ drawn[t] \in Int
         /\ View!Present(t) => drawn[t] <= u.curr
         /\ ~ View!Present(t) => u.curr = 0
         /\ u.asleep \/ u.prev = u.curr
<1> USE ViewNumbers
<1> DEFINE r == things[t]
<1>1. r \in Thing /\ drawn[t] \in Int
  BY DEF VInv, View!TypeOK, Thing
<1>2. Behind(t)
  BY DEF VInv
<1>3. CASE ~ View!Present(t)
  <2>1. u = [prev |-> 0, net |-> 0, curr |-> 0, asleep |-> FALSE]
    BY <1>3 DEF View!Updates, View!OnAdd
  <2> QED
    BY <1>1, <1>3, <2>1 DEF Thing
<1>4. CASE View!Present(t)
  <2> DEFINE Onward(v) == /\ v \in Thing /\ v.prev = r.curr /\ v.curr = r.curr
                        /\ r.net <= v.net
             sent == {View!OnUpdate(r, r.net + d) : d \in {0, Stride}}
  <2>1. ASSUME NEW v \in sent PROVE Onward(v)
    <3>1. PICK d \in {0, Stride} : v = View!OnUpdate(r, r.net + d)
      OBVIOUS
    <3>2. r.net \in Int /\ r.net + d \in Int /\ r.net <= r.net + d
      BY <1>1 DEF Thing
    <3> QED
      BY <1>1, <3>1, <3>2, Overwritten
  <2>2. ASSUME NEW v \in sent, NEW a \in BOOLEAN PROVE Onward([v EXCEPT !.asleep = a])
    <3>1. Onward(v)
      BY <2>1
    <3> HIDE DEF sent
    <3> QED
      BY <3>1, Overwritten
  <2>3. \/ u = r /\ r.asleep
        \/ u \in sent
        \/ \E v \in sent : u = [v EXCEPT !.asleep = TRUE] \/ u = [v EXCEPT !.asleep = FALSE]
    BY <1>4, Zenon DEF View!Updates
  <2>4. CASE u = r /\ r.asleep
    BY <1>1, <1>2, <1>4, <2>4 DEF Behind
  <2>5. CASE Onward(u)
    <3>1. drawn[t] <= r.curr /\ r.curr <= r.net
      BY <1>2, <1>4 DEF Behind
    <3>2. r.curr \in Int /\ r.net \in Int /\ u.net \in Int
      BY <1>1, <2>5 DEF Thing
    <3> QED
      BY <1>1, <1>4, <2>5, <3>1, <3>2
  <2>6. Onward(u) \/ (u = r /\ r.asleep)
    <3>1. CASE \E v \in sent : u = [v EXCEPT !.asleep = TRUE] \/ u = [v EXCEPT !.asleep = FALSE]
      <4>1. PICK v \in sent : u = [v EXCEPT !.asleep = TRUE] \/ u = [v EXCEPT !.asleep = FALSE]
        BY <3>1
      <4>2. Onward([v EXCEPT !.asleep = TRUE]) /\ Onward([v EXCEPT !.asleep = FALSE])
        BY <2>2
      <4> HIDE DEF Onward, sent
      <4> QED
        BY <4>1, <4>2
    <3> HIDE DEF Onward, sent
    <3> QED
      BY <2>1, <2>3, <3>1
  <2> QED
    BY <2>4, <2>5, <2>6
<1> QED
  BY <1>3, <1>4

LEMMA DecodeVInv ==
  ASSUME VInv, View!Decode
  PROVE  VInv'
<1> USE ViewNumbers
<1>1. /\ worker = "decode" /\ worker' = "idle"
      /\ things' \in [View!Things -> UNION {View!Updates(t) : t \in View!Things}]
      /\ \A t \in View!Things : things'[t] \in View!Updates(t)
      /\ drawn' = [t \in View!Things |-> IF View!Present(t) THEN drawn[t] ELSE -1]
      /\ decoded' = packets /\ mixed' = FALSE
      /\ UNCHANGED <<now, stamp, render, seen, lerp, packets, frame>>
  BY DEF View!Decode
<1>2. ASSUME NEW t \in View!Things
      PROVE  /\ things'[t] \in Thing /\ drawn'[t] \in Int
             /\ Behind(t)'
             /\ things'[t] # View!None =>
                  things'[t].asleep \/ (drawn'[t] <= things'[t].prev)
  <2>1. CASE things'[t] = View!None
    <3>1. View!None \in Thing
      BY Zenon, IntegersHere DEF View!None, Thing
    <3>2. drawn'[t] \in Int
      BY <1>1 DEF VInv, View!TypeOK
    <3> QED
      BY <2>1, <3>1, <3>2 DEF Behind, View!Present, View!None
  <2>2. CASE things'[t] # View!None
    <3>1. PICK u : u = things'[t] /\ u \in View!Updates(t)
      BY <1>1
    <3>2. /\ u \in Thing /\ u.prev <= u.curr /\ u.curr <= u.net
          /\ drawn[t] \in Int
          /\ View!Present(t) => drawn[t] <= u.curr
          /\ ~ View!Present(t) => u.curr = 0
          /\ u.asleep \/ u.prev = u.curr
      BY <2>2, <3>1, Updated
    <3>3. drawn'[t] \in Int /\ drawn'[t] <= u.curr
      <4>1. drawn'[t] = IF View!Present(t) THEN drawn[t] ELSE -1
        BY <1>1
      <4> QED
        BY <3>2, <4>1
    <3>4. Behind(t)'
      BY <3>1, <3>2, <3>3 DEF Behind, View!Present
    <3> QED
      BY <3>1, <3>2, <3>3, <3>4
  <2> QED
    BY <2>1, <2>2
<1>3. View!TypeOK'
  <2>1. drawn' \in [View!Things -> Int]
    BY <1>1, <1>2
  <2>2. mixed' \in BOOLEAN
    BY <1>1, Zenon
  <2> QED
    BY <1>1, <1>2, <2>1, <2>2 DEF VInv, View!TypeOK, Thing
<1>4. Stamps'
  <2>1. packets > 0 /\ packets \in Nat
    BY <1>1 DEF VInv, Stamps, View!TypeOK
  <2>2. View!Lerp(now - seen)' = View!Lerp(now - seen)
    BY <1>1 DEF View!Lerp
  <2> QED
    BY <1>1, <2>1, <2>2 DEF VInv, Stamps
<1>5. ASSUME NEW t \in View!Things PROVE InTime(t)'
  <2> SUFFICES ASSUME things'[t] # View!None, ~ things'[t].asleep PROVE InTime(t)'
    BY DEF InTime, View!Present, View!None
  <2>1. ASSUME NEW l \in 0..Window PROVE drawn'[t] <= At(t, l)'
    <3>1. PICK u \in Thing : u = things'[t]
      BY <1>2
    <3>2. u.prev \in Int /\ u.net \in Int /\ u.prev <= u.net
      BY <1>2, <3>1 DEF Behind, View!Present, View!None, Thing
    <3>3. PICK way \in Nat : way = u.net - u.prev
      BY <3>2
    <3>4. (way * l) \div Window \in Int /\ 0 <= (way * l) \div Window
      BY <3>3, PartWay
    <3>5. At(t, l)' = u.prev + (way * l) \div Window
      BY <3>1, <3>3 DEF At
    <3>6. drawn'[t] <= u.prev /\ drawn'[t] \in Int
      BY <1>2, <3>1
    <3> QED
      BY <3>2, <3>4, <3>5, <3>6
  <2>2. now - stamp \in Nat /\ now - seen \in Nat /\ lerp \in 0..Window
    BY DEF VInv, Stamps, View!TypeOK
  <2>3. View!Lerp(now - stamp) \in 0..Window /\ View!Lerp(now - seen) \in 0..Window
    BY <2>2, Lerps
  <2>4. /\ drawn'[t] <= At(t, View!Lerp(now - stamp))'
        /\ drawn'[t] <= At(t, View!Lerp(now - seen))'
        /\ drawn'[t] <= At(t, lerp)'
    <3>1. /\ At(t, View!Lerp(now - stamp))' =
               things'[t].prev + ((things'[t].net - things'[t].prev) * View!Lerp(now - stamp)) \div Window
          /\ At(t, View!Lerp(now - seen))' =
               things'[t].prev + ((things'[t].net - things'[t].prev) * View!Lerp(now - seen)) \div Window
          /\ At(t, lerp)' = things'[t].prev + ((things'[t].net - things'[t].prev) * lerp) \div Window
      BY <1>1 DEF At, View!Lerp
    <3> QED
      BY <2>1, <2>2, <2>3, <3>1 DEF At
  <2> QED
    BY <2>4 DEF InTime
<1> QED
  BY <1>2, <1>3, <1>4, <1>5 DEF VInv

(* What a frame makes of one kind of things.                               *)
LEMMA DrawIs ==
  ASSUME VInv, NEW kind \in SUBSET View!Things, NEW from, NEW to, View!Draw(kind, from, to),
         NEW t \in View!Things
  PROVE  /\ things'[t] \in Thing /\ drawn'[t] \in Int
         /\ View!Present(t)' <=> View!Present(t)
         /\ things'[t].prev = things[t].prev /\ things'[t].net = things[t].net
         /\ things'[t].asleep = things[t].asleep
         /\ \/ things'[t] = things[t] /\ drawn'[t] = drawn[t]
            \/ /\ View!Present(t) /\ t \in kind /\ things'[t].curr = drawn'[t]
               /\ things[t].asleep => drawn'[t] = things[t].net
               /\ ~ things[t].asleep => drawn'[t] = At(t, lerp)
         /\ t \in kind /\ View!Present(t) /\ things[t].asleep => drawn'[t] = things[t].net
         /\ t \in kind /\ View!Present(t) /\ ~ things[t].asleep => drawn'[t] = At(t, lerp)
<1> USE ViewNumbers
<1>1. /\ things' = [s \in View!Things |-> IF s \in {x \in kind : View!Present(x)}
                                          THEN [things[s] EXCEPT !.curr = View!Pose(things[s])]
                                          ELSE things[s]]
      /\ drawn' = [s \in View!Things |-> IF s \in {x \in kind : View!Present(x)}
                                         THEN View!Pose(things[s]) ELSE drawn[s]]
  BY DEF View!Draw
<1>2. things[t] \in Thing /\ drawn[t] \in Int /\ lerp \in 0..Window
  BY DEF VInv, View!TypeOK, Thing
<1>3. CASE ~ (t \in kind /\ View!Present(t))
  <2>1. things'[t] = things[t] /\ drawn'[t] = drawn[t]
    BY <1>1, <1>3
  <2>2. View!Present(t)' <=> View!Present(t)
    BY <2>1 DEF View!Present, View!None
  <2> QED
    BY <1>2, <1>3, <2>1, <2>2
<1>4. CASE t \in kind /\ View!Present(t)
  <2>1. /\ things'[t] = [things[t] EXCEPT !.curr = View!Pose(things[t])]
        /\ drawn'[t] = View!Pose(things[t])
    BY <1>1, <1>4
  <2>2. things[t].prev <= things[t].net /\ things[t].prev \in Int /\ things[t].net \in Int
    BY <1>2, <1>4 DEF VInv, Behind, Thing
  <2>3. At(t, lerp) \in Int
    BY <1>2, <2>2, Ways DEF VInv
  <2>4. /\ things[t].asleep => View!Pose(things[t]) = things[t].net
        /\ ~ things[t].asleep => View!Pose(things[t]) = At(t, lerp)
    BY DEF View!Pose, At
  <2>5. View!Pose(things[t]) \in Int
    BY <2>2, <2>3, <2>4
  <2>6. /\ things'[t] \in Thing /\ things'[t].curr = View!Pose(things[t])
        /\ things'[t].prev = things[t].prev /\ things'[t].net = things[t].net
        /\ things'[t].asleep = things[t].asleep
    BY <1>2, <2>1, <2>5 DEF Thing
  <2>7. View!Present(t)'
    <3> SUFFICES ASSUME things'[t] = View!None PROVE FALSE
      BY DEF View!Present, View!None
    <3>1. things'[t].curr = -1 /\ things'[t].prev = -1 /\ things'[t].net = -1 /\ things'[t].asleep = FALSE
      BY DEF View!None
    <3>2. things[t].curr = -1
      <4>1. things[t].prev <= things[t].curr /\ things[t].curr <= things[t].net
        BY <1>4 DEF VInv, Behind
      <4>2. things[t].curr \in Int
        BY <1>2 DEF Thing
      <4>3. things[t].prev = -1 /\ things[t].net = -1
        BY <2>6, <3>1
      <4> QED
        BY <4>1, <4>2, <4>3
    <3>3. things[t] = [prev |-> -1, net |-> -1, curr |-> -1, asleep |-> FALSE]
      BY <1>2, <2>6, <3>1, <3>2 DEF Thing
    <3> QED
      BY <1>4, <3>3 DEF View!Present, View!None
  <2> QED
    BY <1>4, <2>1, <2>4, <2>5, <2>6, <2>7
<1> QED
  BY <1>3, <1>4

LEMMA DrawVInv ==
  ASSUME VInv, View!DrawObjects \/ View!DrawPlayers
  PROVE  VInv'
<1> USE ViewNumbers
<1>1. PICK kind \in SUBSET View!Things, from \in {"objects", "players"}, to \in {"players", "idle"} :
        View!Draw(kind, from, to)
  <2>1. Objects \in SUBSET View!Things /\ Players \in SUBSET View!Things
    BY DEF View!Things
  <2> QED
    BY <2>1 DEF View!DrawObjects, View!DrawPlayers
<1>2. /\ render = from /\ render' = to
      /\ mixed' = (mixed \/ frame # decoded)
      /\ UNCHANGED <<now, stamp, worker, seen, lerp, packets, decoded, frame>>
  BY <1>1 DEF View!Draw
<1>3. /\ now \in Nat /\ stamp \in Int /\ seen \in Int /\ packets \in Nat /\ frame \in Nat
      /\ stamp <= now /\ seen <= now /\ lerp \in 0..Window /\ decoded \in Nat
  BY DEF VInv, View!TypeOK, Stamps
<1>4. View!Lerp(now - stamp) \in 0..Window /\ View!Lerp(now - seen) \in 0..Window
  BY <1>3, Lerps
<1>5. ASSUME NEW t \in View!Things
      PROVE  /\ things'[t] \in Thing /\ drawn'[t] \in Int
             /\ View!Present(t)' <=> View!Present(t)
             /\ things'[t].prev = things[t].prev /\ things'[t].net = things[t].net
             /\ things'[t].asleep = things[t].asleep
             /\ \/ things'[t] = things[t] /\ drawn'[t] = drawn[t]
                \/ /\ View!Present(t) /\ t \in kind /\ things'[t].curr = drawn'[t]
                   /\ things[t].asleep => drawn'[t] = things[t].net
                   /\ ~ things[t].asleep => drawn'[t] = At(t, lerp)
  BY <1>1, DrawIs
<1>6. View!TypeOK'
  <2>1. drawn' \in [View!Things -> Int]
    BY <1>1, <1>5 DEF View!Draw
  <2>2. mixed' \in BOOLEAN
    BY <1>2, Zenon
  <2> QED
    BY <1>2, <1>5, <2>1, <2>2 DEF VInv, View!TypeOK, Thing
<1>7. Stamps'
  <2>1. View!Lerp(now - seen)' = View!Lerp(now - seen)
    BY <1>2 DEF View!Lerp
  <2>2. \A t \in View!Things : View!Present(t)' <=> View!Present(t)
    BY <1>5
  <2> QED
    BY <1>2, <2>1, <2>2 DEF VInv, Stamps
<1>8. ASSUME NEW t \in View!Things PROVE Behind(t)' /\ InTime(t)'
  <2>1. Behind(t) /\ InTime(t)
    BY DEF VInv
  <2>2. CASE things'[t] = things[t] /\ drawn'[t] = drawn[t]
    <3>1. Behind(t)'
      BY <2>1, <2>2, BehindStays
    <3>2. /\ At(t, View!Lerp(now - stamp))' = At(t, View!Lerp(now - stamp))
          /\ At(t, lerp)' = At(t, lerp)
      BY <1>2, <2>2 DEF At, View!Lerp
    <3>3. ~ mixed' => ~ mixed
      BY <1>2
    <3> QED
      BY <1>2, <1>5, <2>1, <2>2, <3>1, <3>2, <3>3 DEF InTime
  <2>3. CASE View!Present(t) /\ ~ (things'[t] = things[t] /\ drawn'[t] = drawn[t])
    <3>1. /\ things[t].prev \in Int /\ things[t].net \in Int
          /\ things[t].prev <= things[t].net
      BY <2>1, <2>3 DEF Behind, VInv, View!TypeOK
    <3>2. /\ At(t, lerp) \in Int
          /\ things[t].prev <= At(t, lerp) /\ At(t, lerp) <= things[t].net
      BY <1>3, <3>1, Ways DEF VInv
    <3>3. Behind(t)'
      <4>1. /\ things'[t].curr = drawn'[t]
            /\ drawn'[t] = things[t].net \/ drawn'[t] = At(t, lerp)
        BY <1>5, <2>3
      <4> QED
        BY <1>5, <3>1, <3>2, <4>1 DEF Behind
    <3>4. InTime(t)'
      <4> SUFFICES ASSUME ~ things[t].asleep, ~ mixed' PROVE InTime(t)'
        BY <1>5 DEF InTime
      <4>1. drawn'[t] = At(t, lerp) /\ frame = decoded
        BY <1>2, <1>5, <2>3
      <4>2. packets = decoded => At(t, lerp) <= At(t, View!Lerp(now - stamp))
        <5> SUFFICES ASSUME packets = decoded PROVE At(t, lerp) <= At(t, View!Lerp(now - stamp))
          OBVIOUS
        <5>1. decoded # 0
          BY <2>3 DEF VInv, Stamps
        <5>2. seen = stamp /\ lerp <= View!Lerp(now - seen)
          BY <1>2, <1>3, <4>1, <5>1 DEF VInv, Stamps
        <5>3. lerp <= View!Lerp(now - stamp)
          BY <5>2
        <5> QED
          BY <1>3, <1>4, <3>1, <5>3, Ways DEF VInv
      <4>3. /\ At(t, View!Lerp(now - stamp))' = At(t, View!Lerp(now - stamp))
            /\ At(t, lerp)' = At(t, lerp)
        BY <1>2, <1>5 DEF At, View!Lerp
      <4>4. packets' = packets /\ decoded' = decoded /\ render' # "read"
        BY <1>1, <1>2
      <4> QED
        BY <3>2, <4>1, <4>2, <4>3, <4>4 DEF InTime
    <3> QED
      BY <3>3, <3>4
  <2> QED
    BY <1>5, <2>2, <2>3
<1> QED
  BY <1>6, <1>7, <1>8 DEF VInv

LEMMA ViewStep == VInv /\ [View!Next]_viewVars => VInv'
<1> SUFFICES ASSUME VInv, [View!Next]_viewVars PROVE VInv'
  OBVIOUS
<1>1. CASE UNCHANGED viewVars
  <2>1. \A t \in View!Things : Behind(t)' /\ InTime(t)'
    BY <1>1 DEF viewVars, VInv, Behind, InTime, At, View!Present, View!None, View!Lerp
  <2> QED
    BY <1>1, <2>1 DEF viewVars, VInv, View!TypeOK, Stamps, View!Present, View!None, View!Lerp
<1> QED
  BY <1>1, StampVInv, DecodeVInv, ReadVInv, DrawVInv, TickVInv DEF View!Next, View!Render

-----------------------------------------------------------------------------
(* The stamps of messages and frames, and how far each thing may be drawn  *)
(* between them (gui.cpp:30-46, gui.hpp:85-91), stay as VInv says.         *)
THEOREM ViewInvariance == PartsSpec => []VInv
<1>1. PartsInit => VInv
  BY ViewInit DEF PartsInit
<1>2. VInv /\ [PartsNext]_<<part, vars, rotationVars, viewVars>> => VInv'
  BY ViewStep DEF PartsNext
<1> QED
  BY <1>1, <1>2, PTL DEF PartsSpec

(***************************************************************************)
(* For any number of things, any window, stride and number of messages:    *)
(* nothing is drawn ahead of what the server has said, not even by a frame *)
(* whose lerp is from another message (gui.hpp:85-91).                     *)
(***************************************************************************)
THEOREM DrawnBehind == PartsSpec => []NeverAhead
<1>1. VInv => NeverAhead
  <2> SUFFICES ASSUME VInv PROVE View!TypeOK /\ View!NeverAhead
    BY DEF NeverAhead
  <2>1. ASSUME NEW t \in View!Things, View!Present(t)
        PROVE  /\ things[t].prev <= things[t].curr /\ things[t].curr <= things[t].net
               /\ drawn[t] <= things[t].net
    <3>1. /\ things[t].prev <= things[t].curr /\ things[t].curr <= things[t].net
          /\ drawn[t] <= things[t].curr
      BY <2>1 DEF VInv, Behind
    <3>2. drawn[t] \in Int /\ things[t].curr \in Int /\ things[t].net \in Int
      BY DEF VInv, View!TypeOK
    <3> QED
      BY <3>1, <3>2
  <2> QED
    BY <2>1 DEF VInv, View!NeverAhead
<1> QED
  BY <1>1, ViewInvariance, PTL

(***************************************************************************)
(* For any number of things, any window, stride and number of messages:    *)
(* things that move forward are drawn moving forward, unless since the     *)
(* last message a frame took its lerp from another than its poses          *)
(* (gui.cpp:30-46): that race is the only cause of things jumping back.    *)
(***************************************************************************)
THEOREM DrawnForward == PartsSpec => SmoothUnlessMixed
<1>1. VInv /\ [View!Next]_viewVars =>
        (render' # render /\ ~ mixed' => \A t \in View!Things : drawn'[t] >= drawn[t])
  <2> SUFFICES ASSUME VInv, [View!Next]_viewVars, render' # render, ~ mixed',
                      NEW t \in View!Things
               PROVE  drawn'[t] >= drawn[t]
    OBVIOUS
  <2>1. drawn[t] \in Int
    BY DEF VInv, View!TypeOK
  <2>2. CASE View!ReadStamp \/ View!ReadTime
    BY <2>1, <2>2 DEF View!ReadStamp, View!ReadTime
  <2>3. CASE View!DrawObjects \/ View!DrawPlayers
    <3>1. PICK kind \in SUBSET View!Things, from \in {"objects", "players"},
               to \in {"players", "idle"} : View!Draw(kind, from, to)
      <4>1. Objects \in SUBSET View!Things /\ Players \in SUBSET View!Things
        BY DEF View!Things
      <4> QED
        BY <2>3, <4>1 DEF View!DrawObjects, View!DrawPlayers
    <3>2. ~ mixed /\ frame = decoded /\ render = from
      BY <3>1 DEF View!Draw
    <3>3. \/ drawn'[t] = drawn[t]
          \/ /\ View!Present(t)
             /\ things[t].asleep => drawn'[t] = things[t].net
             /\ ~ things[t].asleep => drawn'[t] = At(t, lerp)
      BY <3>1, DrawIs
    <3>4. CASE View!Present(t) /\ things[t].asleep /\ drawn'[t] = things[t].net
      <4>1. drawn[t] <= things[t].curr /\ things[t].curr <= things[t].net
        BY <3>4 DEF VInv, Behind
      <4>2. things[t].curr \in Int /\ things[t].net \in Int
        BY DEF VInv, View!TypeOK
      <4> QED
        BY <2>1, <3>4, <4>1, <4>2
    <3>5. CASE View!Present(t) /\ ~ things[t].asleep /\ drawn'[t] = At(t, lerp)
      <4>1. drawn[t] <= At(t, lerp)
        BY <3>2, <3>5 DEF VInv, InTime
      <4>2. At(t, lerp) \in Int
        <5>1. drawn'[t] \in Int
          BY <3>1, DrawIs
        <5> QED
          BY <3>5, <5>1
      <4> QED
        BY <2>1, <3>5, <4>1, <4>2
    <3> QED
      BY <2>1, <3>3, <3>4, <3>5
  <2>4. CASE View!Stamp \/ View!Decode \/ View!Tick \/ UNCHANGED viewVars
    BY <2>4 DEF View!Stamp, View!Decode, View!Tick, viewVars
  <2> QED
    BY <2>2, <2>3, <2>4 DEF View!Next, View!Render
<1>2. viewVars = View!vars
  BY DEF viewVars, View!vars
<1>3. VInv /\ [PartsNext]_<<part, vars, rotationVars, viewVars>> => [View!Next]_viewVars
  BY DEF PartsNext
<1>4. VInv /\ [PartsNext]_<<part, vars, rotationVars, viewVars>> =>
        [render' # render /\ ~ mixed' =>
           \A t \in View!Things : drawn'[t] >= drawn[t]]_(View!vars)
  BY <1>1, <1>2, <1>3
<1>5. PartsSpec => [][render' # render /\ ~ mixed' =>
                        \A t \in View!Things : drawn'[t] >= drawn[t]]_(View!vars)
  BY <1>4, ViewInvariance, PTL DEF PartsSpec
<1> QED
  BY <1>5 DEF SmoothUnlessMixed, View!SmoothUnlessMixed

-----------------------------------------------------------------------------
(* The rotation.                                                           *)

Squared(n) == n * n

LEMMA RotationNumbers ==
  /\ Rotation!c = 511 /\ Rotation!Unit2 = 522242 /\ Rotation!Parts = 1..4
  /\ Norm \in Nat \ {0}
  /\ \A n : Rotation!Square(n) = Squared(n)
BY SMT, RotationAssumption
   DEF Rotation!c, Rotation!Unit2, Rotation!Parts, Rotation!RotationConstants,
       Rotation!Square, Squared

LEMMA SquaredIs == \A n \in Int : Squared(n) \in Nat /\ Squared(-n) = Squared(n)
BY DEF Squared

LEMMA Cancel ==
  ASSUME NEW a \in Int, NEW b \in Int, NEW m \in Nat \ {0}, a * m <= b * m
  PROVE  a <= b
<1> SUFFICES ASSUME b < a PROVE FALSE
  OBVIOUS
<1>1. PICK d \in Nat : a = b + 1 + d
  OBVIOUS
<1>2. a * m = b * m + m + d * m /\ d * m >= 0
  BY <1>1
<1>3. a * m \in Int /\ b * m \in Int /\ d * m \in Int
  OBVIOUS
<1> QED
  BY <1>2, <1>3

LEMMA SquaresGrow ==
  ASSUME NEW a \in Nat, NEW b \in Nat, a <= b
  PROVE  Squared(a) <= Squared(b)
<1>1. PICK d \in Nat : b = a + d
  OBVIOUS
<1>2. b * b = a * a + 2 * (a * d) + d * d /\ a * d \in Nat /\ d * d \in Nat /\ a * a \in Nat
  BY <1>1
<1> QED
  BY <1>2 DEF Squared

LEMMA Magnitudes ==
  ASSUME NEW a \in Int
  PROVE  /\ Rotation!Magnitude(a) \in Nat
         /\ Squared(Rotation!Magnitude(a)) = Squared(a)
         /\ Rotation!Magnitude(-a) = Rotation!Magnitude(a)
         /\ Rotation!Magnitude(a) = a \/ Rotation!Magnitude(a) = -a
BY DEF Rotation!Magnitude, Squared

-----------------------------------------------------------------------------
(* roundf. *)

LEMMA LeastOf ==
  ASSUME NEW T, T \subseteq Nat, T # {}
  PROVE  \E m \in T : \A n \in T : m <= n
<1>1. PICK x \in T : \A y \in T : ~ (<<y, x>> \in OpToRel(<, Nat))
  BY NatLessThanWellFounded, WFMin
<1>2. \A y \in T : ~ (y < x)
  BY <1>1 DEF OpToRel
<1> QED
  BY <1>2

LEMMA RoundsIs ==
  ASSUME NEW r \in Nat, NEW n \in Int
  PROVE  Rotation!Rounds(r, n) <=>
           /\ r = 0 \/ Squared(2 * r - 1) * Squared(Norm) <= 2088968 * Squared(n)
           /\ Squared(2 * r + 1) * Squared(Norm) > 2088968 * Squared(n)
<1>1. 4 * 522242 = 2088968
  BY SMT
<1> QED
  BY SMT, <1>1, RotationNumbers DEF Rotation!Rounds

(* r is n rounded.                                                         *)
RoundTo(r, n) ==
  /\ r = 0 \/ Squared(2 * r - 1) * Squared(Norm) <= 2088968 * Squared(n)
  /\ Squared(2 * r + 1) * Squared(Norm) > 2088968 * Squared(n)

LEMMA Rounded1 ==
  ASSUME NEW n \in Int, Squared(n) <= Squared(Norm)
  PROVE  \E r \in 0..1022 : r = Rotation!Truc(n) /\ RoundTo(r, n)
<1> DEFINE T == {r \in Nat : Squared(2 * r + 1) * Squared(Norm) > 2088968 * Squared(n)}
<1>1. Squared(n) \in Nat /\ Squared(Norm) \in Nat /\ Squared(Norm) > 0
  <2>1. Norm \in Nat \ {0}
    BY SMT, RotationNumbers
  <2> QED
    BY SMT, <2>1 DEF Squared
<1>2. 1022 \in T
  <2>1. Squared(2 * 1022 + 1) = 4182025
    BY SMT DEF Squared
  <2>2. PICK m \in Nat : m = Squared(Norm)
    BY SMT, <1>1
  <2>3. PICK s \in Nat : s = Squared(n)
    BY SMT, <1>1
  <2>4. 4182025 * m > 2088968 * s
    BY SMT, <1>1, <2>2, <2>3
  <2> QED
    BY SMT, <2>1, <2>2, <2>3, <2>4
<1>3. T \subseteq Nat
  BY SMT
<1>4. PICK r \in T : \A k \in T : r <= k
  <2> HIDE DEF T
  <2> QED
    BY <1>2, <1>3, LeastOf, Zenon
<1>5. r \in 0..1022
  BY SMT, <1>2, <1>4
<1>6. r = 0 \/ Squared(2 * r - 1) * Squared(Norm) <= 2088968 * Squared(n)
  <2> SUFFICES ASSUME r # 0 PROVE Squared(2 * r - 1) * Squared(Norm) <= 2088968 * Squared(n)
    BY SMT
  <2>1. r - 1 \in Nat /\ 2 * (r - 1) + 1 = 2 * r - 1 /\ ~ (r <= r - 1)
    BY SMT, <1>5
  <2>2. r - 1 \notin T
    BY SMT, <1>4, <2>1
  <2>3. ~ (Squared(2 * (r - 1) + 1) * Squared(Norm) > 2088968 * Squared(n))
    BY SMT, <2>1, <2>2
  <2>4. ~ (Squared(2 * r - 1) * Squared(Norm) > 2088968 * Squared(n))
    BY SMT, <2>1, <2>3
  <2>5. PICK m \in Int : m = Squared(2 * r - 1)
    BY SMT, <1>5, SquaredIs
  <2>6. m * Squared(Norm) \in Int /\ 2088968 * Squared(n) \in Int
    BY SMT, <1>1
  <2> QED
    BY SMT, <2>4, <2>5, <2>6
<1>7. Rotation!Rounds(r, n)
  BY SMT, <1>5, <1>6, RoundsIs
<1>8. 2 * Rotation!c = 1022
  BY SMT, RotationNumbers
<1> HIDE DEF T
<1>9. PICK top : top = 1022
  OBVIOUS
<1>10. r \in 0..top /\ 2 * Rotation!c = top
  BY SMT, <1>5, <1>8, <1>9
<1>11. Rotation!Truc(n) \in 0..top /\ Rotation!Rounds(Rotation!Truc(n), n)
  BY <1>7, <1>10, Zenon DEF Rotation!Truc
<1>12. PICK t \in Nat : t = Rotation!Truc(n) /\ t \in 0..1022
  BY SMT, <1>9, <1>11
<1>13. Rotation!Rounds(t, n)
  BY <1>11, <1>12, Zenon
<1>14. RoundTo(t, n)
  BY SMT, <1>13, RoundsIs DEF RoundTo
<1> QED
  BY <1>12, <1>14, Zenon

(* How far a square of the rounded value is from the exact one, times m.   *)
LEMMA RoundingError ==
  ASSUME NEW n \in Int, Squared(n) <= Squared(Norm)
  PROVE  LET r == Rotation!Truc(n)
             m == Squared(Norm)
             e == Squared(n)
         IN  /\ r \in 0..1022
             /\ (r * r) * m <= 522242 * e + r * m
             /\ 522242 * e <= (r * r) * m + (r + 1) * m
<1>1. PICK r \in 0..1022 : r = Rotation!Truc(n) /\ RoundTo(r, n)
  BY Rounded1
<1>2. PICK m \in Nat : m = Squared(Norm)
  BY SMT, SquaredIs, RotationNumbers
<1>3. PICK e \in Nat : e = Squared(n)
  BY SMT, SquaredIs
<1>4. /\ r = 0 \/ Squared(2 * r - 1) * m <= 2088968 * e
      /\ Squared(2 * r + 1) * m > 2088968 * e
  BY SMT, <1>1, <1>2, <1>3 DEF RoundTo
<1>5. PICK v \in Nat : v = r * r
  BY SMT, <1>1
<1>6. Squared(2 * r - 1) = 4 * v - 4 * r + 1 /\ Squared(2 * r + 1) = 4 * v + 4 * r + 1
  BY SMT, <1>5 DEF Squared
<1>7. PICK x \in Nat : x = v * m
  BY SMT
<1>8. PICK y \in Nat : y = r * m
  BY SMT
<1>9. (4 * v - 4 * r + 1) * m = 4 * x - 4 * y + m /\ (4 * v + 4 * r + 1) * m = 4 * x + 4 * y + m
  BY SMT, <1>7, <1>8
<1>10. (r + 1) * m = y + m
  BY SMT, <1>8
<1>11. x <= 522242 * e + y
  <2>1. CASE r = 0
    BY SMT, <1>5, <1>7, <1>8, <2>1
  <2>2. CASE r # 0
    <3>1. 4 * x - 4 * y + m <= 2088968 * e
      BY SMT, <1>4, <1>6, <1>9, <2>2
    <3> QED
      BY SMT, <3>1
  <2> QED
    BY SMT, <2>1, <2>2
<1>12. 522242 * e <= x + (y + m)
  <2>1. 4 * x + 4 * y + m > 2088968 * e
    BY SMT, <1>4, <1>6, <1>9
  <2> QED
    BY SMT, <2>1
<1> QED
  BY SMT, <1>1, <1>2, <1>3, <1>5, <1>7, <1>8, <1>10, <1>11, <1>12

LEMMA NineBits ==
  ASSUME NEW n \in Int, 2 * Squared(n) <= Squared(Norm)
  PROVE  Rotation!Truc(n) \in 0..511
<1>1. Squared(n) \in Nat /\ Squared(Norm) \in Nat
  BY SMT, SquaredIs, RotationNumbers
<1>2. Squared(n) <= Squared(Norm)
  BY SMT, <1>1
<1>3. PICK r \in 0..1022 : r = Rotation!Truc(n) /\ RoundTo(r, n)
  BY <1>2, Rounded1
<1>4. PICK m \in Nat \ {0} : m = Squared(Norm)
  BY SMT, RotationNumbers DEF Squared
<1>5. PICK e \in Nat : e = Squared(n)
  BY SMT, SquaredIs
<1>6. CASE r # 0
  <2>1. Squared(2 * r - 1) * m <= 2088968 * e
    BY SMT, <1>3, <1>4, <1>5, <1>6 DEF RoundTo
  <2>2. 2088968 * e <= 1044484 * m
    BY SMT, <1>4, <1>5
  <2>3. PICK v \in Nat : v = Squared(2 * r - 1)
    BY SMT, SquaredIs
  <2>4. v * m <= 1044484 * m
    BY SMT, <2>1, <2>2, <2>3
  <2>5. v <= 1044484
    BY SMT, <2>4, Cancel
  <2>6. ASSUME r >= 512 PROVE FALSE
    <3>1. PICK d \in Nat : 2 * r - 1 = 1023 + d
      BY SMT, <2>6
    <3>2. Squared(2 * r - 1) = 1046529 + 2046 * d + d * d /\ d * d \in Nat
      BY SMT, <3>1 DEF Squared
    <3> QED
      BY SMT, <2>3, <2>5, <3>2
  <2> QED
    BY SMT, <1>3, <2>6
<1> QED
  BY SMT, <1>3, <1>6

-----------------------------------------------------------------------------
(* The component that is left out. *)

LEMMA QuatParts ==
  ASSUME NEW q \in Rotation!Rotations
  PROVE  /\ q \in [1..4 -> -Norm..Norm]
         /\ \A i \in 1..4 : q[i] \in Int /\ Squared(q[i]) \in Nat
         /\ Squared(q[1]) + Squared(q[2]) + Squared(q[3]) + Squared(q[4]) = Squared(Norm)
<1>1. /\ q \in [1..4 -> -Norm..Norm]
      /\ Squared(q[1]) + Squared(q[2]) + Squared(q[3]) + Squared(q[4]) = Squared(Norm)
  BY RotationNumbers DEF Rotation!Rotations
<1>2. \A i \in 1..4 : q[i] \in Int
  BY <1>1, RotationNumbers
<1> QED
  BY <1>1, <1>2, SquaredIs

(* The first of the largest.                                               *)
First(q, i) ==
  /\ \A j \in 1..4 : Rotation!Magnitude(q[j]) <= Rotation!Magnitude(q[i])
  /\ \A j \in 1..i - 1 : Rotation!Magnitude(q[j]) < Rotation!Magnitude(q[i])

LEMMA OneFirst ==
  ASSUME NEW q, \A i \in 1..4 : q[i] \in Int
  PROVE  /\ \E i \in 1..4 : First(q, i)
         /\ \A i, j \in 1..4 : First(q, i) /\ First(q, j) => i = j
<1> DEFINE m(i) == Rotation!Magnitude(q[i])
<1>1. \A i \in 1..4 : m(i) \in Nat
  BY Magnitudes
<1>2. \A i : First(q, i) <=> (\A j \in 1..4 : m(j) <= m(i)) /\ (\A j \in 1..i - 1 : m(j) < m(i))
  BY DEF First
<1> HIDE DEF m
<1>3. ASSUME NEW i \in 1..4, NEW j \in 1..4, First(q, i), First(q, j), i < j PROVE FALSE
  <2>1. m(i) < m(j) /\ m(j) <= m(i)
    BY <1>2, <1>3
  <2> QED
    BY <1>1, <2>1
<1>4. \E i \in 1..4 : First(q, i)
  <2>1. m(1) \in Nat /\ m(2) \in Nat /\ m(3) \in Nat /\ m(4) \in Nat
    BY <1>1
  <2>2. \A i : First(q, i) <=> /\ m(1) <= m(i) /\ m(2) <= m(i) /\ m(3) <= m(i) /\ m(4) <= m(i)
                              /\ \A j \in 1..i - 1 : m(j) < m(i)
    BY <1>2
  <2>3. CASE m(2) <= m(1) /\ m(3) <= m(1) /\ m(4) <= m(1)
    BY <2>1, <2>2, <2>3
  <2>4. CASE m(1) < m(2) /\ m(3) <= m(2) /\ m(4) <= m(2)
    BY <2>1, <2>2, <2>4
  <2>5. CASE m(1) < m(3) /\ m(2) < m(3) /\ m(4) <= m(3)
    <3>1. \A j \in 1..3 - 1 : j = 1 \/ j = 2
      OBVIOUS
    <3> QED
      BY <2>1, <2>2, <2>5, <3>1
  <2>6. CASE m(1) < m(4) /\ m(2) < m(4) /\ m(3) < m(4)
    <3>1. \A j \in 1..4 - 1 : j = 1 \/ j = 2 \/ j = 3
      OBVIOUS
    <3> QED
      BY <2>1, <2>2, <2>6, <3>1
  <2> QED
    BY <2>1, <2>3, <2>4, <2>5, <2>6
<1>5. ASSUME NEW i \in 1..4, NEW j \in 1..4, First(q, i), First(q, j) PROVE i = j
  BY <1>3, <1>5
<1> QED
  BY <1>4, <1>5

LEMMA IndexIs ==
  ASSUME NEW q, \A i \in 1..4 : q[i] \in Int
  PROVE  Rotation!Index(q) \in 1..4 /\ First(q, Rotation!Index(q))
<1>1. PICK i \in 1..4 : First(q, i)
  BY OneFirst
<1>2. Rotation!Parts = 1..4
  BY RotationNumbers
<1> QED
  BY <1>1, <1>2, Zenon DEF Rotation!Index, First

LEMMA LargestIs ==
  ASSUME NEW q \in Rotation!Rotations
  PROVE  LET at == Rotation!Index(q)
         IN  /\ at \in 1..4 /\ q[at] \in Int /\ q[at] # 0
             /\ \A j \in 1..4 : Squared(q[j]) <= Squared(q[at])
<1> DEFINE at == Rotation!Index(q)
<1>1. \A i \in 1..4 : q[i] \in Int
  BY QuatParts
<1>2. at \in 1..4 /\ \A j \in 1..4 : Rotation!Magnitude(q[j]) <= Rotation!Magnitude(q[at])
  BY <1>1, IndexIs DEF First
<1> HIDE DEF at
<1>3. ASSUME NEW j \in 1..4 PROVE Squared(q[j]) <= Squared(q[at])
  <2>1. /\ Rotation!Magnitude(q[j]) \in Nat /\ Rotation!Magnitude(q[at]) \in Nat
        /\ Squared(Rotation!Magnitude(q[j])) = Squared(q[j])
        /\ Squared(Rotation!Magnitude(q[at])) = Squared(q[at])
    BY <1>1, <1>2, Magnitudes
  <2>2. Squared(Rotation!Magnitude(q[j])) <= Squared(Rotation!Magnitude(q[at]))
    BY <1>2, <2>1, SquaresGrow
  <2> QED
    BY <2>1, <2>2
<1>4. q[at] # 0
  <2> SUFFICES ASSUME q[at] = 0 PROVE FALSE
    OBVIOUS
  <2>1. Squared(q[at]) = 0
    BY DEF Squared
  <2>2. Squared(q[1]) <= 0 /\ Squared(q[2]) <= 0 /\ Squared(q[3]) <= 0 /\ Squared(q[4]) <= 0
    BY <1>3, <2>1
  <2>3. /\ Squared(q[1]) \in Nat /\ Squared(q[2]) \in Nat /\ Squared(q[3]) \in Nat
        /\ Squared(q[4]) \in Nat
        /\ Squared(q[1]) + Squared(q[2]) + Squared(q[3]) + Squared(q[4]) = Squared(Norm)
    BY QuatParts
  <2>4. Squared(Norm) > 0
    BY RotationNumbers DEF Squared
  <2> QED
    BY <2>2, <2>3, <2>4
<1> QED
  BY <1>1, <1>2, <1>3, <1>4 DEF at

-----------------------------------------------------------------------------
(* What three roundings do to the fourth part. *)

(* r, squared, misses Unit2 times e by no more than a step, all times m.   *)
Off(r, e, m) ==
  /\ (r * r) * m <= 522242 * e + r * m
  /\ 522242 * e <= (r * r) * m + (r + 1) * m

Fourth(r1, r2, r3) == 522242 - r1 * r1 - r2 * r2 - r3 * r3

(* What is left for the fourth part, e of m.                               *)
Left(rest, e, m) ==
  /\ rest \in Int /\ 4 * rest >= 522242 - 9 * 511
  /\ rest * m <= 522242 * e + 1088 * m
  /\ 522242 * e <= rest * m + 1085 * m

LEMMA Budget ==
  ASSUME NEW m \in Nat \ {0}, NEW r1 \in 0..511, NEW r2 \in 0..511, NEW r3 \in 0..511,
         NEW e1 \in Nat, NEW e2 \in Nat, NEW e3 \in Nat, NEW e4 \in Nat,
         e1 + e2 + e3 + e4 = m, 4 * (e1 + e2 + e3) <= 3 * m,
         Off(r1, e1, m), Off(r2, e2, m), Off(r3, e3, m)
  PROVE  Left(Fourth(r1, r2, r3), e4, m)
<1>1. PICK v1 \in Nat, v2 \in Nat, v3 \in Nat : v1 = r1 * r1 /\ v2 = r2 * r2 /\ v3 = r3 * r3
  BY SMT
<1>2. PICK x1 \in Nat, x2 \in Nat, x3 \in Nat : x1 = v1 * m /\ x2 = v2 * m /\ x3 = v3 * m
  BY SMT
<1>3. PICK y1 \in Nat, y2 \in Nat, y3 \in Nat : y1 = r1 * m /\ y2 = r2 * m /\ y3 = r3 * m
  BY SMT
<1>4. /\ (r1 + 1) * m = y1 + m /\ (r2 + 1) * m = y2 + m /\ (r3 + 1) * m = y3 + m
  BY SMT, <1>3
<1>5. /\ x1 <= 522242 * e1 + y1 /\ 522242 * e1 <= x1 + y1 + m
      /\ x2 <= 522242 * e2 + y2 /\ 522242 * e2 <= x2 + y2 + m
      /\ x3 <= 522242 * e3 + y3 /\ 522242 * e3 <= x3 + y3 + m
  BY SMT, <1>1, <1>2, <1>3, <1>4 DEF Off
<1>6. 4 * x1 + 4 * x2 + 4 * x3 <= 1566726 * m + 4 * y1 + 4 * y2 + 4 * y3
  BY SMT, <1>5
<1>7. 4 * v1 + 4 * v2 + 4 * v3 <= 1566726 + 4 * r1 + 4 * r2 + 4 * r3
  <2>1. (4 * v1 + 4 * v2 + 4 * v3) * m = 4 * x1 + 4 * x2 + 4 * x3
    BY SMT, <1>2
  <2>2. (1566726 + 4 * r1 + 4 * r2 + 4 * r3) * m = 1566726 * m + 4 * y1 + 4 * y2 + 4 * y3
    BY SMT, <1>3
  <2>3. PICK a \in Int, b \in Int : a = 4 * v1 + 4 * v2 + 4 * v3 /\ b = 1566726 + 4 * r1 + 4 * r2 + 4 * r3
    BY SMT
  <2>4. a * m <= b * m
    BY SMT, <1>6, <2>1, <2>2, <2>3
  <2>5. a <= b
    BY <2>4, Cancel
  <2> QED
    BY SMT, <2>3, <2>5
<1>8. ASSUME NEW r \in 0..511 PROVE r * r >= 722 * r - 130321
  <2>1. PICK d \in Int : d = r - 361
    BY SMT
  <2>2. d * d >= 0
    BY SMT
  <2>3. r = d + 361
    BY SMT, <2>1
  <2>4. r * r = d * d + 722 * d + 130321
    BY SMT, <2>3
  <2> QED
    BY SMT, <2>2, <2>3, <2>4
<1>9. v1 >= 722 * r1 - 130321 /\ v2 >= 722 * r2 - 130321 /\ v3 >= 722 * r3 - 130321
  BY SMT, <1>1, <1>8
<1>10. r1 + r2 + r3 <= 1085
  BY SMT, <1>7, <1>9
<1>11. PICK rest \in Int : rest = 522242 - v1 - v2 - v3
  BY SMT
<1>12. 4 * rest >= 522242 - 9 * 511
  BY SMT, <1>7, <1>10, <1>11
<1>13. y1 + y2 + y3 <= 1085 * m
  <2>1. PICK d \in Nat : r1 + r2 + r3 + d = 1085
    BY SMT, <1>10
  <2>2. (r1 + r2 + r3 + d) * m = y1 + y2 + y3 + d * m /\ d * m >= 0 /\ d * m \in Int
    BY SMT, <1>3
  <2> QED
    BY SMT, <2>1, <2>2
<1>14. rest * m = 522242 * m - x1 - x2 - x3
  BY SMT, <1>2, <1>11
<1>15. rest * m <= 522242 * e4 + 1088 * m
  BY SMT, <1>5, <1>13, <1>14
<1>16. 522242 * e4 <= rest * m + 1085 * m
  BY SMT, <1>5, <1>13, <1>14
<1>17. rest = Fourth(r1, r2, r3)
  BY SMT, <1>1, <1>11 DEF Fourth
<1>18. Left(rest, e4, m)
  BY SMT, <1>12, <1>15, <1>16 DEF Left
<1> QED
  BY <1>17, <1>18, Zenon

-----------------------------------------------------------------------------
(* The code. *)

Sent(q, k) ==
  IF Rotation!Flip(q) THEN - q[Rotation!Other(Rotation!Index(q), k)]
                      ELSE q[Rotation!Other(Rotation!Index(q), k)]

LEMMA SentIs ==
  ASSUME NEW q \in Rotation!Rotations
  PROVE  LET at == Rotation!Index(q)
             m == Squared(Norm)
         IN  /\ \A k \in 1..3 : /\ Rotation!Other(at, k) \in 1..4 \ {at}
                               /\ Sent(q, k) \in Int
                               /\ Squared(Sent(q, k)) = Squared(q[Rotation!Other(at, k)])
                               /\ Squared(Sent(q, k)) \in Nat
                               /\ 2 * Squared(Sent(q, k)) <= m
             /\ Squared(q[at]) \in Nat
             /\ Squared(Sent(q, 1)) + Squared(Sent(q, 2)) + Squared(Sent(q, 3)) + Squared(q[at]) = m
             /\ 4 * (Squared(Sent(q, 1)) + Squared(Sent(q, 2)) + Squared(Sent(q, 3))) <= 3 * m
<1>1. PICK at \in 1..4 : at = Rotation!Index(q) /\ \A j \in 1..4 : Squared(q[j]) <= Squared(q[at])
  BY LargestIs
<1>2. /\ \A i \in 1..4 : q[i] \in Int /\ Squared(q[i]) \in Nat
      /\ Squared(q[1]) + Squared(q[2]) + Squared(q[3]) + Squared(q[4]) = Squared(Norm)
  BY QuatParts
<1>3. \A k \in 1..3 : Rotation!Other(at, k) = (IF k < at THEN k ELSE k + 1)
  BY DEF Rotation!Other
<1>4. \A k \in 1..3 : Rotation!Other(at, k) \in 1..4 \ {at}
  BY <1>3
<1>5. ASSUME NEW k \in 1..3
      PROVE  /\ Sent(q, k) \in Int /\ Squared(Sent(q, k)) = Squared(q[Rotation!Other(at, k)])
  <2>1. q[Rotation!Other(at, k)] \in Int
    BY <1>2, <1>4
  <2>2. Sent(q, k) = q[Rotation!Other(at, k)] \/ Sent(q, k) = - q[Rotation!Other(at, k)]
    BY <1>1 DEF Sent
  <2> QED
    BY <2>1, <2>2, SquaredIs
<1>6. PICK s1 \in Nat, s2 \in Nat, s3 \in Nat, s4 \in Nat :
        s1 = Squared(q[1]) /\ s2 = Squared(q[2]) /\ s3 = Squared(q[3]) /\ s4 = Squared(q[4])
  BY <1>2
<1>7. PICK m \in Int : m = Squared(Norm) /\ s1 + s2 + s3 + s4 = m
  BY <1>2, <1>6
<1>8. /\ Squared(Sent(q, 1)) = Squared(q[Rotation!Other(at, 1)])
      /\ Squared(Sent(q, 2)) = Squared(q[Rotation!Other(at, 2)])
      /\ Squared(Sent(q, 3)) = Squared(q[Rotation!Other(at, 3)])
  BY <1>5
<1>9. PICK s \in Nat : s = Squared(q[at])
  BY <1>2
<1>10. s1 <= s /\ s2 <= s /\ s3 <= s /\ s4 <= s
  BY <1>1, <1>6, <1>9
<1>11. PICK t1 \in Nat, t2 \in Nat, t3 \in Nat :
         /\ t1 = Squared(Sent(q, 1)) /\ t2 = Squared(Sent(q, 2)) /\ t3 = Squared(Sent(q, 3))
         /\ t1 + t2 + t3 + s = m /\ t1 <= s /\ t2 <= s /\ t3 <= s
  <2>1. CASE at = 1
    BY <1>3, <1>6, <1>7, <1>8, <1>9, <1>10, <2>1
  <2>2. CASE at = 2
    BY <1>3, <1>6, <1>7, <1>8, <1>9, <1>10, <2>2
  <2>3. CASE at = 3
    BY <1>3, <1>6, <1>7, <1>8, <1>9, <1>10, <2>3
  <2>4. CASE at = 4
    BY <1>3, <1>6, <1>7, <1>8, <1>9, <1>10, <2>4
  <2> QED
    BY <2>1, <2>2, <2>3, <2>4
<1>12. /\ 2 * t1 <= m /\ 2 * t2 <= m /\ 2 * t3 <= m /\ 4 * (t1 + t2 + t3) <= 3 * m
  BY <1>11
<1>13. ASSUME NEW k \in 1..3 PROVE 2 * Squared(Sent(q, k)) <= m /\ Squared(Sent(q, k)) \in Nat
  <2>1. k = 1 \/ k = 2 \/ k = 3
    OBVIOUS
  <2> QED
    BY <1>11, <1>12, <2>1
<1> QED
  BY <1>1, <1>4, <1>5, <1>7, <1>9, <1>11, <1>12, <1>13

LEMMA CodeIs ==
  ASSUME NEW q \in Rotation!Rotations
  PROVE  LET sent == Rotation!Encode(q)
         IN  /\ sent.index = Rotation!Index(q) - 1
             /\ \A k \in 1..3 : /\ sent.signs[k] = (IF Sent(q, k) < 0 THEN 1 ELSE 0)
                               /\ sent.values[k] = Rotation!Truc(Sent(q, k))
                               /\ sent.values[k] \in 0..511
<1>1. ASSUME NEW k \in 1..3
      PROVE  Rotation!Truc(Sent(q, k)) \in 0..511
  BY SentIs, NineBits
<1>2. \A r \in 0..511 : r % (511 + 1) = r
  BY SMT
<1>3. Rotation!Encode(q) =
        [index |-> Rotation!Index(q) - 1,
         signs |-> [k \in 1..3 |-> IF Sent(q, k) < 0 THEN 1 ELSE 0],
         values |-> [k \in 1..3 |-> Rotation!Truc(Sent(q, k)) % (Rotation!c + 1)]]
  BY Zenon DEF Rotation!Encode, Sent
<1>4. /\ Rotation!Encode(q).index = Rotation!Index(q) - 1
      /\ \A k \in 1..3 :
           /\ Rotation!Encode(q).signs[k] = (IF Sent(q, k) < 0 THEN 1 ELSE 0)
           /\ Rotation!Encode(q).values[k] = Rotation!Truc(Sent(q, k)) % (Rotation!c + 1)
  BY <1>3
<1>5. Rotation!c = 511
  BY SMT, RotationNumbers
<1>6. ASSUME NEW k \in 1..3
      PROVE  Rotation!Encode(q).values[k] = Rotation!Truc(Sent(q, k))
  <2>1. PICK r \in 0..511 : r = Rotation!Truc(Sent(q, k))
    BY <1>1
  <2>2. Rotation!Encode(q).values[k] = r % (511 + 1)
    BY <1>4, <1>5, <2>1
  <2> QED
    BY <1>2, <2>1, <2>2
<1> QED
  BY <1>1, <1>4, <1>6

LEMMA RestIs ==
  ASSUME NEW q \in Rotation!Rotations
  PROVE  LET rest == Rotation!Rest(Rotation!Encode(q))
             m == Squared(Norm)
             e == Squared(q[Rotation!Index(q)])
         IN  Left(rest, e, m)
<1>1. PICK sent : sent = Rotation!Encode(q)
  OBVIOUS
<1>2. \A k \in 1..3 : sent.values[k] = Rotation!Truc(Sent(q, k)) /\ sent.values[k] \in 0..511
  BY <1>1, CodeIs
<1>3. PICK r1 \in 0..511 : r1 = sent.values[1] /\ r1 = Rotation!Truc(Sent(q, 1))
  BY <1>2
<1>4. PICK r2 \in 0..511 : r2 = sent.values[2] /\ r2 = Rotation!Truc(Sent(q, 2))
  BY <1>2
<1>5. PICK r3 \in 0..511 : r3 = sent.values[3] /\ r3 = Rotation!Truc(Sent(q, 3))
  BY <1>2
<1>6. /\ r1 = sent.values[1] /\ r2 = sent.values[2] /\ r3 = sent.values[3]
      /\ r1 = Rotation!Truc(Sent(q, 1)) /\ r2 = Rotation!Truc(Sent(q, 2))
      /\ r3 = Rotation!Truc(Sent(q, 3))
  BY <1>3, <1>4, <1>5
<1>7. PICK m \in Nat \ {0} : m = Squared(Norm)
  BY RotationNumbers DEF Squared
<1>8. PICK e4 \in Nat : e4 = Squared(q[Rotation!Index(q)])
  BY SentIs
<1>9. PICK e1 \in Nat, e2 \in Nat, e3 \in Nat :
        /\ e1 = Squared(Sent(q, 1)) /\ e2 = Squared(Sent(q, 2)) /\ e3 = Squared(Sent(q, 3))
        /\ e1 + e2 + e3 + e4 = m /\ 4 * (e1 + e2 + e3) <= 3 * m
  BY <1>7, <1>8, SentIs
<1>10. /\ Sent(q, 1) \in Int /\ Sent(q, 2) \in Int /\ Sent(q, 3) \in Int
      /\ e1 <= m /\ e2 <= m /\ e3 <= m
  BY <1>9, SentIs
<1>11. Off(r1, e1, m)
  BY SMT, <1>6, <1>7, <1>9, <1>10, RoundingError DEF Off
<1>12. Off(r2, e2, m)
  BY SMT, <1>6, <1>7, <1>9, <1>10, RoundingError DEF Off
<1>13. Off(r3, e3, m)
  BY SMT, <1>6, <1>7, <1>9, <1>10, RoundingError DEF Off
<1>14. Left(Fourth(r1, r2, r3), e4, m)
  BY <1>9, <1>11, <1>12, <1>13, Budget
<1>15. Rotation!Rest(sent) = Fourth(r1, r2, r3)
  BY SMT, <1>6, RotationNumbers DEF Rotation!Rest, Squared, Fourth
<1> QED
  BY <1>1, <1>7, <1>8, <1>14, <1>15, Zenon

-----------------------------------------------------------------------------
(* The invariant: what was last sent is the code of some rotation. *)

QInv ==
  /\ pose \in Rotation!Rotations
  /\ \E q \in Rotation!Rotations : code = Rotation!Encode(q)

LEMMA QInvTypes == QInv => Rotation!TypeOK
<1> SUFFICES ASSUME QInv PROVE Rotation!TypeOK
  OBVIOUS
<1>1. PICK q \in Rotation!Rotations : code = Rotation!Encode(q)
  BY DEF QInv
<1>2. Rotation!Parts = 1..4 /\ Rotation!c = 511 /\ Rotation!Unit2 = 522242
  BY SMT, RotationNumbers
<1>3. pose \in [Rotation!Parts -> -Norm..Norm]
  BY <1>2, QuatParts DEF QInv
<1>4. code.index \in 0..3
  <2>1. PICK at \in 1..4 : at = Rotation!Index(q)
    BY LargestIs
  <2>2. code.index = at - 1
    BY <1>1, <2>1, CodeIs
  <2> QED
    BY <2>2
<1>5. ASSUME NEW k \in 1..3 PROVE code.signs[k] \in {0, 1} /\ code.values[k] \in 0..511
  BY <1>1, CodeIs
<1>6. 4 * Rotation!Rest(code) >= 522242 - 9 * 511
  <2>1. Left(Rotation!Rest(code), Squared(q[Rotation!Index(q)]), Squared(Norm))
    BY <1>1, RestIs
  <2> QED
    BY SMT, <2>1 DEF Left
<1>7. 4 * Rotation!Rest(code) >= Rotation!Unit2 - 9 * Rotation!c
  BY SMT, <1>2, <1>6
<1>8. \A k \in 1..3 : code.signs[k] \in {0, 1} /\ code.values[k] \in 0..Rotation!c
  BY SMT, <1>2, <1>5
<1> QED
  BY <1>3, <1>4, <1>7, <1>8 DEF Rotation!TypeOK

(* Which part of the pose a part of the code is.                           *)
LEMMA Slots ==
  ASSUME NEW at \in 1..4, NEW i \in 1..4, i # at
  PROVE  Rotation!Slot(at, i) \in 1..3 /\ Rotation!Other(at, Rotation!Slot(at, i)) = i
BY DEF Rotation!Slot, Rotation!Other

LEMMA DecodedIs ==
  ASSUME QInv, Rotation!UpToDate, NEW i \in 1..4
  PROVE  LET d == Rotation!Decode(code)[i]
             at == Rotation!Index(pose)
             k == Rotation!Slot(at, i)
         IN  /\ i = at => d.sign = 0 /\ d.square = Rotation!Rest(Rotation!Encode(pose))
             /\ i # at => /\ d.sign = (IF Sent(pose, k) < 0 THEN 1 ELSE 0)
                          /\ d.square = Squared(Rotation!Truc(Sent(pose, k)))
                          /\ k \in 1..3 /\ Rotation!Other(at, k) = i
<1> DEFINE sent == Rotation!Encode(pose)
           at == Rotation!Index(pose)
           k == Rotation!Slot(at, i)
<1>1. code = sent /\ Rotation!Parts = 1..4
  BY RotationNumbers DEF Rotation!UpToDate
<1>2. at \in 1..4 /\ pose \in Rotation!Rotations
  BY LargestIs DEF QInv
<1>3. sent.index + 1 = at
  <2>1. sent.index = at - 1
    BY <1>2, CodeIs
  <2> HIDE DEF sent, at
  <2> QED
    BY <1>2, <2>1
<1>4. i # at => k \in 1..3 /\ Rotation!Other(at, k) = i
  BY <1>2, Slots
<1>5. \A j \in 1..3 : /\ sent.signs[j] = (IF Sent(pose, j) < 0 THEN 1 ELSE 0)
                      /\ sent.values[j] = Rotation!Truc(Sent(pose, j))
  BY <1>2, CodeIs
<1>6. Rotation!Decode(code)[i] =
        IF i = sent.index + 1 THEN [sign |-> 0, square |-> Rotation!Rest(sent)]
        ELSE [sign |-> sent.signs[Rotation!Slot(sent.index + 1, i)],
              square |-> Rotation!Square(sent.values[Rotation!Slot(sent.index + 1, i)])]
  BY <1>1 DEF Rotation!Decode
<1>7. \A n : Rotation!Square(n) = Squared(n)
  BY RotationNumbers
<1> HIDE DEF sent, at
<1>8. CASE i = at
  BY <1>3, <1>6, <1>8 DEF sent, at
<1>9. CASE i # at
  <2>1. Rotation!Decode(code)[i] = [sign |-> sent.signs[k], square |-> Squared(sent.values[k])]
    BY <1>3, <1>6, <1>7, <1>9
  <2> QED
    BY <1>4, <1>5, <1>9, <2>1 DEF at
<1> QED
  BY <1>8, <1>9 DEF at

-----------------------------------------------------------------------------
(* As long as it was. *)

LEMMA Quotient ==
  ASSUME NEW x \in Nat, NEW m \in Nat \ {0}
  PROVE  \E n \in Int : n = x \div m /\ n * m <= x /\ x < n * m + m
<1>1. x \div m \in Int /\ m * (x \div m) <= x /\ x < m * (x \div m) + m
  OBVIOUS
<1> QED
  BY <1>1

(* Up to 3 * c + 1 apart.                                                  *)
CloseTo(a, b) == Rotation!Magnitude(a - b) <= 1534

Within(a, b, u, m) == a * m <= b * m + u * m /\ b * m <= a * m + u * m

LEMMA Close ==
  ASSUME NEW a \in Int, NEW b \in Int, NEW m \in Nat \ {0},
         NEW u \in Nat, u <= 1534, Within(a, b, u, m)
  PROVE  CloseTo(a, b)
<1>1. PICK n \in Int : n = b + u
  BY SMT
<1>2. PICK k \in Int : k = a + u
  BY SMT
<1>3. n * m = b * m + u * m /\ k * m = a * m + u * m
  BY SMT, <1>1, <1>2
<1>4. a * m <= n * m /\ b * m <= k * m
  BY SMT, <1>3 DEF Within
<1>5. a <= n /\ b <= k
  BY <1>4, Cancel
<1> QED
  BY SMT, <1>1, <1>2, <1>5 DEF CloseTo, Rotation!Magnitude

Exact(e, m) == (522242 * e) \div m

LEMMA NearRest ==
  ASSUME NEW m \in Nat \ {0}, NEW e \in Nat, NEW rest, Left(rest, e, m)
  PROVE  CloseTo(rest, Exact(e, m))
<1>1. PICK x \in Nat : x = 522242 * e
  BY SMT
<1>2. PICK n \in Int : n = x \div m /\ n * m <= x /\ x < n * m + m
  BY Quotient
<1>3. /\ rest \in Int /\ rest * m <= x + 1088 * m /\ x <= rest * m + 1085 * m
  BY SMT, <1>1 DEF Left
<1>4. rest * m \in Int /\ n * m \in Int
  BY SMT, <1>2, <1>3
<1>5. rest * m <= n * m + 1089 * m /\ n * m <= rest * m + 1089 * m
  BY SMT, <1>2, <1>3, <1>4
<1>6. PICK u \in Nat : u = 1089 /\ u <= 1534
  BY SMT
<1>7. CloseTo(rest, n)
  <2>1. Within(rest, n, u, m)
    BY SMT, <1>5, <1>6 DEF Within
  <2> QED
    BY <1>2, <1>3, <1>6, <2>1, Close
<1> QED
  BY SMT, <1>1, <1>2, <1>7 DEF Exact

LEMMA NearPart ==
  ASSUME NEW m \in Nat \ {0}, NEW e \in Nat, NEW r \in 0..511, Off(r, e, m)
  PROVE  CloseTo(Squared(r), Exact(e, m))
<1>1. PICK x \in Nat : x = 522242 * e
  BY SMT
<1>2. PICK n \in Int : n = x \div m /\ n * m <= x /\ x < n * m + m
  BY Quotient
<1>3. PICK v \in Nat : v = r * r
  BY SMT
<1>4. v * m <= x + r * m /\ x <= v * m + (r + 1) * m
  BY SMT, <1>1, <1>3 DEF Off
<1>5. PICK y \in Nat, z \in Nat : y = r * m /\ z = v * m
  BY SMT
<1>6. (r + 1) * m = y + m
  BY SMT, <1>5
<1>7. y <= 511 * m
  <2>1. PICK d \in Nat : r + d = 511
    BY SMT
  <2>2. (r + d) * m = y + d * m /\ d * m \in Nat
    BY SMT, <1>5
  <2> QED
    BY SMT, <2>1, <2>2
<1>8. PICK w \in Int : w = n * m
  BY SMT, <1>2
<1>9. z <= w + 512 * m /\ w <= z + 512 * m
  BY SMT, <1>2, <1>4, <1>5, <1>6, <1>7, <1>8
<1>10. v * m <= n * m + 512 * m /\ n * m <= v * m + 512 * m
  BY SMT, <1>5, <1>8, <1>9
<1>11. CloseTo(v, n)
  <2>1. PICK u \in Nat : u = 512 /\ u <= 1534
    BY SMT
  <2>2. Within(v, n, u, m)
    BY SMT, <1>10, <2>1 DEF Within
  <2> QED
    BY <1>2, <1>3, <2>1, <2>2, Close
<1> QED
  BY SMT, <1>1, <1>2, <1>3, <1>11 DEF Exact, Squared

LEMMA RotationFaithful == QInv => Rotation!Faithful
<1> SUFFICES ASSUME QInv, Rotation!UpToDate
             PROVE  Rotation!SameRotation(Rotation!Decode(code)) /\ Rotation!Near(Rotation!Decode(code))
  BY DEF Rotation!Faithful
<1>1. Rotation!Parts = 1..4 /\ Rotation!c = 511 /\ Rotation!Unit2 = 522242
  BY SMT, RotationNumbers
<1>2. /\ pose \in Rotation!Rotations
      /\ \A i \in 1..4 : pose[i] \in Int /\ Squared(pose[i]) \in Nat
  BY QuatParts DEF QInv
<1>3. PICK at \in 1..4 : at = Rotation!Index(pose) /\ pose[at] # 0
  BY <1>2, LargestIs
<1>4. PICK m \in Nat \ {0} : m = Squared(Norm)
  BY RotationNumbers DEF Squared
<1>5. ASSUME NEW i \in 1..4, pose[i] # 0
      PROVE  (Rotation!Decode(code)[i].sign = 1) = (Rotation!Negative(i) # Rotation!Flip(pose))
  <2>1. Rotation!Negative(i) <=> pose[i] < 0
    BY DEF Rotation!Negative
  <2>2. Rotation!Flip(pose) <=> pose[at] <= 0
    BY <1>3 DEF Rotation!Flip
  <2>3. CASE i = at
    <3>1. Rotation!Decode(code)[i].sign = 0
      BY <1>3, <2>3, DecodedIs
    <3>2. Rotation!Negative(i) <=> Rotation!Flip(pose)
      BY <1>2, <1>3, <2>1, <2>2, <2>3
    <3> QED
      BY <3>1, <3>2 DEF Rotation!Negative, Rotation!Flip
  <2>4. CASE i # at
    <3> DEFINE k == Rotation!Slot(at, i)
    <3>1. /\ Rotation!Decode(code)[i].sign = (IF Sent(pose, k) < 0 THEN 1 ELSE 0)
          /\ Rotation!Other(at, k) = i
      BY <1>3, <2>4, DecodedIs
    <3>2. Sent(pose, k) = IF Rotation!Flip(pose) THEN - pose[i] ELSE pose[i]
      BY <1>3, <3>1 DEF Sent
    <3> HIDE DEF k
    <3>3. CASE Rotation!Flip(pose)
      <4>1. Sent(pose, k) < 0 <=> ~ (pose[i] < 0)
        BY <1>2, <1>5, <3>2, <3>3
      <4> QED
        BY <2>1, <3>1, <3>3, <4>1 DEF Rotation!Negative, Rotation!Flip
    <3>4. CASE ~ Rotation!Flip(pose)
      <4>1. Sent(pose, k) < 0 <=> pose[i] < 0
        BY <1>2, <3>2, <3>4
      <4> QED
        BY <2>1, <3>1, <3>4, <4>1 DEF Rotation!Negative, Rotation!Flip
    <3> QED
      BY <3>3, <3>4
  <2> QED
    BY <2>3, <2>4
<1>6. Rotation!SameRotation(Rotation!Decode(code))
  <2>1. Rotation!Flip(pose) \in BOOLEAN
    BY DEF Rotation!Flip
  <2>2. \A i \in Rotation!Parts :
          Rotation!Decode(code)[i].square # 0 /\ pose[i] # 0 =>
            (Rotation!Decode(code)[i].sign = 1) = (Rotation!Negative(i) # Rotation!Flip(pose))
    BY <1>1, <1>5
  <2> QED
    BY <2>1, <2>2, Zenon DEF Rotation!SameRotation
<1>7. ASSUME NEW i \in 1..4
      PROVE  CloseTo(Rotation!Decode(code)[i].square, Exact(Squared(pose[i]), m))
  <2>1. PICK e \in Nat : e = Squared(pose[i])
    BY <1>2
  <2>2. CASE i = at
    <3>1. PICK rest : rest = Rotation!Decode(code)[i].square /\ rest = Rotation!Rest(Rotation!Encode(pose))
      BY <1>3, <2>2, DecodedIs
    <3>2. Left(rest, e, m)
      BY <1>2, <1>3, <1>4, <2>1, <2>2, <3>1, RestIs
    <3>3. CloseTo(rest, Exact(e, m))
      BY <3>2, NearRest
    <3> QED
      BY <2>1, <3>1, <3>3
  <2>3. CASE i # at
    <3>1. PICK k \in 1..3 : /\ Rotation!Other(at, k) = i
                           /\ Rotation!Decode(code)[i].square = Squared(Rotation!Truc(Sent(pose, k)))
      BY <1>3, <2>3, DecodedIs
    <3>2. Sent(pose, k) \in Int /\ Squared(Sent(pose, k)) = e /\ 2 * e <= m
      BY <1>2, <1>3, <1>4, <2>1, <3>1, SentIs
    <3>3. PICK r \in 0..511 : r = Rotation!Truc(Sent(pose, k))
      BY <1>4, <3>2, NineBits
    <3>4. Squared(Sent(pose, k)) <= Squared(Norm)
      BY SMT, <1>4, <3>2
    <3>5. Off(r, e, m)
      BY SMT, <1>4, <3>2, <3>3, <3>4, RoundingError DEF Off
    <3>6. CloseTo(Squared(r), Exact(e, m))
      BY <3>5, NearPart, Zenon
    <3>7. Rotation!Decode(code)[i].square = Squared(r)
      BY <3>1, <3>3
    <3> QED
      BY <2>1, <3>6, <3>7
  <2> QED
    BY <2>2, <2>3
<1>8. Rotation!Near(Rotation!Decode(code))
  <2>1. \A n : Rotation!Square(n) = Squared(n)
    BY RotationNumbers
  <2>2. 3 * Rotation!c + 1 = 1534
    BY SMT, <1>1
  <2> QED
    BY SMT, <1>1, <1>4, <1>7, <2>1, <2>2 DEF Rotation!Near, Exact, CloseTo
<1> QED
  BY <1>6, <1>8

-----------------------------------------------------------------------------
(* A rotation and its negative. *)

LEMMA RotationOneCode == QInv => Rotation!OneCode
<1> SUFFICES ASSUME QInv PROVE Rotation!OneCode
  OBVIOUS
<1> DEFINE back == [i \in Rotation!Parts |-> - pose[i]]
<1>1. Rotation!Parts = 1..4
  BY RotationNumbers
<1>2. \A i \in 1..4 : pose[i] \in Int /\ back[i] \in Int /\ back[i] = - pose[i]
  BY <1>1, QuatParts DEF QInv
<1> HIDE DEF back
<1>3. \A i \in 1..4 : Rotation!Magnitude(back[i]) = Rotation!Magnitude(pose[i])
  BY <1>2, Magnitudes
<1>4. Rotation!Index(back) = Rotation!Index(pose)
  <2>1. ASSUME NEW i \in 1..4, First(back, i) PROVE First(pose, i)
    <3>1. \A j \in 1..i - 1 : j \in 1..4
      OBVIOUS
    <3> QED
      BY <1>3, <2>1, <3>1 DEF First
  <2>2. /\ Rotation!Index(back) \in 1..4 /\ First(back, Rotation!Index(back))
        /\ Rotation!Index(pose) \in 1..4 /\ First(pose, Rotation!Index(pose))
    BY <1>2, IndexIs
  <2>3. First(pose, Rotation!Index(back))
    BY <2>1, <2>2
  <2> QED
    BY <1>2, <2>2, <2>3, OneFirst
<1>5. PICK at \in 1..4 : at = Rotation!Index(pose) /\ pose[at] \in Int /\ pose[at] # 0
  BY LargestIs DEF QInv
<1>6. Rotation!Flip(back) <=> ~ Rotation!Flip(pose)
  <2>1. (Rotation!Flip(back) <=> - pose[at] <= 0) /\ (Rotation!Flip(pose) <=> pose[at] <= 0)
    BY <1>2, <1>4, <1>5 DEF Rotation!Flip
  <2> QED
    BY <1>5, <2>1
<1>7. ASSUME NEW k \in 1..3 PROVE Sent(back, k) = Sent(pose, k)
  <2>1. Rotation!Other(at, k) \in 1..4
    BY DEF Rotation!Other
  <2>2. back[Rotation!Other(at, k)] = - pose[Rotation!Other(at, k)] /\ pose[Rotation!Other(at, k)] \in Int
    BY <1>2, <2>1
  <2>3. - (- pose[Rotation!Other(at, k)]) = pose[Rotation!Other(at, k)]
    BY <2>2
  <2> QED
    BY <1>4, <1>5, <1>6, <2>2, <2>3 DEF Sent
<1>8. \A q : Rotation!Encode(q) =
               [index |-> Rotation!Index(q) - 1,
                signs |-> [k \in 1..3 |-> IF Sent(q, k) < 0 THEN 1 ELSE 0],
                values |-> [k \in 1..3 |-> Rotation!Truc(Sent(q, k)) % (Rotation!c + 1)]]
  BY Zenon DEF Rotation!Encode, Sent
<1>9. /\ [k \in 1..3 |-> IF Sent(back, k) < 0 THEN 1 ELSE 0] =
         [k \in 1..3 |-> IF Sent(pose, k) < 0 THEN 1 ELSE 0]
      /\ [k \in 1..3 |-> Rotation!Truc(Sent(back, k)) % (Rotation!c + 1)] =
         [k \in 1..3 |-> Rotation!Truc(Sent(pose, k)) % (Rotation!c + 1)]
  BY <1>7
<1>10. Rotation!Encode(back) = Rotation!Encode(pose)
  BY <1>4, <1>8, <1>9, Zenon
<1> QED
  BY <1>10 DEF Rotation!OneCode, back

-----------------------------------------------------------------------------
(* Half turns keep a rotation one. *)

LEMMA TurnQInv ==
  ASSUME QInv, Rotation!Turn
  PROVE  QInv'
<1>1. /\ pose \in [1..4 -> -Norm..Norm]
      /\ Squared(pose[1]) + Squared(pose[2]) + Squared(pose[3]) + Squared(pose[4]) = Squared(Norm)
  BY QuatParts DEF QInv
<1>2. ASSUME NEW a \in -Norm..Norm, NEW b \in -Norm..Norm, NEW d \in -Norm..Norm, NEW e \in -Norm..Norm,
             Squared(a) + Squared(b) + Squared(d) + Squared(e) = Squared(Norm)
      PROVE  <<a, b, d, e>> \in Rotation!Rotations
  <2>1. <<a, b, d, e>> \in [1..4 -> -Norm..Norm]
    OBVIOUS
  <2>2. /\ <<a, b, d, e>>[1] = a /\ <<a, b, d, e>>[2] = b
        /\ <<a, b, d, e>>[3] = d /\ <<a, b, d, e>>[4] = e
    OBVIOUS
  <2> QED
    BY <1>2, <2>1, <2>2, RotationNumbers DEF Rotation!Rotations
<1>3. PICK x1 \in -Norm..Norm, x2 \in -Norm..Norm, x3 \in -Norm..Norm, x4 \in -Norm..Norm :
        x1 = pose[1] /\ x2 = pose[2] /\ x3 = pose[3] /\ x4 = pose[4]
  BY <1>1
<1>4. Squared(x1) + Squared(x2) + Squared(x3) + Squared(x4) = Squared(Norm)
  BY <1>1, <1>3
<1>5. /\ x1 \in Int /\ x2 \in Int /\ x3 \in Int /\ x4 \in Int
      /\ -x1 \in -Norm..Norm /\ -x2 \in -Norm..Norm /\ -x3 \in -Norm..Norm
  BY <1>3, RotationNumbers
<1>6. PICK s1 \in Nat, s2 \in Nat, s3 \in Nat, s4 \in Nat :
        /\ s1 = Squared(x1) /\ s2 = Squared(x2) /\ s3 = Squared(x3) /\ s4 = Squared(x4)
        /\ Squared(-x1) = s1 /\ Squared(-x2) = s2 /\ Squared(-x3) = s3
  BY <1>5, SquaredIs
<1>7. \/ pose' = <<x4, x3, -x2, -x1>>
      \/ pose' = <<-x3, x4, x1, -x2>>
      \/ pose' = <<x2, -x1, x4, -x3>>
  BY <1>3 DEF Rotation!Turn
<1>8. s1 + s2 + s3 + s4 = Squared(Norm)
  BY <1>4, <1>6
<1>9. pose' \in Rotation!Rotations
  <2>1. CASE pose' = <<x4, x3, -x2, -x1>>
    <3>1. Squared(x4) + Squared(x3) + Squared(-x2) + Squared(-x1) = Squared(Norm)
      BY <1>6, <1>8
    <3> QED
      BY <1>2, <1>5, <2>1, <3>1
  <2>2. CASE pose' = <<-x3, x4, x1, -x2>>
    <3>1. Squared(-x3) + Squared(x4) + Squared(x1) + Squared(-x2) = Squared(Norm)
      BY <1>6, <1>8
    <3> QED
      BY <1>2, <1>5, <2>2, <3>1
  <2>3. CASE pose' = <<x2, -x1, x4, -x3>>
    <3>1. Squared(x2) + Squared(-x1) + Squared(x4) + Squared(-x3) = Squared(Norm)
      BY <1>6, <1>8
    <3> QED
      BY <1>2, <1>5, <2>3, <3>1
  <2> QED
    BY <1>7, <2>1, <2>2, <2>3
<1>10. code' = code
  BY DEF Rotation!Turn
<1> QED
  BY <1>9, <1>10 DEF QInv

LEMMA RotationStep == QInv /\ [Rotation!Next]_rotationVars => QInv'
<1> SUFFICES ASSUME QInv, [Rotation!Next]_rotationVars PROVE QInv'
  OBVIOUS
<1>1. CASE UNCHANGED rotationVars
  BY <1>1 DEF rotationVars, QInv
<1>2. CASE Rotation!Send
  <2>1. pose' = pose /\ code' = Rotation!Encode(pose)
    BY <1>2 DEF Rotation!Send
  <2> QED
    BY <2>1 DEF QInv
<1> QED
  BY <1>1, <1>2, TurnQInv DEF Rotation!Next

LEMMA RotationInit == PartsInit => QInv
<1> SUFFICES ASSUME PartsInit PROVE QInv
  OBVIOUS
<1>1. code = Rotation!Encode(pose)
  BY DEF PartsInit, Rotation!Init
<1>2. <<0, 0, 0, Norm>> \in Rotation!Rotations
  <2>1. <<0, 0, 0, Norm>> \in [1..4 -> -Norm..Norm]
    BY RotationNumbers
  <2>2. Squared(0) + Squared(0) + Squared(0) + Squared(Norm) = Squared(Norm)
    BY RotationNumbers DEF Squared
  <2>3. /\ <<0, 0, 0, Norm>>[1] = 0 /\ <<0, 0, 0, Norm>>[2] = 0
        /\ <<0, 0, 0, Norm>>[3] = 0 /\ <<0, 0, 0, Norm>>[4] = Norm
    OBVIOUS
  <2> QED
    BY <2>1, <2>2, <2>3, RotationNumbers DEF Rotation!Rotations
<1>3. pose \in Rotation!Rotations
  BY <1>2 DEF PartsInit
<1> QED
  BY <1>1, <1>3 DEF QInv

(***************************************************************************)
(* For every unit quaternion of integers over any Norm: the rotation that  *)
(* is decoded is the one that was encoded, to a rounding, although one     *)
(* part is not sent and q and -q have one code (bitmagic.hpp).             *)
(***************************************************************************)
THEOREM RotationsAreRight == PartsSpec => []RotationRight
<1>1. QInv /\ [PartsNext]_<<part, vars, rotationVars, viewVars>> => QInv'
  BY RotationStep DEF PartsNext
<1>2. QInv => RotationRight
  BY QInvTypes, RotationFaithful, RotationOneCode DEF RotationRight
<1> QED
  BY <1>1, <1>2, RotationInit, PTL DEF PartsSpec
=============================================================================
