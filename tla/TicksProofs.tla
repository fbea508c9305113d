----------------------------- MODULE TicksProofs -----------------------------
(***************************************************************************)
(* What the run of MCTicks shows of the timer, the players' motion, the    *)
(* keys and the locks, for every interval, speed, gravity, set of keys and *)
(* number of connections.                                                  *)
(***************************************************************************)
EXTENDS MCTicks, TLAPS, SequenceTheorems, WellFoundedInduction

(* The timer: how close ticks and net ticks may come.                      *)

(* libuv counts the timeout from the start of the callback, so the next    *)
(* start is at least half an interval, less a millisecond, after the last. *)
LEMMA HalfInterval ==
  ASSUME NEW busy \in Nat
  PROVE  NextStart(busy) \in Nat /\ 2 * NextStart(busy) >= TickInterval - 2 * Ms
<1> USE TimerAssumption
<1>1. CASE busy > TickInterval
  <2>1. NextStart(busy) = busy  BY SMT, <1>1 DEF NextStart, TimeLeft
  <2> QED BY SMT, <1>1, <2>1
<1>2. CASE ~ (busy > TickInterval)
  <2>1. PICK left \in Nat : left = TickInterval - busy  BY SMT, <1>2
  <2>2. PICK q \in Int : q = left \div Ms  BY SMT, <2>1
  <2>3. left < q * Ms + Ms  BY SMT, <2>1, <2>2
  <2>4. PICK t \in Int : t = q * Ms  BY SMT
  <2>5. NextStart(busy) = (IF t - (Ms - 1) > busy THEN t - (Ms - 1) ELSE busy)
    BY SMT, <1>2, <2>1, <2>2, <2>4 DEF NextStart, TimeLeft
  <2> QED BY SMT, <2>1, <2>3, <2>4, <2>5
<1> QED BY <1>1, <1>2

(* From the second tick on the next start is known to be half an interval  *)
(* away; every plain tick since the last net tick, but the first, has      *)
(* therefore put as much between the clock and last_net.                   *)
Paced ==
  /\ first => lag = 0 /\ plain = 0
  /\ ~ first => 2 * wait >= TickInterval - 2 * Ms
  /\ plain > 0 => (plain - 1) * (TickInterval - 2 * Ms) <= 2 * lag

IInv == TypeOK /\ Paced

LEMMA InitPaced == Init => IInv
BY SMT, TimerAssumption DEF Init, IInv, TypeOK, Paced

LEMMA NextPaced == IInv /\ [Next]_vars => IInv'
<1> USE TimerAssumption
<1> SUFFICES ASSUME IInv, [Next]_vars PROVE IInv'
  OBVIOUS
<1>1. ASSUME NEW elapsed \in Nat, NEW busy \in Nat, Tick(elapsed, busy)
      PROVE  IInv'
  <2>1. wait' \in Nat /\ 2 * wait' >= TickInterval - 2 * Ms
    BY SMT, <1>1, HalfInterval DEF Tick
  <2>2. gap' \in Nat /\ first' = FALSE  BY SMT, <1>1 DEF Tick
  <2>3. lag \in Nat /\ plain \in Nat  BY DEF IInv, TypeOK
  <2>4. CASE Late(lag + elapsed)
    <3>1. lag' = lag + elapsed - NetInterval /\ plain' = 0 /\ lag' > 0
      BY SMT, <1>1, <2>3, <2>4 DEF Tick, Rest, Late
    <3>2. lag' \in Nat  BY SMT, <2>3, <3>1
    <3>3. plain' \in Nat /\ ~ (plain' > 0)  BY SMT, <3>1
    <3>4. TypeOK'  BY Zenon, <2>1, <2>2, <3>2, <3>3 DEF TypeOK
    <3>5. Paced'  BY Zenon, <2>1, <2>2, <3>3 DEF Paced
    <3> QED BY <3>4, <3>5 DEF IInv
  <2>5. CASE ~ Late(lag + elapsed)
    <3>1. lag' = lag + elapsed /\ plain' = plain + 1 /\ lag' <= NetInterval
      BY SMT, <1>1, <2>3, <2>5 DEF Tick, Late
    <3>2. lag' \in Nat /\ plain' \in Nat  BY SMT, <2>3, <3>1
    <3>3. (plain' - 1) * (TickInterval - 2 * Ms) <= 2 * lag'
      <4> DEFINE d == TickInterval - 2 * Ms
      <4>1. d \in Int  BY SMT
      <4> HIDE DEF d
      <4>2. CASE plain = 0
        <5>1. (plain' - 1) * d = 0  BY SMT, <3>1, <4>1, <4>2
        <5>2. (plain' - 1) * d <= 2 * lag'  BY SMT, <3>2, <5>1
        <5> QED BY <5>2 DEF d
      <4>3. CASE plain > 0
        <5>1. ~ first /\ 2 * wait >= d /\ (plain - 1) * d <= 2 * lag
          BY SMT, <4>3 DEF IInv, Paced, TypeOK, d
        <5>2. elapsed >= wait /\ wait \in Nat
          BY SMT, <1>1 DEF Tick, IInv, TypeOK
        <5>3. PICK k \in Nat : k = plain - 1  BY SMT, <2>3, <4>3
        <5>4. PICK m \in Int : m = k * d  BY SMT, <4>1
        <5>5. (plain' - 1) * d = m + d  BY SMT, <2>3, <3>1, <4>1, <5>3, <5>4
        <5>6. m <= 2 * lag  BY SMT, <5>1, <5>3, <5>4
        <5>7. (plain' - 1) * d <= 2 * lag'
          BY SMT, <2>3, <3>1, <4>1, <5>1, <5>2, <5>5, <5>6
        <5> QED BY <5>7 DEF d
      <4> QED BY SMT, <2>3, <4>2, <4>3
    <3>4. TypeOK'  BY Zenon, <2>1, <2>2, <3>1, <3>2 DEF TypeOK
    <3>5. Paced'  BY Zenon, <2>1, <2>2, <3>3 DEF Paced
    <3> QED BY <3>4, <3>5 DEF IInv
  <2> QED BY <2>4, <2>5
<1>2. CASE Next
  <2>1. wait \in Nat /\ lag \in Nat  BY DEF IInv, TypeOK
  <2>2. CASE InTime
    <3>1. PICK elapsed \in wait..wait + MaxLate, busy \in 0..MaxBusy :
            Tick(elapsed, busy)
      BY <2>2 DEF InTime
    <3>2. elapsed \in Nat /\ busy \in Nat  BY SMT, <2>1
    <3> QED BY <1>1, <3>1, <3>2
  <2>3. CASE Stalled
    <3>1. PICK elapsed \in wait..MaxLag - lag, busy \in 0..MaxBusy :
            Tick(elapsed, busy)
      BY <2>3 DEF Stalled
    <3>2. elapsed \in Nat /\ busy \in Nat  BY SMT, <2>1
    <3> QED BY <1>1, <3>1, <3>2
  <2> QED BY <1>2, <2>2, <2>3 DEF Next
<1>3. CASE UNCHANGED vars  BY <1>3 DEF vars, IInv, TypeOK, Paced
<1> QED BY <1>2, <1>3

-----------------------------------------------------------------------------
(* Types, and last_net never more than an interval behind a plain tick. *)
THEOREM TypeCorrect == Spec => []TypeOK
<1>1. IInv => TypeOK  BY DEF IInv
<1> QED BY <1>1, InitPaced, NextPaced, PTL DEF Spec

(* The bound on plain ticks between net ticks, for every interval. *)
THEOREM PlainTicksBounded == Spec => []PlainBounded
<1>1. IInv => PlainBounded
  <2> SUFFICES ASSUME IInv, plain > 0
               PROVE  (plain - 1) * (TickInterval - 2 * Ms) <= 2 * NetInterval
    BY DEF PlainBounded
  <2>1. lag \in Nat /\ plain \in Nat /\ ~ first /\ lag <= NetInterval
    BY SMT DEF IInv, TypeOK, Paced
  <2>2. PICK m \in Int : m = (plain - 1) * (TickInterval - 2 * Ms)
    BY SMT, <2>1, TimerAssumption
  <2>3. m <= 2 * lag  BY SMT, <2>2 DEF IInv, Paced
  <2> QED BY SMT, <2>1, <2>2, <2>3, TimerAssumption
<1> QED BY <1>1, InitPaced, NextPaced, PTL DEF Spec

(* Two ticks are never closer than half an interval, less a millisecond. *)
THEOREM Apart == Spec => TicksApart
<1>1. IInv /\ [Next]_vars =>
        [~ first => 2 * gap' >= TickInterval - 2 * Ms]_vars
  <2> SUFFICES ASSUME IInv, Next, ~ first
               PROVE  2 * gap' >= TickInterval - 2 * Ms
    OBVIOUS
  <2>1. wait \in Nat /\ lag \in Nat /\ 2 * wait >= TickInterval - 2 * Ms
    BY DEF IInv, TypeOK, Paced
  <2>2. PICK elapsed \in Int : gap' = elapsed /\ elapsed >= wait
    <3>1. CASE InTime  BY SMT, <2>1, <3>1, TimerAssumption DEF InTime, Tick
    <3>2. CASE Stalled  BY SMT, <2>1, <3>2, TimerAssumption DEF Stalled, Tick
    <3> QED BY <3>1, <3>2 DEF Next
  <2> QED BY SMT, <2>1, <2>2, TimerAssumption
<1> QED BY <1>1, InitPaced, NextPaced, PTL DEF Spec, TicksApart

(* Net ticks are never more than a bounded number of plain ones apart.     *)
THEOREM NetTicksKeepComing == Spec => []TicksBounded
BY TypeCorrect, PlainTicksBounded, PTL DEF TicksBounded

-----------------------------------------------------------------------------
(* The top of a jump, in ticks since it began. *)
Top == JumpSpeed \div Gravity

Rising(n) == IF n <= Top THEN n ELSE Top

Aloft ==
  /\ stage = "spawning" => ~ ground /\ vy = 0
  /\ ground => y = from
  /\ ~ ground /\ vy = 0 => y <= from
  /\ ~ ground /\ vy # 0 => /\ air > 1
                           /\ y <= from + Motion!LongestDt * Motion!Rise(Rising(air - 1))

MInv == Motion!TypeOK /\ Motion!StandsAtRest /\ Aloft

LEMMA MotionNumbers ==
  /\ JumpSpeed \in Nat /\ Gravity \in Nat /\ Gravity > 0 /\ SpawnHeight \in Nat
  /\ Top \in Nat /\ Gravity * Top <= JumpSpeed /\ JumpSpeed < Gravity * Top + Gravity
  /\ Motion!LongestDt \in Nat
  /\ \A dt \in Dts : dt \in Nat /\ dt <= Motion!LongestDt
  /\ \A floor \in Floors : floor \in Nat
<1>1. /\ JumpSpeed \in Nat /\ Gravity \in Nat /\ Gravity > 0 /\ SpawnHeight \in Nat
      /\ \A floor \in Floors : floor \in Nat
  BY MotionAssumption DEF Motion!MotionConstants
<1>2. Top \in Nat /\ Gravity * Top <= JumpSpeed /\ JumpSpeed < Gravity * Top + Gravity
  BY <1>1 DEF Top
<1>3. /\ Motion!LongestDt \in Nat
      /\ \A dt \in Dts : dt \in Nat /\ dt <= Motion!LongestDt
  BY MotionAssumption DEF Motion!MotionConstants, Motion!LongestDt
<1> QED
  BY <1>1, <1>2, <1>3

(* What one more tick adds to a jump. *)
LEMMA RiseNext ==
  ASSUME NEW n \in Nat
  PROVE  /\ Motion!Rise(n) \in Int /\ Motion!Rise(n + 1) \in Int
         /\ Motion!Rise(n + 1) = Motion!Rise(n) + (JumpSpeed - Gravity * (n + 1))
<1>1. JumpSpeed \in Nat /\ Gravity \in Nat
  BY MotionNumbers
<1>2. PICK a \in Nat : a = Gravity * n * (n + 1)
  BY <1>1
<1>3. PICK b \in Nat : b = Gravity * (n + 1)
  BY <1>1
<1>4. Gravity * (n + 1) * (n + 1 + 1) = a + 2 * b
  BY <1>1, <1>2, <1>3
<1>5. (a + 2 * b) \div 2 = a \div 2 + b
  BY <1>2, <1>3
<1>6. JumpSpeed * (n + 1) = JumpSpeed * n + JumpSpeed /\ JumpSpeed * n \in Nat
  BY <1>1
<1>7. a \div 2 \in Int /\ (a + 2 * b) \div 2 \in Int
  BY <1>2, <1>3
<1> QED
  BY <1>1, <1>2, <1>3, <1>4, <1>5, <1>6, <1>7 DEF Motion!Rise

(* Up to the top it goes up. *)
LEMMA RiseUp ==
  ASSUME NEW n \in Nat, NEW m \in Nat, n <= m, m <= Top
  PROVE  Motion!Rise(n) <= Motion!Rise(m)
<1>1. JumpSpeed \in Nat /\ Gravity \in Nat /\ Gravity * m <= JumpSpeed
  <2>1. \A k, u, v \in Nat : u <= v => k * u <= k * v
    OBVIOUS
  <2>2. Gravity * m <= Gravity * Top /\ Gravity * m \in Nat /\ Gravity * Top \in Nat
    BY <2>1, MotionNumbers
  <2> QED
    BY <2>2, MotionNumbers
<1>2. PICK d \in Nat : m = n + d
  <2>1. m - n \in Nat /\ m = n + (m - n)
    BY <1>1
  <2> QED
    BY <2>1
<1>3. CASE d = 0
  BY <1>2, <1>3, RiseNext
<1>4. CASE d # 0
  <2>1. PICK a \in Nat : a = Gravity * n * (n + 1)
    BY <1>1
  <2>2. PICK b \in Nat : b = Gravity * (2 * n + d + 1)
    BY <1>1
  <2>3. Gravity * m * (m + 1) = a + d * b
    BY <1>1, <1>2, <2>1, <2>2
  <2>4. b <= 2 * JumpSpeed
    <3>1. PICK e \in Nat : d = e + 1
      BY <1>4
    <3>2. 2 * (Gravity * m) = Gravity * (2 * n + d + 1) + Gravity * e
      BY <1>1, <1>2, <3>1
    <3>3. Gravity * e \in Nat /\ Gravity * m \in Nat
      BY <1>1
    <3> QED
      BY <1>1, <2>2, <3>2, <3>3
  <2>5. d * b <= 2 * (d * JumpSpeed) /\ d * b \in Nat /\ d * JumpSpeed \in Nat
    <3>1. \A u, v, w \in Nat : u <= v => w * u <= w * v
      OBVIOUS
    <3>2. d * b <= d * (2 * JumpSpeed)
      BY <1>1, <2>4, <3>1
    <3>3. d * (2 * JumpSpeed) = 2 * (d * JumpSpeed)
      BY <1>1
    <3> QED
      BY <1>1, <3>2, <3>3
  <2>6. (a + d * b) \div 2 <= a \div 2 + d * JumpSpeed
    BY <2>1, <2>5
  <2>7. JumpSpeed * m = JumpSpeed * n + d * JumpSpeed /\ JumpSpeed * n \in Nat
    BY <1>1, <1>2
  <2>8. a \div 2 \in Int /\ (a + d * b) \div 2 \in Int
    BY <2>1, <2>5
  <2> QED
    BY <2>1, <2>3, <2>5, <2>6, <2>7, <2>8 DEF Motion!Rise
<1> QED
  BY <1>3, <1>4

LEMMA RiseFalls ==
  /\ Motion!Rise(0) = 0 /\ 0 <= Motion!Rise(Top) /\ Motion!Rise(Top) \in Int
<1>1. Motion!Rise(0) = 0
  BY MotionNumbers DEF Motion!Rise
<1>2. Motion!Rise(Top) \in Int
  BY MotionNumbers, RiseNext
<1> QED
  BY <1>1, <1>2, RiseUp, MotionNumbers

LEMMA MotionInit == Motion!Init => MInv
<1> SUFFICES ASSUME Motion!Init PROVE MInv
  OBVIOUS
<1>1. Motion!TypeOK
  BY MotionNumbers DEF Motion!Init, Motion!TypeOK
<1>2. ~ ground /\ vy = 0 /\ y <= from
  BY MotionNumbers DEF Motion!Init
<1> QED
  BY <1>1, <1>2 DEF MInv, Motion!StandsAtRest, Aloft

(* Where one tick takes a player, before a floor or a ceiling stops it. *)
LEMMA OneTick ==
  ASSUME MInv, NEW dt \in Dts
  PROVE  LET to == y + (Motion!Jumped + Motion!FallV) * dt IN
         /\ to \in Int
         /\ Motion!Jumped = 0 => to <= y
         /\ Motion!Jumped # 0 /\ ground =>
              to <= y + Motion!LongestDt * Motion!Rise(Rising(1))
         /\ Motion!Jumped # 0 /\ ~ ground =>
              to <= from + Motion!LongestDt * Motion!Rise(Rising(air))
<1> DEFINE v == Motion!Jumped + Motion!FallV
           D == Motion!LongestDt
<1>1. /\ y \in Nat /\ from \in Nat /\ air \in Nat /\ D \in Nat /\ dt \in Nat /\ dt <= D
      /\ JumpSpeed \in Nat /\ Gravity \in Nat /\ Top \in Nat
      /\ Gravity * Top <= JumpSpeed /\ JumpSpeed < Gravity * Top + Gravity
  BY MotionNumbers DEF MInv, Motion!TypeOK
<1>2. Motion!Jumped \in {0, JumpSpeed} /\ v = Motion!Jumped - air * Gravity /\ v \in Int
  BY <1>1 DEF MInv, Motion!TypeOK, Motion!Jumped, Motion!FallV
<1> HIDE DEF v, D
<1>3. PICK w \in Int : w = v * dt
  BY <1>1, <1>2
<1>4. v <= 0 => w <= 0
  <2>1. \A a, b \in Nat : (- a) * b <= 0
    OBVIOUS
  <2>2. ASSUME v <= 0 PROVE w <= 0
    <3>1. PICK a \in Nat : a = - v
      BY <1>2, <2>2
    <3>2. (- a) * dt <= 0 /\ v = - a
      BY <1>1, <1>2, <2>1, <3>1
    <3> QED
      BY <1>3, <3>2
  <2> QED
    BY <2>2
<1>5. v >= 0 => w <= D * v
  <2>1. \A a, b, e \in Nat : a <= b => e * a <= b * e
    OBVIOUS
  <2>2. ASSUME v >= 0 PROVE w <= D * v
    BY <1>1, <1>2, <1>3, <2>1, <2>2
  <2> QED
    BY <2>2
<1>6. CASE Motion!Jumped = 0
  <2>1. air * Gravity \in Nat
    BY <1>1
  <2>2. v <= 0
    BY <1>2, <1>6, <2>1
  <2> QED
    BY <1>1, <1>3, <1>4, <1>6, <2>2 DEF v
<1>7. CASE Motion!Jumped # 0 /\ ground
  <2>1. air = 1 /\ v = JumpSpeed - Gravity
    BY <1>1, <1>2, <1>7 DEF MInv, Motion!StandsAtRest
  <2>2. CASE 1 <= Top
    <3>1. Gravity <= Gravity * Top
      BY <1>1, <2>2
    <3>2. v >= 0
      BY <1>1, <2>1, <3>1
    <3>3. Motion!Rise(1) = v /\ Rising(1) = 1
      BY <1>1, <2>1, <2>2, RiseNext, RiseFalls DEF Rising
    <3> QED
      BY <1>1, <1>2, <1>3, <1>5, <1>7, <3>2, <3>3 DEF v, D
  <2>3. CASE Top = 0
    <3>1. v <= 0 /\ Rising(1) = 0
      BY <1>1, <2>1, <2>3 DEF Rising
    <3>2. D * Motion!Rise(Rising(1)) = 0
      BY <1>1, <3>1, RiseFalls
    <3> QED
      BY <1>1, <1>3, <1>4, <1>7, <3>1, <3>2 DEF v, D
  <2> QED
    BY <1>1, <2>2, <2>3
<1>8. CASE Motion!Jumped # 0 /\ ~ ground
  <2>1. /\ air > 1 /\ y <= from + D * Motion!Rise(Rising(air - 1))
        /\ v = JumpSpeed - air * Gravity
    BY <1>1, <1>2, <1>8 DEF MInv, Aloft, D, Motion!Jumped
  <2>2. PICK n \in Nat : air = n + 1
    BY <1>1, <2>1
  <2>3. CASE air <= Top
    <3>1. Gravity * air <= Gravity * Top
      BY <1>1, <2>3
    <3>2. v >= 0 /\ v = JumpSpeed - Gravity * (n + 1)
      BY <1>1, <2>1, <2>2, <3>1
    <3>3. Rising(air - 1) = n /\ Rising(air) = n + 1
      BY <1>1, <2>2, <2>3 DEF Rising
    <3>4. PICK r \in Int : r = Motion!Rise(n) /\ Motion!Rise(n + 1) = r + v
      BY <3>2, RiseNext
    <3>5. D * (r + v) = D * r + D * v /\ D * r \in Int /\ D * v \in Int
      BY <1>1, <1>2, <3>4
    <3>6. y + w <= from + D * (r + v)
      BY <1>1, <1>3, <1>5, <2>1, <3>2, <3>3, <3>4, <3>5
    <3> QED
      BY <1>1, <1>3, <1>8, <3>3, <3>4, <3>6 DEF v, D
  <2>4. CASE air > Top
    <3>1. Gravity * (Top + 1) <= Gravity * air
      BY <1>1, <2>4
    <3>2. Gravity * (Top + 1) = Gravity * Top + Gravity /\ Gravity * air = air * Gravity
          /\ Gravity * Top \in Nat /\ air * Gravity \in Nat
      BY <1>1
    <3>3. v <= 0
      BY <1>1, <2>1, <3>1, <3>2
    <3>4. Rising(air - 1) = Top /\ Rising(air) = Top
      BY <1>1, <2>2, <2>4 DEF Rising
    <3>5. D * Motion!Rise(Top) \in Int
      BY <1>1, RiseFalls
    <3> QED
      BY <1>1, <1>3, <1>4, <1>8, <2>1, <3>3, <3>4, <3>5 DEF v, D
  <2> QED
    BY <1>1, <2>3, <2>4
<1> QED
  BY <1>2, <1>6, <1>7, <1>8, <1>1, <1>3 DEF v

(* The bound does not go down during a jump. *)
LEMMA RisingOn ==
  ASSUME NEW n \in Nat
  PROVE  /\ Motion!LongestDt * Motion!Rise(Rising(n)) \in Int
         /\ 0 <= Motion!LongestDt * Motion!Rise(Rising(n))
         /\ Motion!LongestDt * Motion!Rise(Rising(n))
              <= Motion!LongestDt * Motion!Rise(Rising(n + 1))
         /\ Motion!LongestDt * Motion!Rise(Rising(n))
              <= Motion!LongestDt * Motion!Rise(Top)
<1>1. Top \in Nat /\ Motion!LongestDt \in Nat
  BY MotionNumbers
<1>2. /\ Motion!Rise(Rising(n)) \in Int /\ 0 <= Motion!Rise(Rising(n))
      /\ Motion!Rise(Rising(n)) <= Motion!Rise(Rising(n + 1))
      /\ Motion!Rise(Rising(n + 1)) \in Int
      /\ Motion!Rise(Rising(n)) <= Motion!Rise(Top)
  <2>1. /\ Rising(n) \in Nat /\ Rising(n + 1) \in Nat
        /\ Rising(n) <= Rising(n + 1) /\ Rising(n + 1) <= Top
    BY <1>1 DEF Rising
  <2>2. Motion!Rise(Rising(n)) \in Int /\ Motion!Rise(Rising(n + 1)) \in Int
    BY <2>1, RiseNext
  <2>3. Rising(n) <= Top /\ 0 <= Rising(n)
    BY <1>1, <2>1
  <2> QED
    BY <1>1, <2>1, <2>2, <2>3, RiseUp, RiseFalls
<1>3. \A a, b, e \in Nat : a <= b => e * a <= e * b /\ e * a \in Nat
  OBVIOUS
<1> QED
  BY <1>1, <1>2, <1>3, RiseFalls

LEMMA MotionPlay ==
  ASSUME MInv, NEW dt \in Dts, NEW floor \in Floors, NEW blocked \in BOOLEAN,
         Motion!Update(dt, floor, blocked)
  PROVE  MInv'
<1> DEFINE to == y + (Motion!Jumped + Motion!FallV) * dt
           down == to <= floor
<1>1. /\ to \in Int
      /\ Motion!Jumped = 0 => to <= y
      /\ Motion!Jumped # 0 /\ ground =>
           to <= y + Motion!LongestDt * Motion!Rise(Rising(1))
      /\ Motion!Jumped # 0 /\ ~ ground =>
           to <= from + Motion!LongestDt * Motion!Rise(Rising(air))
  BY OneTick
<1>2. /\ stage = "playing" /\ floor <= y
      /\ blocked => to > y
      /\ heading' = (IF ground THEN input.heading ELSE heading)
      /\ y' = (IF down THEN floor ELSE IF blocked THEN y ELSE to)
      /\ ground' = down
      /\ vy' = (IF down THEN 0 ELSE Motion!Jumped)
      /\ air' = (IF down THEN 1 ELSE air + 1)
      /\ from' = (IF down \/ ground THEN IF down THEN floor ELSE y ELSE from)
      /\ UNCHANGED <<stage, input>>
  BY DEF Motion!Update, Motion!AfterLanding
<1> HIDE DEF to
<1>3. /\ y \in Nat /\ from \in Nat /\ air \in Nat /\ floor \in Nat
      /\ vy \in {0, JumpSpeed} /\ Motion!Jumped \in {0, JumpSpeed}
  BY MotionNumbers DEF MInv, Motion!TypeOK, Motion!Jumped
<1>4. heading' \in Headings /\ stage' \in {"spawning", "playing"} /\ input' \in Motion!Inputs
  BY <1>2 DEF MInv, Motion!TypeOK, Motion!Inputs
<1>5. CASE down
  <2>1. ground' \in BOOLEAN /\ ground'
    BY <1>2, <1>5
  <2>2. /\ y' = floor /\ from' = floor /\ vy' = 0 /\ air' = 1 /\ stage' = "playing"
        /\ stage = "playing"
    BY <1>2, <1>5
  <2>3. /\ y' \in Nat /\ from' \in Nat /\ air' \in Nat /\ vy' \in {0, JumpSpeed}
        /\ y' = from' /\ stage' # "spawning"
    BY <1>3, <2>2
  <2>4. Motion!TypeOK'
    BY <1>4, <2>1, <2>3 DEF Motion!TypeOK
  <2> QED
    BY <2>1, <2>2, <2>3, <2>4 DEF MInv, Motion!StandsAtRest, Aloft
<1>6. CASE ~ down
  <2>1. /\ y' = (IF blocked THEN y ELSE to) /\ vy' = Motion!Jumped /\ air' = air + 1
        /\ from' = (IF ground THEN y ELSE from) /\ stage' = "playing"
    BY <1>2, <1>6
  <2>2. ground' \in BOOLEAN /\ ~ ground'
    <3>1. (to <= floor) = FALSE
      BY <1>1, <1>3, <1>6
    <3>2. ground' = FALSE
      BY <1>2, <3>1
    <3> QED
      BY <3>2
  <2>3. to > floor /\ y' <= to /\ y' \in Nat /\ from' \in Nat /\ air' \in Nat
    BY <1>1, <1>2, <1>3, <1>6, <2>1
  <2>4. Motion!TypeOK' /\ Motion!StandsAtRest'
    BY <1>3, <1>4, <2>1, <2>2, <2>3 DEF Motion!TypeOK, Motion!StandsAtRest
  <2>5. vy' = 0 => y' <= from'
    <3>1. ground => y = from
      BY DEF MInv, Aloft
    <3>2. Motion!Jumped = 0 /\ ~ ground => y <= from
      <4>1. Motion!Jumped = 0 /\ ~ ground => vy = 0
        BY DEF Motion!Jumped
      <4> QED
        BY <4>1 DEF MInv, Aloft
    <3> QED
      BY <1>1, <1>3, <2>1, <2>3, <3>1, <3>2
  <2>6. vy' # 0 => /\ air' > 1
                   /\ y' <= from' + Motion!LongestDt * Motion!Rise(Rising(air' - 1))
    <3>1. air' - 1 = air /\ (ground => air = 1)
      BY <1>3, <2>1 DEF MInv, Motion!StandsAtRest
    <3>2. ~ ground /\ Motion!Jumped # 0 => air > 1
      <4>1. ~ ground /\ Motion!Jumped # 0 => vy # 0
        BY DEF Motion!Jumped
      <4> QED
        BY <4>1 DEF MInv, Aloft
    <3>3. Motion!LongestDt * Motion!Rise(Rising(air)) \in Int
      BY <1>3, RisingOn
    <3> QED
      BY <1>1, <1>3, <2>1, <2>3, <3>1, <3>2, <3>3
  <2> QED
    BY <2>1, <2>2, <2>4, <2>5, <2>6 DEF MInv, Aloft
<1> QED
  BY <1>5, <1>6

LEMMA MotionStep == MInv /\ [Motion!Next]_motionVars => MInv'
<1> SUFFICES ASSUME MInv, [Motion!Next]_motionVars PROVE MInv'
  OBVIOUS
<1>1. CASE Motion!Wait
  BY <1>1 DEF Motion!Wait, MInv, Motion!TypeOK, Motion!StandsAtRest, Aloft
<1>2. CASE Motion!Listed
  BY <1>2 DEF Motion!Listed, MInv, Motion!TypeOK, Motion!StandsAtRest, Aloft
<1>3. CASE Motion!Play
  BY <1>3, MotionPlay DEF Motion!Play
<1>4. ASSUME NEW i \in Motion!Inputs, Motion!OnData(i) PROVE MInv'
  BY <1>4 DEF Motion!OnData, MInv, Motion!TypeOK, Motion!StandsAtRest, Aloft
<1>5. CASE UNCHANGED motionVars
  BY <1>5 DEF motionVars, MInv, Motion!TypeOK, Motion!StandsAtRest, Aloft
<1> QED
  BY <1>1, <1>2, <1>3, <1>4, <1>5 DEF Motion!Next

(* In the air a player is no higher above where it left the ground than the *)
(* ticks since can have carried it (world.cpp:192-231).                    *)
THEOREM MotionInvariance == PartsSpec => []MInv
<1>1. PartsInit => MInv
  BY MotionInit DEF PartsInit
<1>2. MInv /\ [PartsNext]_<<part, vars, motionVars, keysVars, locksVars>> => MInv'
  BY MotionStep DEF PartsNext
<1> QED
  BY <1>1, <1>2, PTL DEF PartsSpec

(* A player that stands has nothing left of a jump or a fall, and no jump  *)
(* goes higher than its speed and gravity allow, for ticks of any lengths  *)
(* and any floors (world.cpp:192-231).                                     *)
THEOREM PlayersMoveRight == PartsSpec => []MotionRight
<1>1. MInv => MotionRight
  <2> SUFFICES ASSUME MInv PROVE Motion!JumpBounded
    BY DEF MInv, MotionRight
  <2>1. y \in Nat /\ from \in Nat /\ air \in Nat
    BY DEF MInv, Motion!TypeOK
  <2>2. PICK b \in Int : b = Motion!LongestDt * Motion!Rise(Top) /\ 0 <= b
    BY RisingOn, MotionNumbers DEF Rising
  <2>3. CASE ground \/ vy = 0
    BY <2>1, <2>2, <2>3 DEF MInv, Aloft, Motion!JumpBounded, Top
  <2>4. CASE ~ (ground \/ vy = 0)
    <3>1. PICK n \in Nat : n = air - 1
      BY <2>1, <2>4 DEF MInv, Aloft
    <3> QED
      BY <2>1, <2>2, <2>4, <3>1, RisingOn DEF MInv, Aloft, Motion!JumpBounded, Top
  <2> QED
    BY <2>3, <2>4
<1> QED
  BY <1>1, MotionInvariance, PTL

(* Who is in the air keeps heading and speed until it lands, whatever is   *)
(* pressed meanwhile: no second jump (world.cpp:192-217).                  *)
THEOREM FliesOn == PartsSpec => Motion!Ballistic
<1>1. [Motion!Next]_motionVars => [~ ground /\ ~ ground' => heading' = heading /\ vy' = vy]_motionVars
  <2> SUFFICES ASSUME Motion!Next, ~ ground, ~ ground' PROVE heading' = heading /\ vy' = vy
    OBVIOUS
  <2>1. CASE Motion!Play
    BY <2>1 DEF Motion!Play, Motion!Update, Motion!Jumped
  <2> QED
    BY <2>1 DEF Motion!Next, Motion!Wait, Motion!Listed, Motion!OnData
<1>2. [PartsNext]_<<part, vars, motionVars, keysVars, locksVars>> => [Motion!Next]_motionVars
  BY DEF PartsNext, vars
<1> QED
  BY <1>1, <1>2, PTL DEF PartsSpec, Motion!Ballistic, Motion!vars, motionVars

-----------------------------------------------------------------------------
(* Nothing stays set while roaming that will not be excused. *)
Excused == roam => keys \subseteq loose

(* What is in downKeys of a key that did not meet a change of shift.       *)
Camera ==
  /\ \A c \in downKeys : c.key \notin shifted => c.key \in pressed /\ c = Keys!Code(c.key)
  /\ \A k \in pressed \cap Keys!CharKeys : k \notin shifted => Keys!Code(k) \in downKeys

KInv == Keys!TypeOK /\ Keys!FollowsKeys /\ Excused /\ Camera

LEMMA KeysInit == Keys!Init => KInv
<1> SUFFICES ASSUME Keys!Init PROVE KInv
  OBVIOUS
<1>1. Keys!TypeOK
  <2>1. wire \in Seq(SUBSET Keys!Flags) /\ Len(wire) = 0
    BY EmptySeq DEF Keys!Init
  <2>2. Len(wire) <= MaxWire /\ events \in 0..MaxEvents
    BY <2>1, KeysAssumption DEF Keys!KeysConstants, Keys!Init
  <2>3. pressed = {} /\ downKeys = {} /\ keys = {} /\ server = {} /\ loose = {} /\ shifted = {}
    BY DEF Keys!Init
  <2>4. shift \in BOOLEAN /\ roam \in BOOLEAN
    BY DEF Keys!Init
  <2> QED
    BY <2>1, <2>2, <2>3, <2>4 DEF Keys!TypeOK
<1>2. Keys!FollowsKeys /\ Excused /\ Camera
  BY DEF Keys!Init, Keys!FollowsKeys, Keys!FlagsOf, Excused, Camera
<1> QED
  BY <1>1, <1>2 DEF KInv

LEMMA WireType ==
  ASSUME Keys!TypeOK, NEW i \in SUBSET Keys!Flags, Keys!Send(i)
  PROVE  wire' \in Seq(SUBSET Keys!Flags) /\ Len(wire') <= MaxWire
<1>1. wire \in Seq(SUBSET Keys!Flags) /\ Len(wire) < MaxWire /\ wire' = Append(wire, i)
  BY DEF Keys!TypeOK, Keys!Send
<1>2. Len(wire') = Len(wire) + 1 /\ wire' \in Seq(SUBSET Keys!Flags) /\ Len(wire) \in Nat
  BY <1>1
<1> QED
  BY <1>1, <1>2, KeysAssumption DEF Keys!KeysConstants

LEMMA EventType ==
  ASSUME Keys!TypeOK, Keys!Event
  PROVE  events' \in 0..MaxEvents
BY KeysAssumption DEF Keys!KeysConstants, Keys!TypeOK, Keys!Event

LEMMA CodeType ==
  ASSUME Keys!TypeOK, NEW k \in Keys!CharKeys
  PROVE  Keys!Code(k) \in [key : Letters, upper : BOOLEAN]
                         \cup [key : Keys!CharKeys \ Letters, upper : {FALSE}]
BY KeysAssumption DEF Keys!KeysConstants, Keys!TypeOK, Keys!Code, Keys!CharKeys

LEMMA KeyDownInv ==
  ASSUME KInv, NEW k \in Keys!CharKeys, Keys!KeyDown(k)
  PROVE  KInv'
<1>1. Keys!TypeOK'
  <2>1. keys' \in SUBSET Keys!Flags
    BY DEF KInv, Keys!TypeOK, Keys!KeyDown, Keys!Flags, Keys!FlagsOf, Keys!CharKeys
  <2>2. wire' \in Seq(SUBSET Keys!Flags) /\ Len(wire') <= MaxWire
    BY <2>1, WireType DEF KInv, Keys!KeyDown
  <2>3. events' \in 0..MaxEvents
    BY EventType DEF KInv, Keys!KeyDown
  <2> QED
    BY <2>1, <2>2, <2>3, CodeType DEF KInv, Keys!TypeOK, Keys!KeyDown
<1>2. Keys!FollowsKeys' /\ Excused'
  BY DEF KInv, Keys!FollowsKeys, Excused, Keys!KeyDown, Keys!FlagsOf
<1>3. Camera'
  BY DEF KInv, Camera, Keys!KeyDown, Keys!Code
<1> QED
  BY <1>1, <1>2, <1>3 DEF KInv

LEMMA KeyUpInv ==
  ASSUME KInv, NEW k \in Keys!CharKeys \ {Esc}, Keys!KeyUp(k)
  PROVE  KInv'
<1>1. Keys!TypeOK'
  <2>3. events' \in 0..MaxEvents
    BY EventType DEF KInv, Keys!KeyUp
  <2> QED
    BY <2>3 DEF KInv, Keys!TypeOK, Keys!KeyUp, Keys!Cleared, Keys!Forget
<1>2. Keys!FollowsKeys' /\ Excused'
  BY KeysAssumption DEF Keys!KeysConstants, KInv, Keys!FollowsKeys, Excused, Keys!KeyUp, Keys!Cleared, Keys!FlagsOf
<1>3. Camera'
  <2>1. UNCHANGED <<shift, shifted>> /\ pressed' = pressed \ {k}
        /\ downKeys' = downKeys \ {Keys!Code(k)}
    BY DEF Keys!KeyUp, Keys!Forget
  <2>2. \A j : Keys!Code(j)' = Keys!Code(j) /\ Keys!Code(j).key = j
    BY <2>1 DEF Keys!Code
  <2>3. ASSUME NEW c \in downKeys', c.key \notin shifted'
        PROVE  c.key \in pressed' /\ c = Keys!Code(c.key)'
    BY <2>1, <2>2, <2>3 DEF KInv, Camera
  <2>4. ASSUME NEW j \in pressed' \cap Keys!CharKeys, j \notin shifted'
        PROVE  Keys!Code(j)' \in downKeys'
    BY <2>1, <2>2, <2>4 DEF KInv, Camera
  <2> QED
    BY <2>3, <2>4 DEF Camera, Keys!CharKeys
<1> QED
  BY <1>1, <1>2, <1>3 DEF KInv

LEMMA ArrowInv ==
  ASSUME KInv, NEW a \in Arrows, Keys!SpecialKeyDown(a) \/ Keys!SpecialKeyUp(a)
  PROVE  KInv'
<1>1. Keys!TypeOK'
  <2>1. keys' \in SUBSET Keys!Flags
    <3>1. a # Esc
      BY KeysAssumption DEF Keys!KeysConstants, Keys!CharKeys
    <3> QED
      BY <3>1 DEF KInv, Keys!TypeOK, Keys!SpecialKeyDown, Keys!SpecialKeyUp,
                  Keys!Flags, Keys!FlagsOf
  <2>2. wire' \in Seq(SUBSET Keys!Flags) /\ Len(wire') <= MaxWire
    BY <2>1, WireType DEF KInv, Keys!SpecialKeyDown, Keys!SpecialKeyUp, Keys!TypeOK
  <2>3. events' \in 0..MaxEvents
    BY EventType DEF KInv, Keys!SpecialKeyDown, Keys!SpecialKeyUp
  <2> QED
    BY <2>1, <2>2, <2>3 DEF KInv, Keys!TypeOK, Keys!SpecialKeyDown, Keys!SpecialKeyUp, Keys!Flags, Keys!FlagsOf
<1>2. pressed' \cap Keys!CharKeys = pressed \cap Keys!CharKeys
  BY KeysAssumption DEF Keys!KeysConstants, Keys!SpecialKeyDown, Keys!SpecialKeyUp
<1>3. UNCHANGED <<shift, shifted, downKeys, roam>>
  BY DEF Keys!SpecialKeyDown, Keys!SpecialKeyUp
<1>4. \/ keys' = keys \cup {FlagOf[a]} /\ loose' = loose \cup {FlagOf[a]}
      \/ UNCHANGED <<keys, loose>>
  BY DEF Keys!SpecialKeyDown, Keys!SpecialKeyUp
<1>5. Keys!FollowsKeys'
  BY <1>2, <1>3, <1>4 DEF KInv, Keys!FollowsKeys
<1>6. Excused'
  BY <1>3, <1>4 DEF KInv, Excused
<1>7. Camera'
  <2>1. \A k : Keys!Code(k)' = Keys!Code(k)
    BY <1>3 DEF Keys!Code
  <2>2. \A c \in downKeys : c.key \in Keys!CharKeys
    BY DEF KInv, Keys!TypeOK, Keys!CharKeys
  <2>3. \A k \in Keys!CharKeys : k \in pressed' <=> k \in pressed
    BY <1>2
  <2> QED
    BY <1>3, <2>1, <2>2, <2>3 DEF KInv, Camera, Keys!CharKeys
<1> QED
  BY <1>1, <1>5, <1>6, <1>7 DEF KInv

LEMMA EscapeInv ==
  ASSUME KInv, Keys!Escape
  PROVE  KInv'
<1>1. Keys!TypeOK'
  <2>3. events' \in 0..MaxEvents
    BY EventType DEF KInv, Keys!Escape
  <2> QED
    BY <2>3 DEF KInv, Keys!TypeOK, Keys!Escape, Keys!Forget, Keys!Flags, Keys!FlagsOf
<1>2. Keys!FollowsKeys' /\ Excused'
  BY DEF KInv, Keys!FollowsKeys, Excused, Keys!Escape, Keys!FlagsOf
<1>3. Camera'
  <2>1. UNCHANGED <<shift, shifted>> /\ pressed' = pressed \ {Esc}
        /\ downKeys' = downKeys \ {Keys!Code(Esc)}
    BY DEF Keys!Escape, Keys!Forget
  <2>2. \A j : Keys!Code(j)' = Keys!Code(j) /\ Keys!Code(j).key = j
    BY <2>1 DEF Keys!Code
  <2>3. ASSUME NEW c \in downKeys', c.key \notin shifted'
        PROVE  c.key \in pressed' /\ c = Keys!Code(c.key)'
    BY <2>1, <2>2, <2>3 DEF KInv, Camera
  <2>4. ASSUME NEW j \in pressed' \cap Keys!CharKeys, j \notin shifted'
        PROVE  Keys!Code(j)' \in downKeys'
    BY <2>1, <2>2, <2>4 DEF KInv, Camera
  <2> QED
    BY <2>3, <2>4 DEF Camera, Keys!CharKeys
<1> QED
  BY <1>1, <1>2, <1>3 DEF KInv

LEMMA ShiftInv ==
  ASSUME KInv, Keys!Shift
  PROVE  KInv'
<1>1. Keys!TypeOK'
  <2>3. events' \in 0..MaxEvents
    BY EventType DEF KInv, Keys!Shift
  <2> QED
    BY <2>3 DEF KInv, Keys!TypeOK, Keys!Shift
<1>2. Keys!FollowsKeys' /\ Excused'
  BY DEF KInv, Keys!FollowsKeys, Excused, Keys!Shift
<1>3. Camera'
  BY DEF KInv, Camera, Keys!Shift, Keys!Code, Keys!TypeOK, Keys!CharKeys
<1> QED
  BY <1>1, <1>2, <1>3 DEF KInv

LEMMA WireInv ==
  ASSUME KInv, Keys!PostRender \/ Keys!OnData
  PROVE  KInv'
<1>1. Keys!TypeOK'
  <2>1. CASE Keys!PostRender
    <3>1. wire' \in Seq(SUBSET Keys!Flags) /\ Len(wire') <= MaxWire
      BY <2>1, WireType DEF KInv, Keys!PostRender, Keys!Frame, Keys!TypeOK
    <3> QED
      BY <2>1, <3>1 DEF KInv, Keys!TypeOK, Keys!PostRender
  <2>2. CASE Keys!OnData
    <3>1. wire \in Seq(SUBSET Keys!Flags) /\ Len(wire) <= MaxWire /\ wire # <<>>
      BY <2>2 DEF KInv, Keys!TypeOK, Keys!OnData
    <3>2. /\ Head(wire) \in SUBSET Keys!Flags
          /\ Tail(wire) \in Seq(SUBSET Keys!Flags) /\ Len(Tail(wire)) = Len(wire) - 1
          /\ Len(wire) \in Nat
      BY <3>1, HeadTailProperties, LenProperties
    <3>3. Len(Tail(wire)) <= MaxWire
      BY <3>1, <3>2, KeysAssumption DEF Keys!KeysConstants
    <3> QED
      BY <2>2, <3>2, <3>3 DEF KInv, Keys!TypeOK, Keys!OnData
  <2> QED
    BY <2>1, <2>2
<1>2. UNCHANGED <<pressed, shift, downKeys, roam, keys, loose, shifted>>
  BY DEF Keys!PostRender, Keys!OnData
<1> QED
  BY <1>1, <1>2 DEF KInv, Keys!FollowsKeys, Excused, Camera, Keys!Code

LEMMA KeysStep == KInv /\ [Keys!Next]_keysVars => KInv'
<1> SUFFICES ASSUME KInv, [Keys!Next]_keysVars PROVE KInv'
  OBVIOUS
<1>1. CASE UNCHANGED keysVars
  BY <1>1 DEF keysVars, KInv, Keys!TypeOK, Keys!FollowsKeys, Excused, Camera, Keys!Code
<1> QED
  BY <1>1, KeyDownInv, KeyUpInv, ArrowInv, EscapeInv, ShiftInv, WireInv DEF Keys!Next

(* Flags and downKeys follow the fingers but for the uses the code has no  *)
(* answer to, which loose and shifted name (gui.cpp, gl/base.cpp).         *)
THEOREM KeysInvariance == PartsSpec => []KInv
<1>1. PartsInit => KInv
  BY KeysInit DEF PartsInit
<1>2. KInv /\ [PartsNext]_<<part, vars, motionVars, keysVars, locksVars>> => KInv'
  BY KeysStep DEF PartsNext
<1> QED
  BY <1>1, <1>2, PTL DEF PartsSpec

(* The flags that are sent and the keys that move the camera are those of  *)
(* keys held down, for any sequence of key events.                         *)
THEOREM KeysAreRight == PartsSpec => []KeysRight
<1>1. KInv => KeysRight
  <2> SUFFICES ASSUME KInv PROVE Keys!CameraFollowsKeys
    BY DEF KInv, KeysRight
  <2>1. \A c \in downKeys : c.key \in Keys!CharKeys
    BY DEF KInv, Keys!TypeOK, Keys!CharKeys
  <2>2. \A k : Keys!Code(k).key = k
    BY DEF Keys!Code
  <2> QED
    BY <2>1, <2>2 DEF KInv, Camera, Keys!CameraFollowsKeys
<1> QED
  BY <1>1, KeysInvariance, PTL

-----------------------------------------------------------------------------
(* The locks: what a thread holds along its script. *)

Scene  == <<"scene">>
Object == <<"object">>
World(h) == <<"world", h>>
StreamOf(h) == <<"stream", h>>
Lockable == Locks!Mutexes \cup {Scene}

(* A reader of the scene is inside; a writer that no reader is left to     *)
(* wait for has drained it.                                                *)
Inside  == <<"inside">>
Drained == <<"drained">>
Holdable == Lockable \cup {Inside, Drained}

Loops == {"update", "net"} \X SUBSET Conns

Steps == [op : {"lock", "unlock", "drain", "enter", "leave", "read", "write", "each"},
          what : Lockable \cup Loops
                 \cup {<<"objects">>, <<"players">>, <<"tick">>, <<"allHandles">>}
                 \cup {StreamOf(h) : h \in Conns}]

(* What may be waited for while K is held: callbacks hold no more than     *)
(* their own world_mutex, the tick leaves the scene for nothing but        *)
(* object_mutex.                                                           *)
MayLock(t, l, K) ==
  /\ l \in Lockable /\ l \notin K
  /\ \/ t \in Conns /\ K \subseteq {World(t)}
        /\ \A h \in Conns : l = World(h) => h = t
     \/ t = "tick" /\ (Inside \in K => l = Object) /\ \A h \in Conns : l # World(h)

MayDrain(t, K) ==
  /\ Scene \in K /\ Inside \notin K /\ t # "renderer"
  /\ t \in Conns => K \subseteq {World(t), Scene}

MayEnter(t, K) ==
  /\ Scene \notin K /\ Inside \notin K /\ t \notin Conns
  /\ t = "renderer" => K = {}

(* What may be touched while K is held. *)
MayTouch(t, op, data, K) ==
  \/ data = Scene /\ (Drained \in K \/ (op = "read" /\ Inside \in K))
  \/ data = <<"objects">> /\ t # "renderer" /\ (Object \in K \/ (t = "tick" /\ op = "read"))
  \/ data = <<"tick">> /\ t # "renderer" /\ (t = "tick" \/ op = "read")
  \/ \E h \in Conns : data = StreamOf(h) /\ (t = h \/ (t = "tick" /\ op = "read"))
  \/ data = <<"players">> /\ <<"player">> \in K
  \/ data = <<"allHandles">> /\ <<"handle">> \in K
  \/ data \in K /\ data \in Locks!Mutexes

(* A step leads from K to L.                                               *)
Link(t, x, K, L) ==
  \/ x.op = "lock" /\ MayLock(t, x.what, K) /\ L = K \cup {x.what}
  \/ /\ x.op = "unlock" /\ x.what \in K \cap Lockable
     /\ L = K \ (IF x.what = Scene THEN {Scene, Drained} ELSE {x.what})
  \/ x.op = "drain" /\ x.what = Scene /\ MayDrain(t, K) /\ L = K \cup {Drained}
  \/ x.op = "enter" /\ x.what = Scene /\ MayEnter(t, K) /\ L = K \cup {Inside}
  \/ x.op = "leave" /\ x.what = Scene /\ Inside \in K /\ L = K \ {Inside}
  \/ x.op \in {"read", "write"} /\ MayTouch(t, x.op, x.what, K) /\ L = K
  \/ x.op = "each" /\ t = "tick" /\ x.what \in Loops /\ K = {<<"player">>} /\ L = K

(* A script leads from K to nothing, holding held[i] before its step i.    *)
Along(t, s, held) ==
  /\ held \in [1..Len(s) + 1 -> SUBSET Holdable]
  /\ held[Len(s) + 1] = {}
  /\ \A i \in 1..Len(s) : Link(t, s[i], held[i], held[i + 1])

Runs(t, s, K) ==
  s \in Seq(Steps) /\ \E held : Along(t, s, held) /\ held[1] = K

(* A part of a script leads from K to L.                                   *)
Part(t, K, a, L) ==
  a \in Seq(Steps) /\ \A s \in Seq(Steps) : Runs(t, s, L) => Runs(t, a \o s, K)

-----------------------------------------------------------------------------
LEMMA RunsEnd ==
  ASSUME NEW t
  PROVE  Runs(t, <<>>, {}) /\ \A K : Runs(t, <<>>, K) => K = {}
<1>1. <<>> \in Seq(Steps) /\ Len(<<>>) = 0
  OBVIOUS
<1>2. Along(t, <<>>, [i \in 1..1 |-> {}])
  BY <1>1 DEF Along
<1>3. [i \in 1..1 |-> {}][1] = {}
  OBVIOUS
<1>4. Runs(t, <<>>, {})
  BY <1>1, <1>2, <1>3 DEF Runs
<1>5. ASSUME NEW K, Runs(t, <<>>, K) PROVE K = {}
  <2>1. PICK held : Along(t, <<>>, held) /\ held[1] = K
    BY <1>5 DEF Runs
  <2>2. held[0 + 1] = {}
    BY <1>1, <2>1, Zenon DEF Along
  <2> QED
    BY <2>1, <2>2
<1> QED
  BY <1>4, <1>5

LEMMA RunsOn ==
  ASSUME NEW t, NEW x \in Steps, NEW K \in SUBSET Holdable, NEW L,
         Link(t, x, K, L), NEW s, Runs(t, s, L)
  PROVE  Runs(t, <<x>> \o s, K)
<1>1. s \in Seq(Steps)
  BY DEF Runs
<1>2. PICK held : Along(t, s, held) /\ held[1] = L
  BY DEF Runs
<1>3. PICK n \in Nat : n = Len(s)
  BY <1>1
<1>4. /\ held \in [1..n + 1 -> SUBSET Holdable] /\ held[n + 1] = {}
      /\ \A i \in 1..n : Link(t, s[i], held[i], held[i + 1])
  BY <1>2, <1>3 DEF Along
<1> DEFINE more == <<x>> \o s
           longer == [i \in 1..n + 2 |-> IF i = 1 THEN K ELSE held[i - 1]]
<1>5. more \in Seq(Steps) /\ Len(more) = n + 1 /\ more[1] = x
      /\ \A i \in 2..n + 1 : more[i] = s[i - 1]
  BY <1>1, <1>3
<1>6. longer \in [1..n + 2 -> SUBSET Holdable] /\ longer[1] = K
      /\ \A i \in 2..n + 2 : longer[i] = held[i - 1]
  BY <1>4
<1> HIDE DEF more, longer
<1>7. ASSUME NEW i \in 1..n + 1 PROVE Link(t, more[i], longer[i], longer[i + 1])
  <2>1. CASE i = 1
    <3>1. longer[2] = L
      BY <1>2, <1>6
    <3> QED
      BY <1>5, <1>6, <2>1, <3>1
  <2>2. CASE i # 1
    <3>1. i - 1 \in 1..n /\ i \in 2..n + 1 /\ i + 1 \in 2..n + 2 /\ (i - 1) + 1 = i /\ (i + 1) - 1 = i
      BY <2>2
    <3>2. Link(t, s[i - 1], held[i - 1], held[i])
      BY <1>4, <3>1
    <3>3. more[i] = s[i - 1] /\ longer[i] = held[i - 1] /\ longer[i + 1] = held[i]
      BY <1>5, <1>6, <3>1
    <3> QED
      BY <3>2, <3>3
  <2> QED
    BY <2>1, <2>2
<1>8. longer[n + 2] = {}
  BY <1>4, <1>6
<1>9. n + 1 + 1 = n + 2
  OBVIOUS
<1>10. Along(t, more, longer)
  BY <1>5, <1>6, <1>7, <1>8, <1>9 DEF Along
<1> QED
  BY <1>5, <1>6, <1>10 DEF Runs, more

LEMMA RunsTail ==
  ASSUME NEW t, NEW K, NEW s, Runs(t, s, K), s # <<>>
  PROVE  /\ Head(s) \in Steps /\ s \in Seq(Steps) /\ K \in SUBSET Holdable
         /\ \E L \in SUBSET Holdable : Link(t, Head(s), K, L) /\ Runs(t, Tail(s), L)
<1>1. s \in Seq(Steps)
  BY DEF Runs
<1>2. PICK held : Along(t, s, held) /\ held[1] = K
  BY DEF Runs
<1>3. PICK n \in Nat : n + 1 = Len(s)
  <2>1. Len(s) \in Nat /\ Len(s) # 0
    BY <1>1
  <2>2. Len(s) - 1 \in Nat /\ Len(s) - 1 + 1 = Len(s)
    BY <2>1
  <2> QED
    BY <2>2
<1>4. /\ held \in [1..n + 2 -> SUBSET Holdable] /\ held[n + 2] = {}
      /\ \A i \in 1..n + 1 : Link(t, s[i], held[i], held[i + 1])
  <2>1. n + 1 + 1 = n + 2
    OBVIOUS
  <2> QED
    BY <1>2, <1>3, <2>1 DEF Along
<1> DEFINE less == Tail(s)
           shorter == [i \in 1..n + 1 |-> held[i + 1]]
<1>5. less \in Seq(Steps) /\ Len(less) = n /\ Head(s) = s[1] /\ Head(s) \in Steps
      /\ \A i \in 1..n : less[i] = s[i + 1]
  BY <1>1, <1>3
<1>6. shorter \in [1..n + 1 -> SUBSET Holdable]
      /\ \A i \in 1..n + 1 : shorter[i] = held[i + 1]
  BY <1>4
<1> HIDE DEF less, shorter
<1>7. ASSUME NEW i \in 1..n PROVE Link(t, less[i], shorter[i], shorter[i + 1])
  <2>1. i + 1 \in 1..n + 1 /\ i \in 1..n + 1
    OBVIOUS
  <2>2. Link(t, s[i + 1], held[i + 1], held[(i + 1) + 1])
    BY <1>4, <2>1
  <2> QED
    BY <1>5, <1>6, <2>1, <2>2
<1>8. Along(t, less, shorter)
  <2>1. shorter[n + 1] = {}
    BY <1>4, <1>6
  <2> QED
    BY <1>5, <1>6, <1>7, <2>1 DEF Along
<1>9. Link(t, Head(s), K, shorter[1]) /\ shorter[1] \in SUBSET Holdable
  BY <1>2, <1>4, <1>5, <1>6
<1>10. Runs(t, less, shorter[1])
  BY <1>5, <1>8 DEF Runs
<1>11. K \in SUBSET Holdable
  BY <1>2, <1>4
<1> QED
  BY <1>1, <1>5, <1>9, <1>10, <1>11 DEF less

LEMMA OneStep ==
  ASSUME NEW t, NEW x \in Steps, NEW K \in SUBSET Holdable, NEW L, Link(t, x, K, L)
  PROVE  Part(t, K, <<x>>, L)
BY RunsOn DEF Part

LEMMA TwoParts ==
  ASSUME NEW t, NEW K, NEW L, NEW M, NEW a, NEW b, Part(t, K, a, L), Part(t, L, b, M)
  PROVE  Part(t, K, a \o b, M)
<1>1. a \in Seq(Steps) /\ b \in Seq(Steps) /\ a \o b \in Seq(Steps)
  BY DEF Part
<1>2. ASSUME NEW s \in Seq(Steps), Runs(t, s, M) PROVE Runs(t, (a \o b) \o s, K)
  <2>1. b \o s \in Seq(Steps) /\ Runs(t, b \o s, L)
    BY <1>1, <1>2 DEF Part
  <2>2. Runs(t, a \o (b \o s), K)
    BY <2>1 DEF Part
  <2>3. a \o (b \o s) = (a \o b) \o s
    BY <1>1, ConcatAssociative
  <2> QED
    BY <2>2, <2>3
<1> QED
  BY <1>1, <1>2 DEF Part

(* A whole script.                                                         *)
LEMMA PartRuns ==
  ASSUME NEW t, NEW a, Part(t, {}, a, {})
  PROVE  Runs(t, a, {})
<1>1. a \in Seq(Steps) /\ a \o <<>> = a
  BY DEF Part
<1>2. <<>> \in Seq(Steps)
  OBVIOUS
<1> QED
  BY <1>1, <1>2, RunsEnd DEF Part

-----------------------------------------------------------------------------
(* What the scripts are made of. *)

LEMMA Names ==
  /\ Locks!Mutexes = {<<"player">>, Object, <<"handle">>, <<"connections">>}
                     \cup ({"world", "input"} \X Conns)
  /\ Locks!Scene = Scene /\ Scene \notin Locks!Mutexes
  /\ Inside \notin Lockable /\ Drained \notin Lockable /\ Inside # Drained
  /\ \A h \in Conns : /\ World(h) \in Locks!Mutexes /\ <<"input", h>> \in Locks!Mutexes
                       /\ \A g \in Conns : World(h) = World(g) => h = g
  /\ \A h : World(h) \notin {<<"player">>, Object, <<"handle">>, <<"connections">>, Scene}
  /\ \A h, g : World(h) # <<"input", g>>
  /\ <<"player">> # Object
  /\ \A h : <<"input", h>> # <<"player">>
<1>1. Locks!Mutexes = {<<"player">>, Object, <<"handle">>, <<"connections">>}
                     \cup ({"world", "input"} \X Conns)
  BY DEF Locks!Mutexes, Object
<1>2. Locks!Scene = Scene
  BY DEF Locks!Scene, Scene
<1>3. /\ \A h : World(h) \notin {<<"player">>, Object, <<"handle">>, <<"connections">>, Scene, Inside, Drained}
      /\ \A h : <<"input", h>> \notin {<<"player">>, Object, <<"handle">>, <<"connections">>, Scene, Inside, Drained}
      /\ \A h, g : World(h) # <<"input", g>>
      /\ \A h, g : World(h) = World(g) => h = g
  BY DEF World, Object, Scene, Inside, Drained
<1>4. /\ Scene \notin {<<"player">>, Object, <<"handle">>, <<"connections">>, Inside, Drained}
      /\ Inside \notin {<<"player">>, Object, <<"handle">>, <<"connections">>, Scene, Drained}
      /\ Drained \notin {<<"player">>, Object, <<"handle">>, <<"connections">>, Scene, Inside}
      /\ <<"player">> # Object
  BY DEF Object, Scene, Inside, Drained
<1>5. \A p \in {"world", "input"} \X Conns : \E h \in Conns : p = World(h) \/ p = <<"input", h>>
  BY DEF World
<1>6. \A h \in Conns : World(h) \in {"world", "input"} \X Conns /\ <<"input", h>> \in {"world", "input"} \X Conns
  BY DEF World
<1>7. Scene \notin Locks!Mutexes /\ Inside \notin Lockable /\ Drained \notin Lockable
  BY <1>1, <1>3, <1>4, <1>5 DEF Lockable
<1> QED
  BY <1>1, <1>2, <1>3, <1>4, <1>6, <1>7

LEMMA People ==
  /\ Locks!Threads = Conns \cup {"tick", "renderer"} /\ Free \notin Locks!Threads
  /\ "tick" \notin Conns /\ "renderer" \notin Conns /\ "tick" # "renderer"
BY LocksAssumption DEF Locks!LocksConstants, Locks!Threads

LEMMA InPart ==
  ASSUME NEW t, NEW K \in SUBSET Holdable, NEW l \in Locks!Mutexes, MayLock(t, l, K),
         NEW body, Part(t, K \cup {l}, body, K \cup {l})
  PROVE  Part(t, K, Locks!In(l, body), K)
<1>1. l \in Lockable /\ l # Scene /\ l \in Holdable /\ l \notin K
  BY Names DEF Lockable, Holdable, MayLock
<1> DEFINE lock == [op |-> "lock", what |-> l]
           unlock == [op |-> "unlock", what |-> l]
<1>2. lock \in Steps /\ unlock \in Steps
  BY <1>1 DEF Steps
<1>3. Link(t, lock, K, K \cup {l})
  BY DEF Link
<1>4. Link(t, unlock, K \cup {l}, K)
  <2>1. (K \cup {l}) \ {l} = K
    BY <1>1
  <2> QED
    BY <1>1, <2>1 DEF Link
<1>5. K \cup {l} \in SUBSET Holdable
  BY <1>1
<1> HIDE DEF lock, unlock
<1>6. Part(t, K, <<lock>>, K \cup {l}) /\ Part(t, K \cup {l}, <<unlock>>, K)
  BY <1>2, <1>3, <1>4, <1>5, OneStep
<1>7. Part(t, K, <<lock>> \o body, K \cup {l})
  BY <1>6, TwoParts
<1>8. Part(t, K, (<<lock>> \o body) \o <<unlock>>, K)
  BY <1>6, <1>7, TwoParts
<1> QED
  BY <1>8, Zenon DEF Locks!In, Locks!Step, lock, unlock

LEMMA WritePart ==
  ASSUME NEW t, NEW K \in SUBSET Holdable, MayLock(t, Scene, K), Drained \notin K,
         MayDrain(t, K \cup {Scene}),
         NEW body, Part(t, K \cup {Scene, Drained}, body, K \cup {Scene, Drained})
  PROVE  Part(t, K, Locks!PxSceneWriteLock(body), K)
<1>1. Scene \in Lockable /\ Scene \in Holdable /\ Drained \in Holdable /\ Scene \notin K
  BY DEF Lockable, Holdable, MayLock
<1> DEFINE lock == [op |-> "lock", what |-> Scene]
           drain == [op |-> "drain", what |-> Scene]
           unlock == [op |-> "unlock", what |-> Scene]
           M == K \cup {Scene}
           N == K \cup {Scene, Drained}
<1>2. lock \in Steps /\ drain \in Steps /\ unlock \in Steps
  BY <1>1 DEF Steps
<1>3. Link(t, lock, K, M)
  BY DEF Link
<1>4. Link(t, drain, M, N)
  <2>1. M \cup {Drained} = N
    OBVIOUS
  <2> QED
    BY <2>1 DEF Link
<1>5. Link(t, unlock, N, K)
  <2>1. N \ {Scene, Drained} = K
    BY <1>1
  <2> QED
    BY <1>1, <2>1 DEF Link
<1>6. M \in SUBSET Holdable /\ N \in SUBSET Holdable
  BY <1>1
<1>7. Part(t, N, body, N)
  OBVIOUS
<1> HIDE DEF lock, drain, unlock, M, N
<1>8. Part(t, K, <<lock>>, M) /\ Part(t, M, <<drain>>, N) /\ Part(t, N, <<unlock>>, K)
  BY <1>2, <1>3, <1>4, <1>5, <1>6, OneStep
<1>9. Part(t, M, <<drain>> \o body, N)
  BY <1>7, <1>8, TwoParts
<1>10. Part(t, K, <<lock>> \o (<<drain>> \o body), N)
  BY <1>8, <1>9, TwoParts
<1>11. Part(t, K, (<<lock>> \o (<<drain>> \o body)) \o <<unlock>>, K)
  BY <1>8, <1>10, TwoParts
<1> QED
  BY <1>11, Names, Zenon DEF Locks!PxSceneWriteLock, Locks!In, Locks!Step, lock, drain, unlock

LEMMA ReadPart ==
  ASSUME NEW t, NEW K \in SUBSET Holdable, MayEnter(t, K),
         NEW body, Part(t, K \cup {Inside}, body, K \cup {Inside})
  PROVE  Part(t, K, Locks!PxSceneReadLock(body), K)
<1>1. Scene \in Lockable /\ Inside \in Holdable /\ Inside \notin K
  BY DEF Lockable, Holdable, MayEnter
<1> DEFINE enter == [op |-> "enter", what |-> Scene]
           leave == [op |-> "leave", what |-> Scene]
           M == K \cup {Inside}
<1>2. enter \in Steps /\ leave \in Steps
  BY <1>1 DEF Steps
<1>3. Link(t, enter, K, M)
  BY DEF Link
<1>4. Link(t, leave, M, K)
  <2>1. M \ {Inside} = K
    BY <1>1
  <2> QED
    BY <1>1, <2>1 DEF Link
<1>5. M \in SUBSET Holdable /\ Part(t, M, body, M)
  BY <1>1
<1> HIDE DEF enter, leave, M
<1>6. Part(t, K, <<enter>>, M) /\ Part(t, M, <<leave>>, K)
  BY <1>2, <1>3, <1>4, <1>5, OneStep
<1>7. Part(t, K, <<enter>> \o body, M)
  BY <1>5, <1>6, TwoParts
<1>8. Part(t, K, (<<enter>> \o body) \o <<leave>>, K)
  BY <1>6, <1>7, TwoParts
<1> QED
  BY <1>8, Names, Zenon DEF Locks!PxSceneReadLock, Locks!Step, enter, leave

Data == Lockable \cup {<<"objects">>, <<"players">>, <<"tick">>, <<"allHandles">>}
                 \cup {StreamOf(h) : h \in Conns}

LEMMA TouchPart ==
  ASSUME NEW t, NEW K \in SUBSET Holdable, NEW d \in Data
  PROVE  /\ MayTouch(t, "read", d, K) => Part(t, K, Locks!Reading(d), K)
         /\ MayTouch(t, "write", d, K) => Part(t, K, Locks!Writing(d), K)
<1>1. ASSUME NEW o \in {"read", "write"}, MayTouch(t, o, d, K)
      PROVE  Part(t, K, Locks!Step(o, d), K)
  <2> DEFINE x == [op |-> o, what |-> d]
  <2>1. x \in Steps
    BY DEF Steps, Data
  <2>2. Link(t, x, K, K)
    BY <1>1 DEF Link
  <2> HIDE DEF x
  <2>3. Part(t, K, <<x>>, K)
    BY <2>1, <2>2, OneStep
  <2> QED
    BY <2>3 DEF Locks!Step, x
<1> QED
  BY <1>1 DEF Locks!Reading, Locks!Writing

-----------------------------------------------------------------------------
(* The scripts of the tick. *)

LEMMA TickLocks ==
  /\ \A l \in Lockable : \A K : l \notin K /\ Inside \notin K /\ (\A h \in Conns : l # World(h)) =>
       MayLock("tick", l, K)
  /\ \A K : Object \notin K => MayLock("tick", Object, K)
  /\ \A K : Scene \notin K /\ Inside \notin K =>
       MayLock("tick", Scene, K) /\ MayDrain("tick", K \cup {Scene}) /\ MayEnter("tick", K)
  /\ <<"player">> \in Locks!Mutexes /\ Object \in Locks!Mutexes /\ Scene \in Lockable
  /\ {Scene, Object, <<"player">>, <<"handle">>, <<"connections">>} \subseteq Data
  /\ {<<"objects">>, <<"players">>, <<"tick">>, <<"allHandles">>} \subseteq Data
  /\ \A h \in Conns : <<"input", h>> \in Data
  /\ Locks!Mutexes \subseteq Lockable /\ Lockable \subseteq Holdable
  /\ Inside \in Holdable /\ Drained \in Holdable
<1>1. <<"player">> \in Locks!Mutexes /\ Object \in Locks!Mutexes /\ Scene \in Lockable
      /\ Locks!Mutexes \subseteq Lockable
  BY Names DEF Lockable
<1>2. \A h \in Conns : Object # World(h) /\ Scene # World(h)
  BY Names
<1>3. Scene # Inside
  BY <1>1, Names
<1>4. \A l \in Lockable : \A K : l \notin K /\ Inside \notin K /\ (\A h \in Conns : l # World(h)) =>
        MayLock("tick", l, K)
  BY DEF MayLock
<1>5. \A K : Object \notin K => MayLock("tick", Object, K)
  BY <1>1, <1>2 DEF MayLock
<1>6. \A K : Scene \notin K /\ Inside \notin K =>
        MayLock("tick", Scene, K) /\ MayDrain("tick", K \cup {Scene}) /\ MayEnter("tick", K)
  BY <1>1, <1>2, <1>3, <1>4, People DEF MayDrain, MayEnter
<1>7. /\ {Scene, Object, <<"player">>, <<"handle">>, <<"connections">>} \subseteq Data
      /\ {<<"objects">>, <<"players">>, <<"tick">>, <<"allHandles">>} \subseteq Data
      /\ \A h \in Conns : <<"input", h>> \in Data
  BY <1>1, Names DEF Data
<1> QED
  BY <1>1, <1>4, <1>5, <1>6, <1>7 DEF Holdable

LEMMA UpdatePlayerPart ==
  ASSUME NEW h \in Conns
  PROVE  Part("tick", {<<"player">>}, Locks!UpdatePlayer(h), {<<"player">>})
<1> DEFINE K == {<<"player">>}
           in == <<"input", h>>
           read == Locks!In(in, Locks!Reading(in))
           tick == Locks!Reading(<<"tick">>)
           write == Locks!PxSceneWriteLock(Locks!Writing(Scene))
<1>1. /\ K \in SUBSET Holdable /\ in \in Locks!Mutexes /\ in \in Lockable /\ in \notin K
      /\ Inside \notin K /\ Scene \notin K /\ Drained \notin K
  BY Names, TickLocks
<1>2. Part("tick", K, read, K)
  <2>1. K \cup {in} \in SUBSET Holdable
    BY <1>1, TickLocks
  <2>2. MayTouch("tick", "read", in, K \cup {in})
    BY <1>1 DEF MayTouch
  <2>3. Part("tick", K \cup {in}, Locks!Reading(in), K \cup {in})
    BY <2>1, <2>2, TouchPart, TickLocks
  <2>4. MayLock("tick", in, K)
    BY <1>1, Names, TickLocks
  <2> HIDE DEF K, in
  <2> QED
    BY <1>1, <2>3, <2>4, InPart
<1>3. Part("tick", K, tick, K)
  <2>1. MayTouch("tick", "read", <<"tick">>, K)
    BY People DEF MayTouch
  <2> QED
    BY <1>1, <2>1, TouchPart, TickLocks
<1>4. Part("tick", K, write, K)
  <2> DEFINE N == K \cup {Scene, Drained}
  <2>1. N \in SUBSET Holdable
    BY <1>1, TickLocks
  <2>2. MayTouch("tick", "write", Scene, N)
    BY DEF MayTouch
  <2>3. Part("tick", N, Locks!Writing(Scene), N)
    BY <2>1, <2>2, TouchPart, TickLocks
  <2> HIDE DEF K
  <2> QED
    BY <1>1, <2>3, WritePart, TickLocks
<1> HIDE DEF K, in, read, tick, write
<1>5. Part("tick", K, (read \o tick) \o write, K)
  BY <1>2, <1>3, <1>4, TwoParts
<1> QED
  BY <1>5, Names, Zenon DEF Locks!UpdatePlayer, K, in, read, tick, write, Scene

LEMMA UpdateStatePart ==
  ASSUME NEW h \in Conns
  PROVE  Part("tick", {<<"player">>}, Locks!UpdateState(h), {<<"player">>})
<1> DEFINE K == {<<"player">>}
           M == K \cup {Inside}
           objects == Locks!Reading(<<"objects">>)
           scene == Locks!Reading(Scene)
           stream == Locks!Reading(StreamOf(h))
<1>1. K \in SUBSET Holdable /\ M \in SUBSET Holdable /\ Inside \notin K /\ Scene \notin K
  BY Names, TickLocks
<1>2. /\ MayTouch("tick", "read", <<"objects">>, M) /\ MayTouch("tick", "read", Scene, M)
      /\ MayTouch("tick", "read", StreamOf(h), M)
  BY People DEF MayTouch
<1>3. /\ Part("tick", M, objects, M) /\ Part("tick", M, scene, M)
      /\ Part("tick", M, stream, M)
  <2>1. StreamOf(h) \in Data
    BY DEF Data
  <2> QED
    BY <1>1, <1>2, <2>1, TouchPart, TickLocks
<1>4. MayEnter("tick", K)
  BY <1>1, TickLocks
<1> HIDE DEF objects, scene, stream
<1>5. Part("tick", M, (objects \o scene) \o stream, M)
  BY <1>3, TwoParts
<1> HIDE DEF K
<1>6. Part("tick", K, Locks!PxSceneReadLock((objects \o scene) \o stream), K)
  BY <1>1, <1>4, <1>5, ReadPart
<1> QED
  BY <1>6, Names, Zenon DEF Locks!UpdateState, K, objects, scene, stream, Scene, StreamOf

(* A loop, what is left of it and all of it.                               *)
LEMMA EachPart ==
  ASSUME NEW kind \in {"update", "net"}, NEW left \in SUBSET Conns
  PROVE  Part("tick", {<<"player">>}, Locks!Each(kind, left), {<<"player">>})
<1> DEFINE x == [op |-> "each", what |-> <<kind, left>>]
<1>1. x \in Steps
  BY DEF Steps, Loops
<1>2. Link("tick", x, {<<"player">>}, {<<"player">>})
  BY DEF Link, Loops
<1>3. {<<"player">>} \in SUBSET Holdable
  BY TickLocks
<1> HIDE DEF x
<1>4. Part("tick", {<<"player">>}, <<x>>, {<<"player">>})
  BY <1>1, <1>2, <1>3, OneStep
<1> QED
  BY <1>4, Zenon DEF Locks!Each, Locks!Step, x

LEMMA PlayersPart ==
  ASSUME NEW kind \in {"update", "net"}
  PROVE  Part("tick", {}, Locks!In(<<"player">>, Locks!ForEachPlayer(kind)), {})
<1> DEFINE K == {<<"player">>}
<1>1. K \in SUBSET Holdable /\ K = {} \cup {<<"player">>}
  BY TickLocks
<1>2. MayTouch("tick", "read", <<"players">>, K)
  BY DEF MayTouch
<1>3. Part("tick", K, Locks!Reading(<<"players">>), K)
  BY <1>1, <1>2, TouchPart, TickLocks
<1>4. Part("tick", K, Locks!Each(kind, Conns), K)
  BY EachPart
<1>5. Part("tick", K, Locks!Reading(<<"players">>) \o Locks!Each(kind, Conns), K)
  BY <1>3, <1>4, TwoParts, Zenon
<1>6. Part("tick", K, Locks!ForEachPlayer(kind), K)
  BY <1>5, Zenon DEF Locks!ForEachPlayer
<1>7. MayLock("tick", <<"player">>, {})
  BY TickLocks, Names
<1> QED
  BY <1>1, <1>6, <1>7, InPart, TickLocks

(* A part of the tick that holds nothing but the scene.                    *)
LEMMA AlonePart ==
  ASSUME NEW body, Part("tick", {Scene, Drained}, body, {Scene, Drained})
  PROVE  Part("tick", {}, Locks!PxSceneWriteLock(body), {})
<1>1. {} \in SUBSET Holdable /\ {} \cup {Scene, Drained} = {Scene, Drained}
  OBVIOUS
<1>2. MayLock("tick", Scene, {}) /\ MayDrain("tick", {} \cup {Scene})
  BY TickLocks
<1> QED
  BY <1>1, <1>2, WritePart

LEMMA StepAddPart == Part("tick", {}, Locks!StepAdd, {})
<1> DEFINE K == {Scene, Drained}
           M == K \cup {Object}
<1>1. K \in SUBSET Holdable /\ M \in SUBSET Holdable /\ Object \notin K
  BY Names, TickLocks DEF Lockable
<1>2. MayTouch("tick", "write", Scene, M) /\ MayTouch("tick", "write", <<"objects">>, M)
  BY People DEF MayTouch
<1>3. Part("tick", M, Locks!Writing(Scene), M) /\ Part("tick", M, Locks!Writing(<<"objects">>), M)
  BY <1>1, <1>2, TouchPart, TickLocks
<1>4. Part("tick", M, Locks!AddObject, M)
  <2>1. Part("tick", M, Locks!Writing(Scene) \o Locks!Writing(<<"objects">>), M)
    BY <1>3, TwoParts, Zenon
  <2> QED
    BY <2>1, Zenon DEF Locks!AddObject, Scene
<1>5. MayLock("tick", Object, K)
  BY <1>1, TickLocks
<1>6. Part("tick", K, Locks!In(Object, Locks!AddObject), K)
  <2> HIDE DEF K
  <2> QED
    BY <1>1, <1>4, <1>5, InPart, TickLocks
<1> QED
  BY <1>6, AlonePart, Zenon DEF Locks!StepAdd, Object

LEMMA StepRemovePart == Part("tick", {}, Locks!StepRemove, {})
<1> DEFINE K == {Inside}
           M == K \cup {Object}
<1>1. K \in SUBSET Holdable /\ M \in SUBSET Holdable /\ Object \notin K
  BY Names, TickLocks
<1>2. MayTouch("tick", "read", <<"objects">>, M) /\ MayTouch("tick", "read", Scene, M)
  BY People DEF MayTouch
<1>3. Part("tick", M, Locks!Reading(<<"objects">>), M) /\ Part("tick", M, Locks!Reading(Scene), M)
  BY <1>1, <1>2, TouchPart, TickLocks
<1>4. Part("tick", M, Locks!Reading(<<"objects">>) \o Locks!Reading(Scene), M)
  BY <1>3, TwoParts, Zenon
<1>5. MayLock("tick", Object, K)
  BY <1>1, TickLocks
<1>6. Part("tick", K, Locks!In(Object, Locks!Reading(<<"objects">>) \o Locks!Reading(Scene)), K)
  <2> HIDE DEF K
  <2> QED
    BY <1>1, <1>4, <1>5, InPart, TickLocks
<1>7. MayEnter("tick", {}) /\ {} \in SUBSET Holdable /\ {} \cup {Inside} = K
  BY TickLocks
<1>8. Part("tick", {}, Locks!PxSceneReadLock(
                         Locks!In(Object, Locks!Reading(<<"objects">>) \o Locks!Reading(Scene))), {})
  BY <1>6, <1>7, ReadPart
<1> QED
  BY <1>8, Zenon DEF Locks!StepRemove, Object, Scene

LEMMA SimulatePart ==
  Part("tick", {}, Locks!Simulate, {}) /\ Part("tick", {}, Locks!SyncSim, {})
<1> DEFINE K == {Scene, Drained}
<1>1. K \in SUBSET Holdable
  BY TickLocks
<1>2. MayTouch("tick", "write", Scene, K) /\ MayTouch("tick", "write", <<"tick">>, K)
  BY People DEF MayTouch
<1>3. Part("tick", K, Locks!Writing(Scene), K) /\ Part("tick", K, Locks!Writing(<<"tick">>), K)
  BY <1>1, <1>2, TouchPart, TickLocks
<1>4. Part("tick", K, Locks!Writing(Scene) \o Locks!Writing(<<"tick">>), K)
  BY <1>3, TwoParts, Zenon
<1>5. Part("tick", {}, Locks!Simulate, {})
  BY <1>4, AlonePart, Zenon DEF Locks!Simulate, Scene
<1>6. Part("tick", {}, Locks!SyncSim, {})
  BY <1>3, AlonePart, Zenon DEF Locks!SyncSim, Scene
<1> QED
  BY <1>5, <1>6

LEMMA GcPart == Part("tick", {}, Locks!Gc, {})
<1> DEFINE K == {Object}
           N == K \cup {Scene, Drained}
           body == Locks!Writing(<<"objects">>) \o Locks!Writing(Scene)
<1>1. /\ K \in SUBSET Holdable /\ N \in SUBSET Holdable /\ K = {} \cup {Object}
      /\ Scene \notin K /\ Inside \notin K /\ Drained \notin K
  BY Names, TickLocks
<1>2. MayTouch("tick", "write", <<"objects">>, N) /\ MayTouch("tick", "write", Scene, N)
  BY People DEF MayTouch
<1>3. Part("tick", N, Locks!Writing(<<"objects">>), N) /\ Part("tick", N, Locks!Writing(Scene), N)
  BY <1>1, <1>2, TouchPart, TickLocks
<1>4. Part("tick", N, body, N)
  BY <1>3, TwoParts, Zenon
<1>5. MayLock("tick", Scene, K) /\ MayDrain("tick", K \cup {Scene}) /\ MayLock("tick", Object, {})
  BY <1>1, TickLocks
<1> HIDE DEF body
<1>6. Part("tick", K, Locks!PxSceneWriteLock(body), K)
  <2> HIDE DEF K
  <2> QED
    BY <1>1, <1>4, <1>5, WritePart
<1>7. Part("tick", {}, Locks!In(Object, Locks!PxSceneWriteLock(body)), {})
  BY <1>1, <1>5, <1>6, InPart, TickLocks
<1> QED
  BY <1>7, Zenon DEF Locks!Gc, body, Object, Scene

LEMMA TickRuns ==
  ASSUME NEW net \in BOOLEAN
  PROVE  Runs("tick", Locks!Tick(net), {})
<1>1. Part("tick", {}, Locks!UpdatePlayers, {}) /\ Part("tick", {}, Locks!UpdateNet, {})
  BY PlayersPart, Zenon DEF Locks!UpdatePlayers, Locks!UpdateNet
<1>2. Part("tick", {}, ((Locks!UpdatePlayers \o Locks!StepAdd) \o Locks!StepRemove) \o Locks!Simulate, {})
  BY <1>1, StepAddPart, StepRemovePart, SimulatePart, TwoParts
<1>3. Part("tick", {}, (Locks!UpdateNet \o Locks!SyncSim) \o Locks!Gc, {})
  BY <1>1, SimulatePart, GcPart, TwoParts
<1>4. Part("tick", {}, IF net THEN (Locks!UpdateNet \o Locks!SyncSim) \o Locks!Gc
                              ELSE Locks!SyncSim, {})
  BY <1>3, SimulatePart
<1>5. Part("tick", {}, Locks!Tick(net), {})
  BY <1>2, <1>4, TwoParts, Zenon DEF Locks!Tick
<1> QED
  BY <1>5, PartRuns

-----------------------------------------------------------------------------
(* The scripts of the callbacks and of the renderer. *)

LEMMA CallbackLocks ==
  ASSUME NEW h \in Conns
  PROVE  /\ \A l \in {<<"handle">>, <<"connections">>, World(h), <<"input", h>>} :
              l \in Locks!Mutexes /\ MayLock(h, l, {})
         /\ \A l \in {Scene, Object, <<"player">>} :
              l \in Lockable /\ MayLock(h, l, {World(h)})
         /\ MayDrain(h, {World(h)} \cup {Scene})
         /\ {World(h)} \in SUBSET Holdable /\ h # "tick" /\ h # "renderer"
<1>1. \A l \in {<<"handle">>, <<"connections">>, World(h), <<"input", h>>} :
        l \in Locks!Mutexes /\ l \in Lockable
  BY Names DEF Lockable
<1>2. \A l \in {<<"handle">>, <<"connections">>, World(h), <<"input", h>>} :
        \A g \in Conns : l = World(g) => g = h
  BY Names
<1>3. \A l \in {Scene, Object, <<"player">>} :
        l \in Lockable /\ l # World(h) /\ \A g \in Conns : l # World(g)
  BY Names, TickLocks
<1>4. MayDrain(h, {World(h)} \cup {Scene})
  <2>1. Inside \notin {World(h)} \cup {Scene} /\ h # "renderer"
    BY <1>1, Names, People, TickLocks
  <2> QED
    BY <2>1 DEF MayDrain
<1>5. h # "tick" /\ h # "renderer"
  BY People
<1>6. {World(h)} \in SUBSET Holdable
  BY <1>1, TickLocks
<1> QED
  BY <1>1, <1>2, <1>3, <1>4, <1>5, <1>6 DEF MayLock

LEMMA WriteUnder ==
  ASSUME NEW t, NEW K \in SUBSET Holdable, NEW l \in Locks!Mutexes, MayLock(t, l, K),
         NEW d \in Data, MayTouch(t, "write", d, K \cup {l})
  PROVE  Part(t, K, Locks!In(l, Locks!Writing(d)), K)
<1>1. K \cup {l} \in SUBSET Holdable
  BY TickLocks
<1>2. Part(t, K \cup {l}, Locks!Writing(d), K \cup {l})
  BY <1>1, TouchPart
<1> QED
  BY <1>2, InPart

LEMMA SpawnPart ==
  ASSUME NEW h \in Conns
  PROVE  Part(h, {World(h)}, Locks!Spawn, {World(h)})
<1> DEFINE K == {World(h)}
           N == K \cup {Scene, Drained}
           write == Locks!PxSceneWriteLock(Locks!Writing(Scene))
           tick == Locks!Reading(<<"tick">>)
           objects == Locks!In(Object, Locks!Writing(<<"objects">>))
           players == Locks!In(<<"player">>, Locks!Writing(<<"players">>))
<1>1. /\ K \in SUBSET Holdable /\ N \in SUBSET Holdable
      /\ Drained \notin K /\ h # "renderer"
  BY CallbackLocks, Names, TickLocks
<1>2. Part(h, K, write, K)
  <2>1. MayTouch(h, "write", Scene, N)
    BY DEF MayTouch
  <2>2. Part(h, N, Locks!Writing(Scene), N)
    BY <1>1, <2>1, TouchPart, TickLocks
  <2>3. MayLock(h, Scene, K) /\ MayDrain(h, K \cup {Scene})
    BY CallbackLocks
  <2> HIDE DEF K
  <2> QED
    BY <1>1, <2>2, <2>3, WritePart
<1>3. Part(h, K, tick, K)
  <2>1. MayTouch(h, "read", <<"tick">>, K)
    BY <1>1 DEF MayTouch
  <2> QED
    BY <1>1, <2>1, TouchPart, TickLocks
<1>4. Part(h, K, objects, K)
  <2>1. MayTouch(h, "write", <<"objects">>, K \cup {Object})
    BY <1>1 DEF MayTouch
  <2> QED
    BY <1>1, <2>1, CallbackLocks, WriteUnder, TickLocks
<1>5. Part(h, K, players, K)
  <2>1. MayTouch(h, "write", <<"players">>, K \cup {<<"player">>})
    BY DEF MayTouch
  <2> QED
    BY <1>1, <2>1, CallbackLocks, WriteUnder, TickLocks
<1> HIDE DEF K, write, tick, objects, players
<1>6. Part(h, K, ((write \o tick) \o objects) \o players, K)
  BY <1>2, <1>3, <1>4, <1>5, TwoParts
<1> QED
  BY <1>6, Zenon DEF Locks!Spawn, K, write, tick, objects, players, Scene, Object

LEMMA DestroyPart ==
  ASSUME NEW h \in Conns
  PROVE  Part(h, {World(h)}, Locks!Destroy, {World(h)})
<1>1. MayTouch(h, "write", <<"players">>, {World(h)} \cup {<<"player">>})
  BY DEF MayTouch
<1>2. Part(h, {World(h)}, Locks!In(<<"player">>, Locks!Writing(<<"players">>)), {World(h)})
  BY <1>1, CallbackLocks, WriteUnder, TickLocks
<1> QED
  BY <1>2, Zenon DEF Locks!Destroy

LEMMA CallbackRuns ==
  ASSUME NEW h \in Conns
  PROVE  Runs(h, Locks!OnConnect(h), {}) /\ Runs(h, Locks!OnData(h), {})
         /\ Runs(h, Locks!OnDisconnect(h), {}) /\ Runs(h, Locks!Disconnect(h), {})
<1> DEFINE handle == Locks!In(<<"handle">>, Locks!Writing(<<"allHandles">>))
           list == Locks!In(<<"connections">>, Locks!Writing(<<"connections">>))
           spawn == Locks!In(World(h), Locks!Spawn)
           destroy == Locks!In(World(h), Locks!Destroy)
           data == Locks!In(<<"input", h>>, Locks!Writing(<<"input", h>>))
<1>1. {} \in SUBSET Holdable
  OBVIOUS
<1>2. Part(h, {}, handle, {})
  <2>1. MayTouch(h, "write", <<"allHandles">>, {} \cup {<<"handle">>})
    BY DEF MayTouch
  <2> QED
    BY <1>1, <2>1, CallbackLocks, WriteUnder, TickLocks
<1>3. Part(h, {}, list, {})
  <2>1. <<"connections">> \in Locks!Mutexes
    BY CallbackLocks
  <2>2. MayTouch(h, "write", <<"connections">>, {} \cup {<<"connections">>})
    BY <2>1 DEF MayTouch
  <2> QED
    BY <1>1, <2>2, CallbackLocks, WriteUnder, TickLocks
<1>4. Part(h, {}, data, {})
  <2>1. <<"input", h>> \in Locks!Mutexes
    BY CallbackLocks
  <2>2. MayTouch(h, "write", <<"input", h>>, {} \cup {<<"input", h>>})
    BY <2>1 DEF MayTouch
  <2> QED
    BY <1>1, <2>2, CallbackLocks, WriteUnder, TickLocks
<1>5. Part(h, {}, spawn, {}) /\ Part(h, {}, destroy, {})
  <2>1. {} \cup {World(h)} = {World(h)}
    OBVIOUS
  <2>2. Part(h, {} \cup {World(h)}, Locks!Spawn, {} \cup {World(h)})
        /\ Part(h, {} \cup {World(h)}, Locks!Destroy, {} \cup {World(h)})
    BY <2>1, SpawnPart, DestroyPart
  <2>3. World(h) \in Locks!Mutexes /\ MayLock(h, World(h), {})
    BY CallbackLocks
  <2> QED
    BY <1>1, <2>2, <2>3, InPart
<1>8. Part(h, {}, Locks!Disconnect(h), {})
  <2> DEFINE read == Locks!Reading(StreamOf(h))
             write == Locks!Writing(StreamOf(h))
  <2>1. MayTouch(h, "read", StreamOf(h), {}) /\ MayTouch(h, "write", StreamOf(h), {})
    BY DEF MayTouch
  <2>2. StreamOf(h) \in Data
    BY DEF Data
  <2>3. Part(h, {}, read, {}) /\ Part(h, {}, write, {})
    BY <1>1, <2>1, <2>2, TouchPart
  <2> HIDE DEF read, write
  <2>4. Part(h, {}, read \o write, {})
    BY <2>3, TwoParts
  <2> QED
    BY <2>4, Zenon DEF Locks!Disconnect, read, write, StreamOf
<1> HIDE DEF handle, list, spawn, destroy, data
<1>6. Part(h, {}, (handle \o spawn) \o list, {}) /\ Part(h, {}, (list \o handle) \o destroy, {})
  BY <1>2, <1>3, <1>5, TwoParts
<1>7. /\ Locks!OnConnect(h) = (handle \o spawn) \o list
      /\ Locks!OnDisconnect(h) = (list \o handle) \o destroy
      /\ Locks!OnData(h) = data
  BY Zenon DEF Locks!OnConnect, Locks!OnDisconnect, Locks!OnData, handle, list, spawn, destroy, data, World
<1> QED
  BY <1>4, <1>6, <1>7, <1>8, PartRuns

LEMMA RenderRuns == Runs("renderer", Locks!Render, {})
<1>1. MayEnter("renderer", {})
  BY People DEF MayEnter
<1>2. MayTouch("renderer", "read", Scene, {} \cup {Inside})
  BY DEF MayTouch
<1>3. {} \cup {Inside} \in SUBSET Holdable /\ {} \in SUBSET Holdable
  BY TickLocks
<1>4. Part("renderer", {} \cup {Inside}, Locks!Reading(Scene), {} \cup {Inside})
  BY <1>2, <1>3, TouchPart, TickLocks
<1>5. Part("renderer", {}, Locks!PxSceneReadLock(Locks!Reading(Scene)), {})
  BY <1>1, <1>3, <1>4, ReadPart
<1>6. Runs("renderer", Locks!PxSceneReadLock(Locks!Reading(Scene)), {})
  BY <1>5, PartRuns
<1> QED
  BY <1>6, Zenon DEF Locks!Render, Scene

-----------------------------------------------------------------------------
(* The invariant: what a thread holds is what its script goes on from.     *)

Holds(t, K) ==
  /\ \A l \in Lockable : owner[l] = t <=> l \in K
  /\ t \in readers <=> Inside \in K
  /\ Drained \in K => Scene \in K /\ readers = {}

LocksTyped ==
  /\ owner \in [Lockable -> Locks!Threads \cup {Free}]
  /\ readers \in SUBSET Locks!Threads /\ joined \in SUBSET Conns
  /\ code \in [Locks!Threads -> Seq(Steps)]

LInv ==
  LocksTyped /\ \A t \in Locks!Threads : \E K : Runs(t, code[t], K) /\ Holds(t, K)

LEMMA LocksInit == Locks!Init => LInv
<1> SUFFICES ASSUME Locks!Init PROVE LInv
  OBVIOUS
<1>1. /\ code = [t \in Locks!Threads |-> <<>>] /\ owner = [l \in Lockable |-> Free]
      /\ readers = {} /\ joined = {}
  BY Names, Zenon DEF Locks!Init, Lockable
<1>2. LocksTyped
  <2>1. <<>> \in Seq(Steps)
    OBVIOUS
  <2> QED
    BY <1>1, <2>1 DEF LocksTyped
<1>3. ASSUME NEW t \in Locks!Threads PROVE Runs(t, code[t], {}) /\ Holds(t, {})
  <2>1. Runs(t, <<>>, {}) /\ code[t] = <<>>
    BY <1>1, RunsEnd
  <2>2. t # Free
    BY People
  <2> QED
    BY <1>1, <2>1, <2>2 DEF Holds
<1> QED
  BY <1>2, <1>3 DEF LInv

(* A thread that another's step leaves alone.                              *)
LEMMA OthersHold ==
  ASSUME NEW u \in Locks!Threads, LInv, code'[u] = code[u],
         \A l \in Lockable : owner'[l] = u <=> owner[l] = u,
         u \in readers' <=> u \in readers,
         owner[Scene] = u /\ readers = {} => readers' = {}
  PROVE  \E K : Runs(u, code'[u], K) /\ Holds(u, K)'
<1>1. PICK K : Runs(u, code[u], K) /\ Holds(u, K)
  BY DEF LInv
<1>2. Holds(u, K)'
  <2>1. Drained \in K => Scene \in K /\ readers' = {}
    BY <1>1, TickLocks DEF Holds
  <2> QED
    BY <1>1, <2>1 DEF Holds
<1> QED
  BY <1>1, <1>2

(* Where a thread is.                                                      *)
LEMMA AtHead ==
  ASSUME LInv, NEW t \in Locks!Threads, code[t] # <<>>
  PROVE  \E K \in SUBSET Holdable, L \in SUBSET Holdable :
           /\ Holds(t, K) /\ Runs(t, code[t], K)
           /\ Link(t, Head(code[t]), K, L) /\ Runs(t, Tail(code[t]), L)
           /\ Head(code[t]) \in Steps
<1>1. PICK K : Runs(t, code[t], K) /\ Holds(t, K)
  BY DEF LInv
<1> QED
  BY <1>1, RunsTail

(* A thread goes on by one step.                                           *)
LEMMA GoInv ==
  ASSUME LInv, NEW t \in Locks!Threads, code[t] # <<>>, Locks!Go(t),
         LocksTyped', NEW L, Runs(t, Tail(code[t]), L), Holds(t, L)',
         \A u \in Locks!Threads \ {t} :
           /\ \A l \in Lockable : owner'[l] = u <=> owner[l] = u
           /\ u \in readers' <=> u \in readers
           /\ owner[Scene] = u /\ readers = {} => readers' = {}
  PROVE  LInv'
<1>1. code' = [code EXCEPT ![t] = Tail(code[t])] /\ code \in [Locks!Threads -> Seq(Steps)]
  BY DEF Locks!Go, LInv, LocksTyped
<1>2. code'[t] = Tail(code[t]) /\ \A u \in Locks!Threads \ {t} : code'[u] = code[u]
  BY <1>1
<1>3. ASSUME NEW u \in Locks!Threads PROVE \E K : Runs(u, code'[u], K) /\ Holds(u, K)'
  <2>1. CASE u = t
    BY <1>2, <2>1
  <2>2. CASE u # t
    BY <1>2, <2>2, OthersHold
  <2> QED
    BY <2>1, <2>2
<1> QED
  BY <1>3 DEF LInv

LEMMA WorkTyped ==
  ASSUME LInv, NEW t \in Locks!Threads, code[t] # <<>>, Locks!Go(t),
         owner' \in [Lockable -> Locks!Threads \cup {Free}],
         readers' \in SUBSET Locks!Threads, joined' = joined
  PROVE  LocksTyped'
<1>1. code[t] \in Seq(Steps)
  BY DEF LInv, LocksTyped
<1>2. Tail(code[t]) \in Seq(Steps)
  BY <1>1
<1> QED
  BY <1>2 DEF LInv, LocksTyped, Locks!Go

LEMMA LockInv ==
  ASSUME LInv, NEW t \in Locks!Threads, Locks!Lock(t)
  PROVE  LInv'
<1> DEFINE x == Head(code[t])
<1>1. /\ code[t] # <<>> /\ x.op = "lock" /\ owner[x.what] = Free
      /\ owner' = [owner EXCEPT ![x.what] = t] /\ Locks!Go(t)
      /\ readers' = readers /\ joined' = joined
  BY DEF Locks!Lock, Locks!Doing, Locks!What
<1>2. PICK K \in SUBSET Holdable, L \in SUBSET Holdable :
        Holds(t, K) /\ Link(t, x, K, L) /\ Runs(t, Tail(code[t]), L)
  BY <1>1, AtHead
<1> HIDE DEF x
<1>3. MayLock(t, x.what, K) /\ L = K \cup {x.what}
  BY <1>1, <1>2 DEF Link
<1>4. PICK l \in Lockable : l = x.what
  BY <1>3 DEF MayLock
<1>5. owner \in [Lockable -> Locks!Threads \cup {Free}]
  BY DEF LInv, LocksTyped
<1>6. owner'[l] = t /\ owner[l] = Free /\ \A m \in Lockable \ {l} : owner'[m] = owner[m]
  BY <1>1, <1>4, <1>5
<1>7. LocksTyped'
  <2>1. owner' \in [Lockable -> Locks!Threads \cup {Free}]
    BY <1>1, <1>4, <1>5
  <2>2. readers \in SUBSET Locks!Threads
    BY DEF LInv, LocksTyped
  <2> QED
    BY <1>1, <2>1, <2>2, WorkTyped
<1>8. Holds(t, L)'
  <2>1. Inside \in L <=> Inside \in K
    BY <1>3, <1>4, Names
  <2>2. Drained \in L => Drained \in K
    BY <1>3, <1>4, Names
  <2> QED
    BY <1>1, <1>2, <1>3, <1>4, <1>6, <2>1, <2>2 DEF Holds
<1>9. ASSUME NEW u \in Locks!Threads \ {t}
      PROVE  \A m \in Lockable : owner'[m] = u <=> owner[m] = u
  BY <1>6, People
<1> QED
  BY <1>1, <1>2, <1>7, <1>8, <1>9, GoInv

LEMMA UnlockInv ==
  ASSUME LInv, NEW t \in Locks!Threads, Locks!Doing(t, "unlock"), Locks!Go(t),
         owner' = [owner EXCEPT ![Locks!What(t)] = Free], readers' = readers, joined' = joined
  PROVE  LInv'
<1> DEFINE x == Head(code[t])
<1>1. /\ code[t] # <<>> /\ x.op = "unlock" /\ owner' = [owner EXCEPT ![x.what] = Free]
  BY DEF Locks!Doing, Locks!What
<1>2. PICK K \in SUBSET Holdable, L \in SUBSET Holdable :
        Holds(t, K) /\ Link(t, x, K, L) /\ Runs(t, Tail(code[t]), L)
  BY <1>1, AtHead
<1> HIDE DEF x
<1>3. x.what \in K \cap Lockable /\ L = K \ (IF x.what = Scene THEN {Scene, Drained} ELSE {x.what})
  BY <1>1, <1>2 DEF Link
<1>4. PICK l \in Lockable : l = x.what /\ l \in K
  BY <1>3
<1>5. owner \in [Lockable -> Locks!Threads \cup {Free}]
  BY DEF LInv, LocksTyped
<1>6. owner'[l] = Free /\ owner[l] = t /\ \A m \in Lockable \ {l} : owner'[m] = owner[m]
  BY <1>1, <1>2, <1>4, <1>5 DEF Holds
<1>7. LocksTyped'
  <2>1. owner' \in [Lockable -> Locks!Threads \cup {Free}]
    BY <1>1, <1>4, <1>5
  <2>2. readers \in SUBSET Locks!Threads
    BY DEF LInv, LocksTyped
  <2> QED
    BY <1>1, <2>1, <2>2, WorkTyped
<1>8. Holds(t, L)'
  <2>1. Inside \in L <=> Inside \in K
    BY <1>3, <1>4, Names, TickLocks
  <2>2. \A m \in Lockable : m \in L <=> m \in K /\ m # l
    BY <1>3, <1>4, Names
  <2>3. Drained \in L => Drained \in K /\ l # Scene
    BY <1>3, <1>4
  <2>4. t # Free
    BY People
  <2>5. \A m \in Lockable : owner'[m] = t <=> m \in L
    BY <1>2, <1>6, <2>2, <2>4 DEF Holds
  <2>6. Drained \in L => Scene \in L /\ readers' = {}
    BY <1>2, <2>2, <2>3, TickLocks DEF Holds
  <2>7. t \in readers' <=> Inside \in L
    BY <1>2, <2>1 DEF Holds
  <2> QED
    BY <2>5, <2>6, <2>7 DEF Holds
<1>9. ASSUME NEW u \in Locks!Threads \ {t}
      PROVE  \A m \in Lockable : owner'[m] = u <=> owner[m] = u
  BY <1>6, People
<1> QED
  BY <1>1, <1>2, <1>7, <1>8, <1>9, GoInv

(* Steps that change no owner.                                             *)
LEMMA ReaderInv ==
  ASSUME LInv, NEW t \in Locks!Threads,
         Locks!Drain(t) \/ Locks!Enter(t) \/ (Locks!Doing(t, "leave") /\ Locks!Go(t)
           /\ readers' = readers \ {t} /\ owner' = owner /\ joined' = joined)
  PROVE  LInv'
<1> DEFINE x == Head(code[t])
<1>1. /\ code[t] # <<>> /\ Locks!Go(t) /\ owner' = owner /\ joined' = joined
      /\ \/ x.op = "drain" /\ readers = {} /\ readers' = readers
         \/ x.op = "enter" /\ owner[Locks!Scene] = Free /\ readers' = readers \cup {t}
         \/ x.op = "leave" /\ readers' = readers \ {t}
  BY DEF Locks!Drain, Locks!Enter, Locks!Doing, Locks!What
<1>2. PICK K \in SUBSET Holdable, L \in SUBSET Holdable :
        Holds(t, K) /\ Link(t, x, K, L) /\ Runs(t, Tail(code[t]), L)
  BY <1>1, AtHead
<1> HIDE DEF x
<1>3. \/ x.op = "drain" /\ MayDrain(t, K) /\ L = K \cup {Drained}
      \/ x.op = "enter" /\ MayEnter(t, K) /\ L = K \cup {Inside}
      \/ x.op = "leave" /\ Inside \in K /\ L = K \ {Inside}
  BY <1>1, <1>2 DEF Link
<1>4. LocksTyped'
  <2>1. owner' \in [Lockable -> Locks!Threads \cup {Free}] /\ readers' \in SUBSET Locks!Threads
    BY <1>1 DEF LInv, LocksTyped
  <2> QED
    BY <1>1, <2>1, WorkTyped
<1>5. Inside # Drained /\ \A l \in Lockable : l # Inside /\ l # Drained
  BY Names
<1>6. Holds(t, L)'
  <2>1. \A l \in Lockable : owner'[l] = t <=> l \in L
    <3>1. \A l \in Lockable : l \in L <=> l \in K
      BY <1>3, <1>5
    <3> QED
      BY <1>1, <1>2, <3>1 DEF Holds
  <2>2. t \in readers' <=> Inside \in L
    <3>1. CASE x.op = "drain"
      BY <1>1, <1>2, <1>3, <1>5, <3>1 DEF Holds
    <3>2. CASE x.op = "enter"
      BY <1>1, <1>3, <3>2
    <3>3. CASE x.op = "leave"
      BY <1>1, <1>3, <3>3
    <3> QED
      BY <1>1, <3>1, <3>2, <3>3
  <2>3. Drained \in L => Scene \in L /\ readers' = {}
    <3>1. CASE x.op = "drain"
      BY <1>1, <1>2, <1>3, <3>1 DEF MayDrain
    <3>2. CASE x.op = "enter"
      BY <1>2, <1>3, <1>5, <3>2 DEF Holds, MayEnter
    <3>3. CASE x.op = "leave"
      BY <1>1, <1>2, <1>3, <1>5, <3>3, TickLocks DEF Holds
    <3> QED
      BY <1>1, <3>1, <3>2, <3>3
  <2> QED
    BY <2>1, <2>2, <2>3 DEF Holds
<1>7. ASSUME NEW u \in Locks!Threads \ {t}
      PROVE  /\ \A l \in Lockable : owner'[l] = u <=> owner[l] = u
             /\ u \in readers' <=> u \in readers
             /\ owner[Scene] = u /\ readers = {} => readers' = {}
  <2>1. owner[Locks!Scene] = Free => owner[Scene] # u
    BY Names, People
  <2> QED
    BY <1>1, <2>1
<1> QED
  BY <1>1, <1>2, <1>4, <1>6, <1>7, GoInv

LEMMA TouchInv ==
  ASSUME LInv, NEW t \in Locks!Threads, Locks!Doing(t, "read") \/ Locks!Doing(t, "write"),
         Locks!Go(t), owner' = owner, readers' = readers, joined' = joined
  PROVE  LInv'
<1>1. code[t] # <<>> /\ Head(code[t]).op \in {"read", "write"}
  BY DEF Locks!Doing
<1>2. PICK K \in SUBSET Holdable, L \in SUBSET Holdable :
        Holds(t, K) /\ Link(t, Head(code[t]), K, L) /\ Runs(t, Tail(code[t]), L)
  BY <1>1, AtHead
<1>3. L = K
  BY <1>1, <1>2 DEF Link
<1>4. Holds(t, L)'
  BY <1>2, <1>3 DEF Holds
<1>5. LocksTyped'
  BY <1>1, WorkTyped DEF LInv, LocksTyped
<1> QED
  BY <1>1, <1>2, <1>4, <1>5, GoInv

(* A loop's next player.                                                   *)
LEMMA LoopInv ==
  ASSUME LInv, NEW t \in Locks!Threads, Locks!Loop(t)
  PROVE  LInv'
<1> DEFINE x == Head(code[t])
<1>1. /\ code[t] # <<>> /\ x.op = "each"
      /\ owner' = owner /\ readers' = readers /\ joined' = joined
  BY DEF Locks!Loop, Locks!Doing
<1>2. PICK K \in SUBSET Holdable, L \in SUBSET Holdable :
        /\ Holds(t, K) /\ Link(t, x, K, L) /\ Runs(t, Tail(code[t]), L)
  BY <1>1, AtHead
<1> HIDE DEF x
<1>3. t = "tick" /\ x.what \in Loops /\ K = {<<"player">>} /\ L = K
  BY <1>1, <1>2 DEF Link
<1>4. PICK kind \in {"update", "net"}, left \in SUBSET Conns : x.what = <<kind, left>>
  BY <1>3 DEF Loops
<1>5. Holds(t, L)'
  BY <1>1, <1>2, <1>3 DEF Holds
<1>6. CASE Locks!Go(t)
  <2>1. LocksTyped'
    BY <1>1, <1>6, WorkTyped DEF LInv, LocksTyped
  <2> QED
    BY <1>1, <1>2, <1>5, <1>6, <2>1, GoInv
<1>7. CASE \E h \in left :
             code' = [code EXCEPT ![t] = Locks!Body(kind, h) \o Locks!Each(kind, left \ {h})
                                         \o Tail(code[t])]
  <2>1. PICK h \in left :
          code' = [code EXCEPT ![t] = (Locks!Body(kind, h) \o Locks!Each(kind, left \ {h}))
                                      \o Tail(code[t])]
    BY <1>7
  <2> DEFINE script == (Locks!Body(kind, h) \o Locks!Each(kind, left \ {h})) \o Tail(code[t])
  <2>2. Part(t, K, Locks!Body(kind, h), K)
    BY <1>3, UpdatePlayerPart, UpdateStatePart DEF Locks!Body
  <2>3. Part(t, K, Locks!Each(kind, left \ {h}), K)
    BY <1>3, EachPart
  <2>4. Part(t, K, Locks!Body(kind, h) \o Locks!Each(kind, left \ {h}), K)
    BY <2>2, <2>3, TwoParts
  <2>5. Tail(code[t]) \in Seq(Steps)
    BY <1>2 DEF Runs
  <2>6. Runs(t, script, K)
    BY <1>2, <1>3, <2>4, <2>5 DEF Part
  <2>7. code \in [Locks!Threads -> Seq(Steps)] /\ script \in Seq(Steps)
    BY <2>6 DEF LInv, LocksTyped, Runs
  <2> HIDE DEF script
  <2>8. code' = [code EXCEPT ![t] = script]
    BY <2>1 DEF script
  <2>9. LocksTyped'
    BY <1>1, <2>7, <2>8 DEF LInv, LocksTyped
  <2>10. ASSUME NEW u \in Locks!Threads PROVE \E M : Runs(u, code'[u], M) /\ Holds(u, M)'
    <3>1. CASE u = t
      BY <1>3, <1>5, <2>6, <2>7, <2>8, <3>1
    <3>2. CASE u # t
      BY <1>1, <2>7, <2>8, <3>2, OthersHold
    <3> QED
      BY <3>1, <3>2
  <2> QED
    BY <2>9, <2>10 DEF LInv
<1> QED
  <2>1. Locks!What(t)[1] = kind /\ Locks!What(t)[2] = left
    BY <1>4 DEF Locks!What, x
  <2> QED
    BY <1>6, <1>7, <2>1 DEF Locks!Loop

(* A thread takes up a script.                                             *)
LEMMA RunInv ==
  ASSUME LInv, NEW t \in Locks!Threads, NEW script, Locks!Run(t, script), Runs(t, script, {}),
         owner' = owner, readers' = readers, joined' \in SUBSET Conns
  PROVE  LInv'
<1>1. code[t] = <<>> /\ code' = [code EXCEPT ![t] = script]
  BY DEF Locks!Run
<1>2. code \in [Locks!Threads -> Seq(Steps)] /\ script \in Seq(Steps)
  BY DEF LInv, LocksTyped, Runs
<1>3. LocksTyped'
  BY <1>1, <1>2 DEF LInv, LocksTyped
<1>4. Holds(t, {})
  <2>1. PICK K : Runs(t, <<>>, K) /\ Holds(t, K)
    BY <1>1 DEF LInv
  <2> QED
    BY <2>1, RunsEnd
<1>5. ASSUME NEW u \in Locks!Threads PROVE \E K : Runs(u, code'[u], K) /\ Holds(u, K)'
  <2>1. CASE u = t
    <3>1. Holds(t, {})'
      BY <1>4 DEF Holds
    <3> QED
      BY <1>1, <1>2, <2>1, <3>1
  <2>2. CASE u # t
    BY <1>1, <1>2, <2>2, OthersHold
  <2> QED
    BY <2>1, <2>2
<1> QED
  BY <1>3, <1>5 DEF LInv

LEMMA LocksStep == LInv /\ [Locks!Next]_locksVars => LInv'
<1> SUFFICES ASSUME LInv, [Locks!Next]_locksVars PROVE LInv'
  OBVIOUS
<1>1. CASE UNCHANGED locksVars
  BY <1>1 DEF locksVars, LInv, LocksTyped, Holds
<1>2. CASE Locks!StartTick
  <2>1. PICK net \in BOOLEAN : Locks!Run("tick", Locks!Tick(net))
    BY <1>2 DEF Locks!StartTick
  <2>2. owner' = owner /\ readers' = readers /\ joined' \in SUBSET Conns
    BY <1>2 DEF Locks!StartTick, LInv, LocksTyped
  <2> QED
    BY <2>1, <2>2, RunInv, TickRuns, People
<1>3. CASE Locks!StartRender
  <2>1. /\ Locks!Run("renderer", Locks!Render)
        /\ owner' = owner /\ readers' = readers /\ joined' \in SUBSET Conns
    BY <1>3 DEF Locks!StartRender, LInv, LocksTyped
  <2> QED
    BY <2>1, RunInv, RenderRuns, People
<1>4. ASSUME NEW h \in Conns, Locks!Callback(h) PROVE LInv'
  <2>1. /\ owner' = owner /\ readers' = readers /\ joined' \in SUBSET Conns
    BY <1>4 DEF Locks!Callback, LInv, LocksTyped
  <2>2. \/ Locks!Run(h, Locks!OnConnect(h)) \/ Locks!Run(h, Locks!OnData(h))
        \/ Locks!Run(h, Locks!OnDisconnect(h)) \/ Locks!Run(h, Locks!Disconnect(h))
    BY <1>4 DEF Locks!Callback
  <2>3. h \in Locks!Threads
    BY People
  <2> QED
    BY <2>1, <2>2, <2>3, RunInv, CallbackRuns
<1>5. ASSUME NEW t \in Locks!Threads, Locks!Proceed(t) PROVE LInv'
  BY <1>5, UnlockInv, ReaderInv, TouchInv DEF Locks!Proceed
<1>6. ASSUME NEW t \in Locks!Threads, Locks!Work(t) PROVE LInv'
  BY <1>5, <1>6, LockInv, ReaderInv, LoopInv DEF Locks!Work
<1> QED
  BY <1>1, <1>2, <1>3, <1>4, <1>6 DEF Locks!Next

(* What a thread holds is what the rest of its script goes on from and     *)
(* gives back at its end (world.cpp:155-349, game.cpp:24-64).              *)
THEOREM LocksInvariance == PartsSpec => []LInv
<1>1. PartsInit => LInv
  BY LocksInit DEF PartsInit
<1>2. LInv /\ [PartsNext]_<<part, vars, motionVars, keysVars, locksVars>> => LInv'
  BY LocksStep DEF PartsNext
<1> QED
  BY <1>1, <1>2, PTL DEF PartsSpec

-----------------------------------------------------------------------------
(* Everything held is given back: what the script says. *)

LEMMA Earliest ==
  ASSUME NEW T, T \subseteq Nat, T # {}
  PROVE  \E m \in T : \A n \in T : m <= n
<1>1. PICK m \in T : \A n \in T : ~ (<<n, m>> \in OpToRel(<, Nat))
  BY NatLessThanWellFounded, WFMin
<1>2. \A n \in T : ~ (n < m)
  BY <1>1 DEF OpToRel
<1> QED
  BY <1>2

LockStep(l) == [op |-> "lock", what |-> l]
UnlockStep(l) == [op |-> "unlock", what |-> l]

LEMMA LinkOf ==
  ASSUME NEW t, NEW x \in Steps, NEW K \in SUBSET Holdable, NEW L \in SUBSET Holdable,
         Link(t, x, K, L), NEW l \in Lockable
  PROVE  /\ l \in K /\ l \notin L => x = UnlockStep(l)
         /\ l \notin K /\ l \in L => x = LockStep(l)
         /\ x = UnlockStep(l) => l \in K
         /\ x = LockStep(l) => l \notin K
<1>1. l # Inside /\ l # Drained
  BY Names
<1>2. x = [op |-> x.op, what |-> x.what]
  BY DEF Steps
<1>3. ASSUME l \in K, l \notin L PROVE x = UnlockStep(l)
  <2>1. x.op = "unlock" /\ x.what = l
    BY <1>1, <1>3 DEF Link
  <2> QED
    BY <1>2, <2>1 DEF UnlockStep
<1>4. ASSUME l \notin K, l \in L PROVE x = LockStep(l)
  <2>1. x.op = "lock" /\ x.what = l
    BY <1>1, <1>4 DEF Link
  <2> QED
    BY <1>2, <2>1 DEF LockStep
<1>5. ASSUME x = UnlockStep(l) PROVE l \in K
  <2>1. x.op = "unlock" /\ x.what = l
    BY <1>5 DEF UnlockStep
  <2> QED
    BY <2>1 DEF Link
<1>6. ASSUME x = LockStep(l) PROVE l \notin K
  <2>1. x.op = "lock" /\ x.what = l
    BY <1>6 DEF LockStep
  <2> QED
    BY <2>1 DEF Link, MayLock
<1> QED
  BY <1>3, <1>4, <1>5, <1>6

LEMMA GivenBack ==
  ASSUME NEW t, NEW s, NEW K, Runs(t, s, K), NEW l \in Lockable
  PROVE  l \in K <=> \E i \in DOMAIN s :
                      s[i] = UnlockStep(l) /\ \A j \in 1..i - 1 : s[j] # LockStep(l)
<1>1. s \in Seq(Steps)
  BY DEF Runs
<1>2. PICK n \in Nat : n = Len(s)
  BY <1>1
<1>3. PICK held : Along(t, s, held) /\ held[1] = K
  BY DEF Runs
<1>4. /\ held \in [1..n + 1 -> SUBSET Holdable] /\ held[n + 1] = {}
      /\ \A i \in 1..n : Link(t, s[i], held[i], held[i + 1])
  BY <1>2, <1>3 DEF Along
<1>5. DOMAIN s = 1..n /\ \A i \in 1..n : s[i] \in Steps
  BY <1>1, <1>2
<1>6. ASSUME NEW i \in 1..n
      PROVE  /\ l \in held[i] /\ l \notin held[i + 1] => s[i] = UnlockStep(l)
             /\ l \notin held[i] /\ l \in held[i + 1] => s[i] = LockStep(l)
             /\ s[i] = UnlockStep(l) => l \in held[i]
             /\ s[i] = LockStep(l) => l \notin held[i]
  <2>1. held[i] \in SUBSET Holdable /\ held[i + 1] \in SUBSET Holdable
    BY <1>4
  <2> QED
    BY <1>4, <1>5, <2>1, LinkOf
<1>7. ASSUME l \in K
      PROVE  \E i \in 1..n : s[i] = UnlockStep(l) /\ \A j \in 1..i - 1 : s[j] # LockStep(l)
  <2> DEFINE T == {i \in 1..n : l \notin held[i + 1]}
  <2>1. n \in T
    <3>1. n # 0
      BY <1>3, <1>4, <1>7
    <3> QED
      BY <1>4, <3>1
  <2>2. PICK m \in T : \A i \in T : m <= i
    <3>1. T \subseteq Nat
      OBVIOUS
    <3> HIDE DEF T
    <3> QED
      BY <2>1, <3>1, Earliest
  <2>3. ASSUME NEW j \in 1..m PROVE l \in held[j]
    <3>1. CASE j = 1
      BY <1>3, <1>7, <3>1
    <3>2. CASE j # 1
      <4>1. j - 1 \in 1..n /\ ~ (m <= j - 1) /\ (j - 1) + 1 = j
        BY <3>2
      <4>2. j - 1 \notin T
        BY <2>2, <4>1
      <4> QED
        BY <4>1, <4>2
    <3> QED
      BY <3>1, <3>2
  <2>4. s[m] = UnlockStep(l)
    BY <1>6, <2>3
  <2>5. \A j \in 1..m - 1 : s[j] # LockStep(l)
    BY <1>6, <2>3
  <2> QED
    BY <2>4, <2>5
<1>8. ASSUME NEW i \in 1..n, s[i] = UnlockStep(l), \A j \in 1..i - 1 : s[j] # LockStep(l)
      PROVE  l \in K
  <2> SUFFICES ASSUME l \notin K PROVE FALSE
    OBVIOUS
  <2> DEFINE T == {j \in 1..n + 1 : l \in held[j]}
  <2>1. i \in T
    BY <1>6, <1>8
  <2>2. PICK m \in T : \A j \in T : m <= j
    <3>1. T \subseteq Nat
      OBVIOUS
    <3> HIDE DEF T
    <3> QED
      BY <2>1, <3>1, Earliest
  <2>3. m # 1 /\ m <= i
    BY <1>3, <2>1, <2>2
  <2>4. m - 1 \in 1..n /\ m - 1 \in 1..i - 1 /\ (m - 1) + 1 = m /\ ~ (m <= m - 1)
    BY <2>3
  <2>5. l \notin held[m - 1]
    <3>1. m - 1 \notin T
      BY <2>2, <2>4
    <3> QED
      BY <2>4, <3>1
  <2>6. s[m - 1] = LockStep(l)
    BY <1>6, <2>4, <2>5
  <2> QED
    BY <1>8, <2>4, <2>6
<1> QED
  BY <1>3, <1>5, <1>7, <1>8

LEMMA LocksTypes == LInv => Locks!TypeOK
<1> SUFFICES ASSUME LInv PROVE Locks!TypeOK
  OBVIOUS
<1>1. Lockable = Locks!Mutexes \cup {Locks!Scene}
  BY Names DEF Lockable
<1>2. ASSUME NEW l \in Lockable, NEW t \in Locks!Threads
      PROVE  owner[l] = t <=> Locks!GivesBack(t, l)
  <2>1. PICK K : Runs(t, code[t], K) /\ Holds(t, K)
    BY DEF LInv
  <2>2. owner[l] = t <=> l \in K
    BY <2>1 DEF Holds
  <2>3. l \in K <=> \E i \in DOMAIN code[t] :
                      code[t][i] = UnlockStep(l) /\ \A j \in 1..i - 1 : code[t][j] # LockStep(l)
    BY <2>1, GivenBack
  <2>4. Locks!GivesBack(t, l) <=>
          \E i \in DOMAIN code[t] :
            code[t][i] = UnlockStep(l) /\ \A j \in 1..i - 1 : code[t][j] # LockStep(l)
    BY DEF Locks!GivesBack, UnlockStep, LockStep
  <2> QED
    BY <2>2, <2>3, <2>4
<1> QED
  BY <1>1, <1>2 DEF LInv, LocksTyped, Locks!TypeOK

-----------------------------------------------------------------------------
(* Nobody waits for itself. *)

LEMMA Waits ==
  ASSUME LInv, NEW t \in Locks!Threads, NEW u \in Locks!WaitsFor(t)
  PROVE  \E K \in SUBSET Holdable :
           /\ Holds(t, K)
           /\ \/ \E l \in Lockable : MayLock(t, l, K) /\ owner[l] = u
              \/ MayDrain(t, K) /\ u \in readers
              \/ MayEnter(t, K) /\ owner[Scene] = u
<1>1. \/ (Locks!Doing(t, "lock") \/ Locks!Doing(t, "enter")) /\ u = owner[Locks!What(t)]
      \/ Locks!Doing(t, "drain") /\ u \in readers
  BY DEF Locks!WaitsFor
<1>2. code[t] # <<>>
  BY <1>1 DEF Locks!Doing
<1>3. PICK K \in SUBSET Holdable, L \in SUBSET Holdable :
        Holds(t, K) /\ Link(t, Head(code[t]), K, L)
  BY <1>2, AtHead
<1>4. CASE Locks!Doing(t, "lock") /\ u = owner[Locks!What(t)]
  <2>1. MayLock(t, Locks!What(t), K)
    BY <1>3, <1>4 DEF Locks!Doing, Locks!What, Link
  <2> QED
    BY <1>3, <1>4, <2>1 DEF MayLock
<1>5. CASE Locks!Doing(t, "enter") /\ u = owner[Locks!What(t)]
  <2>1. MayEnter(t, K) /\ Locks!What(t) = Scene
    BY <1>3, <1>5 DEF Locks!Doing, Locks!What, Link
  <2> QED
    BY <1>3, <1>5, <2>1
<1>6. CASE Locks!Doing(t, "drain") /\ u \in readers
  <2>1. MayDrain(t, K)
    BY <1>3, <1>6 DEF Locks!Doing, Locks!What, Link
  <2> QED
    BY <1>3, <1>6, <2>1
<1> QED
  BY <1>1, <1>4, <1>5, <1>6

LEMMA NoCycle == LInv => Locks!NobodyStuck
<1> SUFFICES ASSUME LInv, NEW S \in SUBSET Locks!Threads, S # {},
                    \A t \in S : Locks!WaitsFor(t) \cap S # {}
             PROVE  FALSE
  BY Zenon DEF Locks!NobodyStuck
<1> DEFINE Waiting(t, u, K) ==
             /\ K \in SUBSET Holdable /\ Holds(t, K)
             /\ \/ \E l \in Lockable : MayLock(t, l, K) /\ owner[l] = u
                \/ MayDrain(t, K) /\ u \in readers
                \/ MayEnter(t, K) /\ owner[Scene] = u
<1>1. ASSUME NEW t \in S PROVE \E u \in S : \E K : Waiting(t, u, K)
  <2>1. PICK u \in S : u \in Locks!WaitsFor(t)
    OBVIOUS
  <2> QED
    BY <2>1, Waits
<1>2. Scene \in Lockable /\ Object \in Lockable
  BY TickLocks
(* Only the tick waits while it is inside, and then for object_mutex.      *)
<1>3. ASSUME NEW t \in S, t \in readers
      PROVE  t = "tick" /\ \E u \in S : owner[Object] = u /\ u # t
  <2>1. PICK u \in S, K \in SUBSET Holdable : Waiting(t, u, K)
    BY <1>1
  <2>2. Inside \in K
    BY <1>3, <2>1 DEF Holds
  <2>3. ~ MayDrain(t, K) /\ ~ MayEnter(t, K)
    BY <2>2 DEF MayDrain, MayEnter
  <2>4. PICK l \in Lockable : MayLock(t, l, K) /\ owner[l] = u
    BY <2>1, <2>3
  <2>5. t = "tick" /\ l = Object
    <3>1. t \in Conns => Inside # World(t)
      BY Names, CallbackLocks, TickLocks
    <3> QED
      BY <2>2, <2>4, <3>1 DEF MayLock
  <2>6. u # t
    BY <2>1, <2>4 DEF Holds, MayLock
  <2> QED
    BY <2>4, <2>5, <2>6
(* What who waits owns: a callback its world_mutex, and the scene while    *)
(* it waits for readers; the renderer nothing.                             *)
<1>4. ASSUME NEW t \in S, NEW l \in Lockable, owner[l] = t
      PROVE  \/ t = "tick"
             \/ t \in Conns /\ l = World(t)
             \/ t \in Conns /\ l = Scene /\ \E u \in S : u \in readers
  <2>1. PICK u \in S, K \in SUBSET Holdable : Waiting(t, u, K)
    BY <1>1
  <2>2. l \in K
    BY <1>4, <2>1 DEF Holds
  <2>3. CASE t = "renderer"
    BY <2>1, <2>2, <2>3, People DEF MayLock, MayDrain, MayEnter
  <2>4. CASE t \in Conns
    <3>1. CASE MayDrain(t, K) /\ u \in readers
      BY <2>2, <2>4, <3>1 DEF MayDrain
    <3>2. CASE \E m \in Lockable : MayLock(t, m, K)
      BY <2>2, <2>4, <3>2, People DEF MayLock
    <3> QED
      BY <2>1, <2>4, <3>1, <3>2 DEF MayEnter
  <2> QED
    BY <2>3, <2>4, People
<1>5. \A t \in S : t \notin readers
  <2> SUFFICES ASSUME NEW t \in S, t \in readers PROVE FALSE
    OBVIOUS
  <2>1. t = "tick" /\ \E u \in S : owner[Object] = u /\ u # t
    BY <1>3
  <2>2. PICK u \in S : owner[Object] = u /\ u # "tick"
    BY <2>1
  <2>3. u \in Conns => Object # World(u)
    BY Names
  <2>4. Object # Scene
    BY Names, TickLocks
  <2> QED
    BY <1>2, <1>4, <2>2, <2>3, <2>4
<1>6. ASSUME NEW t \in S, NEW l \in Lockable, owner[l] = t
      PROVE  t = "tick" \/ (t \in Conns /\ l = World(t))
  BY <1>4, <1>5, <1>6
(* So the tick, which takes nobody's world_mutex, does not wait for them.  *)
<1>7. "tick" \notin S
  <2> SUFFICES ASSUME "tick" \in S PROVE FALSE
    OBVIOUS
  <2>1. PICK u \in S, K \in SUBSET Holdable : Waiting("tick", u, K)
    BY <1>1
  <2>2. PICK l \in Lockable : owner[l] = u /\ l \notin K /\ \A h \in Conns : l # World(h)
    <3>1. \A h \in Conns : Scene # World(h)
      BY Names
    <3> QED
      BY <1>2, <1>5, <2>1, <3>1, People DEF MayLock, MayEnter
  <2>3. owner[l] # "tick"
    BY <2>1, <2>2, People DEF Holds
  <2> QED
    BY <1>6, <2>2, <2>3
<1>8. PICK t \in S : TRUE
  OBVIOUS
<1>9. PICK u \in S, K \in SUBSET Holdable : Waiting(t, u, K)
  BY <1>1
<1>10. \A h \in Conns : Scene # World(h)
  BY Names
<1>11. t \in Conns \/ t = "renderer"
  BY <1>7, People
<1>12. PICK l \in Lockable : owner[l] = u /\ l \notin K /\ \A h \in Conns : l = World(h) => h = t
  BY <1>2, <1>5, <1>9, <1>10, <1>11, <1>7 DEF MayLock, MayEnter
<1>13. owner[l] # t
  BY <1>9, <1>12 DEF Holds
<1> QED
  BY <1>6, <1>7, <1>12, <1>13

-----------------------------------------------------------------------------
(* What is touched is guarded. *)

LEMMA Touches ==
  ASSUME LInv, NEW t \in Locks!Threads, NEW o \in {"read", "write"}, Locks!Doing(t, o)
  PROVE  \E K \in SUBSET Holdable : Holds(t, K) /\ MayTouch(t, o, Locks!What(t), K)
<1>1. code[t] # <<>> /\ Head(code[t]).op = o
  BY DEF Locks!Doing
<1>2. PICK K \in SUBSET Holdable, L \in SUBSET Holdable :
        Holds(t, K) /\ Link(t, Head(code[t]), K, L)
  BY <1>1, AtHead
<1>3. MayTouch(t, o, Locks!What(t), K)
  BY <1>1, <1>2 DEF Link, Locks!What
<1> QED
  BY <1>2, <1>3

LEMMA DataNames ==
  /\ {Scene, <<"objects">>, <<"tick">>, <<"players">>, <<"allHandles">>} \cap Locks!Mutexes = {}
  /\ Scene \notin {<<"objects">>, <<"tick">>, <<"players">>, <<"allHandles">>}
  /\ <<"objects">> \notin {<<"tick">>, <<"players">>, <<"allHandles">>}
  /\ <<"tick">> \notin {<<"players">>, <<"allHandles">>} /\ <<"players">> # <<"allHandles">>
  /\ \A h, g : StreamOf(h) = StreamOf(g) => h = g
  /\ \A h : /\ StreamOf(h) \notin {Scene, <<"objects">>, <<"tick">>, <<"players">>, <<"allHandles">>}
            /\ StreamOf(h) \notin Locks!Mutexes
<1>1. \A p \in {Scene, <<"objects">>, <<"tick">>, <<"players">>, <<"allHandles">>} :
        p \notin {<<"player">>, Object, <<"handle">>, <<"connections">>}
  BY DEF Scene, Object
<1>2. \A p \in {Scene, <<"objects">>, <<"tick">>, <<"players">>, <<"allHandles">>} :
        p \notin {"world", "input"} \X Conns
  BY DEF Scene
<1>3. Scene \notin {<<"objects">>, <<"tick">>, <<"players">>, <<"allHandles">>}
  BY DEF Scene
<1>4. \A h, g : StreamOf(h) = StreamOf(g) => h = g
  BY DEF StreamOf
<1>5. \A h : /\ StreamOf(h) \notin {Scene, <<"objects">>, <<"tick">>, <<"players">>, <<"allHandles">>}
            /\ StreamOf(h) \notin {<<"player">>, Object, <<"handle">>, <<"connections">>}
  BY DEF StreamOf, Scene, Object
<1>6. \A h : StreamOf(h) \notin {"world", "input"} \X Conns
  BY DEF StreamOf
<1> QED
  BY <1>1, <1>2, <1>3, <1>4, <1>5, <1>6, Names

LEMMA RacesKnown == LInv => Locks!OnlyKnownRaces
<1> SUFFICES ASSUME LInv, NEW t \in Locks!Threads, NEW u \in Locks!Threads, Locks!Racing(t, u)
             PROVE  \/ Locks!What(t) = <<"objects">> /\ t \in Conns /\ u = "tick"
                    \/ Locks!What(t) = <<"tick">> /\ t = "tick" /\ u \in Conns
                    \/ Locks!What(t) = <<"stream", t>> /\ t \in Conns /\ u = "tick"
  BY DEF Locks!OnlyKnownRaces
<1>1. PICK o \in {"read", "write"} : Locks!Doing(u, o)
  BY DEF Locks!Racing
<1>2. t # u /\ Locks!Doing(t, "write") /\ Locks!What(u) = Locks!What(t)
  BY DEF Locks!Racing
<1>3. PICK d : d = Locks!What(t)
  OBVIOUS
<1>4. PICK K \in SUBSET Holdable : Holds(t, K) /\ MayTouch(t, "write", d, K)
  BY <1>2, <1>3, Touches
<1>5. PICK M \in SUBSET Holdable : Holds(u, M) /\ MayTouch(u, o, d, M)
  BY <1>1, <1>2, <1>3, Touches
<1>6. ASSUME NEW l \in Lockable, l \in K, l \in M PROVE FALSE
  BY <1>2, <1>4, <1>5, <1>6 DEF Holds
<1>7. CASE d = Scene
  <2>1. Drained \in K /\ (Drained \in M \/ Inside \in M)
    BY <1>4, <1>5, <1>7, DataNames DEF MayTouch
  <2>2. Scene \in K /\ readers = {} /\ Scene \in Lockable
    BY <1>4, <2>1, TickLocks DEF Holds
  <2>3. Inside \notin M
    BY <1>5, <2>2 DEF Holds
  <2>4. Scene \in M
    BY <1>5, <2>1, <2>3 DEF Holds
  <2> QED
    BY <1>6, <2>2, <2>4
<1>8. CASE d = <<"objects">>
  <2>1. t # "renderer" /\ (Object \in K \/ t = "tick") /\ Object \in K
        /\ u # "renderer" /\ (Object \in M \/ u = "tick")
    BY <1>4, <1>5, <1>8, DataNames DEF MayTouch
  <2>2. Object \notin M
    BY <1>6, <2>1, TickLocks
  <2> QED
    BY <1>2, <1>3, <1>8, <2>1, <2>2, People
<1>9. CASE d = <<"tick">>
  <2>1. t = "tick" /\ u # "renderer"
    BY <1>4, <1>5, <1>9, DataNames DEF MayTouch
  <2> QED
    BY <1>2, <1>3, <1>9, <2>1, People
<1>10. CASE d = <<"players">>
  <2>1. <<"player">> \in K /\ <<"player">> \in M
    BY <1>4, <1>5, <1>10, DataNames DEF MayTouch
  <2> QED
    BY <1>6, <2>1, TickLocks
<1>11. CASE d = <<"allHandles">>
  <2>1. <<"handle">> \in K /\ <<"handle">> \in M
    BY <1>4, <1>5, <1>11, DataNames DEF MayTouch
  <2>2. <<"handle">> \in Lockable
    BY Names DEF Lockable
  <2> QED
    BY <1>6, <2>1, <2>2
<1>12. CASE d \in Locks!Mutexes
  <2>1. d \in K /\ d \in M
    BY <1>4, <1>5, <1>12, DataNames DEF MayTouch
  <2> QED
    BY <1>6, <1>12, <2>1, TickLocks
<1>13. CASE \E h \in Conns : d = StreamOf(h)
  <2>1. PICK h \in Conns : d = StreamOf(h)
    BY <1>13
  <2>3. \A x, p, N : MayTouch(x, p, StreamOf(h), N) => x = h \/ (x = "tick" /\ p = "read")
    BY DataNames DEF MayTouch
  <2>4. t = h /\ (u = h \/ u = "tick")
    BY <1>4, <1>5, <2>1, <2>3
  <2> QED
    BY <1>2, <1>3, <2>1, <2>4 DEF StreamOf
<1> QED
  BY <1>4, <1>7, <1>8, <1>9, <1>10, <1>11, <1>12, <1>13 DEF MayTouch

(***************************************************************************)
(* For any number of connections that come and go: no order of the tick,   *)
(* the renderer and MsQuic's callbacks leaves anyone waiting for itself,   *)
(* and all but the three known pairs of accesses share a lock              *)
(* (world.cpp:265-329, quic/server.cpp:297, 303).                          *)
(***************************************************************************)
THEOREM LocksAreRight == PartsSpec => []LocksRight
<1>1. LInv => LocksRight
  BY LocksTypes, NoCycle, RacesKnown DEF LocksRight
<1> QED
  BY <1>1, LocksInvariance, PTL
=============================================================================
