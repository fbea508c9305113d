----------------------------- MODULE TickTimer -----------------------------
(***************************************************************************)
(* When PhysXServer ticks, and which ticks are net ticks                   *)
(* (server/game.cpp:17-73).  The callback starts the timer again with what *)
(* is left of the interval; libuv counts that from the time its loop woke  *)
(* up, in whole milliseconds, which is when the callback began, not when   *)
(* it starts the timer.                                                    *)
(*                                                                         *)
(* Time is counted in units of 1/Ms of a millisecond, and only from the    *)
(* last tick and from last_net.                                            *)
(***************************************************************************)
EXTENDS Integers

CONSTANTS
  Ms,           \* units in a millisecond
  TickInterval, \* tickIntervalNano
  NetInterval,  \* netIntervalNano
  MaxBusy,      \* bound: how long a tick takes
  MaxLate,      \* bound: how late the loop calls back
  MaxLag        \* bound: how far last_net may be behind when the loop stalls

ASSUME TimerAssumption ==
  /\ Ms \in Nat \ {0} /\ TickInterval \in Nat /\ NetInterval \in Nat \ {0}
  /\ MaxBusy \in Nat /\ MaxLate \in Nat /\ MaxLag \in Nat

VARIABLES
  lag,   \* now - last_net of the last tick
  wait,  \* from the start of the last tick to the next one, at least
  gap,   \* from the start of the tick before to the last one
  plain, \* ticks since the last net tick
  first  \* there was no tick yet

vars == <<lag, wait, gap, plain, first>>

TypeOK ==
  /\ lag \in Nat /\ wait \in Nat /\ gap \in Nat /\ plain \in Nat
  /\ first \in BOOLEAN
  /\ (~ first /\ plain > 0) => lag <= NetInterval

(* run: last_net = last_tick = now, and the timer is due at once.          *)
Init == lag = 0 /\ wait = 0 /\ gap = 0 /\ plain = 0 /\ first = TRUE

-----------------------------------------------------------------------------
BugTimeLeft(busy) == Ms                \* always one millisecond

(* The timeout for uv_timer_start: at least 1 ms if the tick took longer   *)
(* than the interval, otherwise what is left, in whole milliseconds.       *)
TimeLeft(busy) ==
  IF busy > TickInterval THEN Ms ELSE ((TickInterval - busy) \div Ms) * Ms

(* The next callback: after this one has returned, and when the loop's     *)
(* clock, which has lost less than a millisecond, has come to the timeout. *)
NextStart(busy) ==
  LET due == TimeLeft(busy) - (Ms - 1)
  IN  IF due > busy THEN due ELSE busy

BugLate(late) == late > 2 * NetInterval \* off by one interval

(* now > last_net + netIntervalNano *)
Late(late) == late > NetInterval

(* last_net = last_net + netIntervalNano *)
Rest(late) == late - NetInterval

(* One tick, `elapsed' after the last one, that takes `busy'.              *)
Tick(elapsed, busy) ==
  /\ elapsed >= wait
  /\ gap' = elapsed /\ first' = FALSE
  /\ IF Late(lag + elapsed)
       THEN lag' = Rest(lag + elapsed) /\ plain' = 0
       ELSE lag' = lag + elapsed /\ plain' = plain + 1
  /\ wait' = NextStart(busy)

(* A tick in time, and one after the loop was held up.                     *)
InTime == \E elapsed \in wait..wait + MaxLate, busy \in 0..MaxBusy :
            Tick(elapsed, busy)

Stalled == \E elapsed \in wait..MaxLag - lag, busy \in 0..MaxBusy :
             Tick(elapsed, busy)

Next == InTime \/ Stalled

Spec == Init /\ [][Next]_vars

FairSpec == Spec /\ WF_vars(InTime)

-----------------------------------------------------------------------------
(* Properties. *)

(***************************************************************************)
(* Ticks may come at twice the rate that was asked for, but not faster: a  *)
(* tick that takes half the interval is followed at once by the next one   *)
(* (game.cpp:24-33).                                                       *)
(***************************************************************************)
TicksApart ==
  [][~ first => 2 * gap' >= TickInterval - 2 * Ms]_vars

(***************************************************************************)
(* Between two net ticks there are at most as many plain ones as that rate *)
(* allows: what the server's fairness to updateNet and gc rests on.        *)
(***************************************************************************)
PlainBounded ==
  plain > 0 => (plain - 1) * (TickInterval - 2 * Ms) <= 2 * NetInterval

(***************************************************************************)
(* The timer's five variables stay in their types, and net ticks keep      *)
(* coming.                                                                 *)
(***************************************************************************)
TicksBounded == TypeOK /\ PlainBounded

(***************************************************************************)
(* No net interval is skipped: after the loop was held up, every tick is a *)
(* net tick until last_net has caught up with the clock, and that it does  *)
(* if the loop is in time from then on and ticks take less than a net      *)
(* interval (game.cpp:63-64).                                              *)
(***************************************************************************)
CatchesUp == <>[](gap < NetInterval) => []<>(lag <= NetInterval)
=============================================================================
