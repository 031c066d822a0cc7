---------------------------- MODULE SystemClock ----------------------------
(***************************************************************************)
(* The HAL's system clock and the one alarm the programs have: alt_tick    *)
(* counts ticks in a word that wraps, and an alarm is due when the count   *)
(* has reached its time, which may lie beyond the wrap.                    *)
(***************************************************************************)
EXTENDS Integers

CONSTANTS
  TickSpan,         (* values of the tick counter, 2^32 in the code         *)
  ticks_per_second  (* what alt_ticks_per_second returns                    *)

(* An alarm a whole span away would count as due at once.                  *)
ASSUME TickAssumption ==
  TickSpan \in Nat /\ ticks_per_second \in Nat \ {0} /\ ticks_per_second + 1 < TickSpan

VARIABLES
  nticks,           (* _alt_nticks                                          *)
  time, rollover,   (* of the alarm                                         *)
  due               (* history: ticks until the alarm should go off         *)

clockVars == <<nticks, time, rollover, due>>

(* alt_alarm_start, called when the system starts.                         *)
AlarmInit ==
  /\ nticks = 0
  /\ time = (ticks_per_second + nticks + 1) % TickSpan
  /\ rollover = IF time < nticks THEN 1 ELSE 0
  /\ due = ticks_per_second + 1

(* alt_tick counts first; its wrap clears the flag before the test.        *)
NextTick == (nticks + 1) % TickSpan
StillBeyond == IF NextTick = 0 THEN 0 ELSE rollover
(* A slip: the alarm goes off only after its time.                         *)
Slip_After == time < NextTick /\ StillBeyond = 0

Expired == time <= NextTick /\ StillBeyond = 0

(* A callback returns a second, so the alarm stays in the list.            *)
Tick ==
  /\ nticks' = NextTick
  /\ time' = IF Expired THEN (time + ticks_per_second) % TickSpan ELSE time
  /\ rollover' = IF Expired /\ time' < nticks' THEN 1 ELSE StillBeyond
  /\ due' = IF due = 1 THEN ticks_per_second ELSE due - 1
=============================================================================
