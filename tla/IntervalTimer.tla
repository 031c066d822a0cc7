--------------------------- MODULE IntervalTimer ---------------------------
(***************************************************************************)
(* The interval timer of the Qsys systems (soc_system_timer_0.v), one      *)
(* clock edge at a time: it counts down from a period of two halves,       *)
(* reloads at 0 and raises an interrupt; a snapshot register takes the     *)
(* count when it is written.                                               *)
(***************************************************************************)
EXTENDS Integers, AvalonSlave

CONSTANTS
  HalfSpan,     (* values of half a period, 2^16 in the hardware             *)
  ResetPeriod   (* the period the hardware is generated with                *)

ASSUME HalfSpanAssumption == HalfSpan \in Nat /\ HalfSpan > 1
ASSUME ResetPeriodAssumption == ResetPeriod \in 1 .. HalfSpan * HalfSpan - 1

VARIABLES
  internal_counter, counter_is_running, force_reload,
  counter_was_zero,       (* the code's delayed_unxcounter_is_zeroxx0      *)
  timeout_occurred, control_register,
  period_l_register, period_h_register,
  counter_snapshot, readdata

timerVars == <<internal_counter, counter_is_running, force_reload, counter_was_zero,
               timeout_occurred, control_register, period_l_register, period_h_register,
               counter_snapshot, readdata>>

Half == 0 .. HalfSpan - 1
counter_load_value == period_h_register * HalfSpan + period_l_register
counter_is_zero == internal_counter = 0

(* The bits of the control register and of what is written to it.          *)
interrupt_enable == control_register % 2 = 1
control_continuous == (control_register \div 2) % 2 = 1
start_strobe(acc) == Writes(acc, 1) /\ (acc.data \div 4) % 2 = 1
stop_strobe(acc) == Writes(acc, 1) /\ (acc.data \div 8) % 2 = 1

timeout_event == counter_is_zero /\ counter_was_zero = 0
irq == timeout_occurred = 1 /\ interrupt_enable

(* After reset the timer stands at its period.                             *)
TimerInit ==
  /\ period_l_register = ResetPeriod % HalfSpan
  /\ period_h_register = ResetPeriod \div HalfSpan
  /\ internal_counter = ResetPeriod
  /\ counter_is_running = 0 /\ force_reload = 0 /\ counter_was_zero = 0
  /\ timeout_occurred = 0 /\ control_register = 0
  /\ counter_snapshot = 0 /\ readdata = 0

CountDown ==
  internal_counter' =
    IF force_reload = 1 \/ (counter_is_running = 1 /\ counter_is_zero) THEN counter_load_value
    ELSE IF counter_is_running = 1 THEN internal_counter - 1 ELSE internal_counter

(* A timer that is not continuous stops at 0; a new period stops it, too.  *)
RunOrStop(acc) ==
  counter_is_running' =
    IF start_strobe(acc) THEN 1
    ELSE IF stop_strobe(acc) \/ force_reload = 1 \/ (counter_is_zero /\ ~control_continuous) THEN 0
    ELSE counter_is_running

(* Clearing goes before a timeout in the same cycle.                       *)
Timeout(acc) ==
  timeout_occurred' = IF Writes(acc, 0) THEN 0 ELSE IF timeout_event THEN 1 ELSE timeout_occurred

TimerRegisters(acc) ==
  /\ control_register' = IF Writes(acc, 1) THEN acc.data % 16 ELSE control_register
  /\ period_l_register' = IF Writes(acc, 2) THEN acc.data ELSE period_l_register
  /\ period_h_register' = IF Writes(acc, 3) THEN acc.data ELSE period_h_register
  /\ force_reload' = IF Writes(acc, 2) \/ Writes(acc, 3) THEN 1 ELSE 0
  /\ counter_was_zero' = IF counter_is_zero THEN 1 ELSE 0
  /\ counter_snapshot' =
       IF Writes(acc, 4) \/ Writes(acc, 5) THEN internal_counter ELSE counter_snapshot

(* The register follows the address bus; only what a read leaves is used.  *)
TimerRead(acc) ==
  readdata' = IF Reads(acc)
              THEN <<timeout_occurred + 2 * counter_is_running, control_register,
                     period_l_register, period_h_register,
                     counter_snapshot % HalfSpan, counter_snapshot \div HalfSpan, 0, 0>>[acc.addr + 1]
              ELSE readdata

TimerEdge(acc) ==
  CountDown /\ RunOrStop(acc) /\ Timeout(acc) /\ TimerRegisters(acc) /\ TimerRead(acc)
=============================================================================
