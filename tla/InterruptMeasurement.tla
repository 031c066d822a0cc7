------------------------ MODULE InterruptMeasurement ------------------------
(***************************************************************************)
(* The interrupt measurements of counter_parallel_port: one of five        *)
(* programs (main.c selects one by its comments) on a processor whose bus  *)
(* reaches the interval timer, the counter and the parallel port.          *)
(*                                                                         *)
(*   response:  the timer's handler takes a snapshot of the timer, which   *)
(*              counts on from the moment of the interrupt                 *)
(*   recovery:  the handler starts the counter, the main loop polls it     *)
(*   port:      the main loop raises a line of the port, the handler       *)
(*              answers by taking it down                                  *)
(*   test:      test_counter starts, stops and reads the counter           *)
(*   test_port: test_parallel_port writes and reads back the port          *)
(*                                                                         *)
(* Before main the HAL starts the timer as the system clock; the first two *)
(* programs take it over, the others leave it ticking.                     *)
(*                                                                         *)
(* Every action is one cycle of the slaves' clock.  A program is mostly a  *)
(* list of bus accesses (todo, and isrTodo in the handler); pc is what     *)
(* comes after.                                                            *)
(*                                                                         *)
(* The processor has a clock of its own.  Its writes are posted, each      *)
(* crosses to the slaves by a handshake before the next one does, and an   *)
(* irq reaches it through a synchroniser.  An access is modelled when it   *)
(* arrives, so the accesses of the main program that arrive before the     *)
(* handler's may be later than the irq, by Crossing at most.               *)
(***************************************************************************)
EXTENDS IntervalTimer, Counter, ParallelPort, SystemClock, Sequences

CONSTANTS
  PeriodHigh,  (* what the programs write to the high half of the period   *)
  Pause,       (* most cycles the processor computes between two steps     *)
  Gap,         (* fewest cycles between the arrivals of two accesses       *)
  Crossing     (* most cycles the processor acts on the old level of an irq *)

ASSUME PauseAssumption == Pause \in Nat \ {0}
ASSUME PeriodAssumption == PeriodHigh \in Half

(* An access crosses in a Gap and an irq is synchronised in two cycles, so *)
(* a handler that takes the irq down with an access before its last        *)
(* returns when it is seen down: the dummy read of alt_avalon_timer_sc_irq *)
(* is there "to ensure IRQ is negated".                                    *)
ASSUME CrossingAssumption == Gap \in 1 .. Pause /\ Crossing \in 1 .. Gap + 2

(* response_isr's snapshot is at most this late, and only the low half of  *)
(* it is used.                                                             *)
ASSUME ResponseAssumption == Crossing + 2 * Pause + 2 <= HalfSpan

(* The system clock's period is longer than its handler and the accesses   *)
(* on either side of it, and the counter's span longer than two reads with *)
(* the handler between them.                                               *)
ASSUME TestAssumption ==
  Crossing + 5 * Pause + 6 <= ResetPeriod /\ 5 * Pause + 7 < CounterSpan

VARIABLES
  program, pc,
  todo,          (* accesses the program makes before it goes on at pc     *)
  handling,      (* the line whose handler runs: none, timer or port       *)
  isrTodo,       (* accesses the handler still makes                       *)
  reading,       (* 1 in the second cycle of a read                        *)
  idle,          (* cycles computed since the last step                    *)
  timerSeen, portSeen,  (* the irqs as the processor sees them             *)
  timerLag, portLag,    (* cycles since they differ from the slaves'       *)
  flag, snapl,   (* the globals of interrupts_measurment.h                 *)
  reads,         (* values the main program has read since its last write  *)
  sinceIrq,      (* history: cycles since the timer raised its irq         *)
  response,      (* history: sinceIrq when the snapshot was taken          *)
  sinceStart,    (* history: cycles since recovery_isr started the counter *)
  early          (* history: the clock ran out between the registration of *)
                 (* the new handler and the start of its own period        *)

irqVars == <<timerSeen, portSeen, timerLag, portLag>>
softVars == <<program, pc, todo, handling, isrTodo, reading, idle, flag, snapl, reads>>
history == <<sinceIrq, response, sinceStart, early>>
vars == <<timerVars, counterVars, portVars, clockVars, irqVars, softVars, history>>

-----------------------------------------------------------------------------
(* Bus accesses, by the macros of the programs.                            *)
Timer(acc) == [slave |-> "timer", acc |-> acc]
InterruptCounter(acc) == [slave |-> "counter", acc |-> acc]
Port(acc) == [slave |-> "port", acc |-> acc]
Nowhere == [slave |-> "none", acc |-> NoAccess]

ARBITVAL == 1
Control(d) == Timer(WriteTo(1, d))
ClearStatus == Timer(WriteTo(0, 0))
TakeSnapshot == Timer(WriteTo(4, ARBITVAL))
ReadSnapshot(a) == Timer(ReadFrom(a))
PERIODL == Timer(WriteTo(2, HalfSpan - 1))
PERIODH == Timer(WriteTo(3, PeriodHigh))
ICOUNTER == InterruptCounter(ReadFrom(0))
IRZ == InterruptCounter(WriteTo(1, ARBITVAL))
ISTART == InterruptCounter(WriteTo(2, ARBITVAL))
ISTOP == InterruptCounter(WriteTo(3, ARBITVAL))
IREGDIR(d) == Port(WriteTo(0, d))
IREGPORT(d) == Port(WriteTo(1, d))
ReadPort(a) == Port(ReadFrom(a))

(* Reset, start, stop with two reads, start again with two reads, stop.    *)
test_counter ==
  <<IRZ, ICOUNTER, ISTART, ICOUNTER, ISTOP, ICOUNTER, ICOUNTER,
    ISTART, ICOUNTER, ICOUNTER, ISTOP>>

(* Register, pins and direction, before and after writing 0xAA.            *)
OddLines == {l \in Lines : l % 2 = 1 /\ l < 8}
test_parallel_port ==
  <<IREGDIR(Lines), ReadPort(1), ReadPort(2), ReadPort(0),
    IREGPORT(OddLines), ReadPort(1), ReadPort(2), ReadPort(0)>>

(* setup_response_timer, setup_recovery_timer, the start of the port's     *)
(* measurement, and the tests' accesses.                                   *)
Setup(p) ==
  CASE p = "response" -> <<Control(0), Control(2), PERIODL, PERIODH, Control(3), Control(7)>>
    [] p = "recovery" -> <<Control(0), Control(2), PERIODL, PERIODH, IRZ, Control(3), Control(7)>>
    [] p = "port" -> <<IREGDIR(Lines), IREGPORT({})>>
    [] p = "test" -> test_counter
    [] p = "test_port" -> test_parallel_port

(* The system clock's handler clears the timeout and reads for the delay.  *)
TickHandler == <<ClearStatus, Timer(ReadFrom(1))>>

(* A slip: the handler leaves the timer's interrupt enabled.               *)
Slip_StillEnabled(p) ==
  CASE p = "response" -> <<TakeSnapshot, ReadSnapshot(4), ReadSnapshot(5), ClearStatus>>
    [] p = "recovery" -> <<ClearStatus, ISTART>>
    [] p = "tick" -> TickHandler
    [] p = "port" -> <<IREGPORT({})>>

(* A slip: the handler leaves the timeout flag set.                        *)
Slip_StatusKept(p) ==
  CASE p = "response" -> <<TakeSnapshot, ReadSnapshot(4), ReadSnapshot(5), Control(0)>>
    [] p = "recovery" -> <<Control(0), ISTART>>
    [] p = "tick" -> TickHandler
    [] p = "port" -> <<IREGPORT({})>>

(* response_isr, recovery_isr, alt_avalon_timer_sc_irq and                 *)
(* par_port_response_isr.                                                  *)
Handler(p) ==
  CASE p = "response" -> <<TakeSnapshot, ReadSnapshot(4), ReadSnapshot(5),
                           Control(0), ClearStatus>>
    [] p = "recovery" -> <<Control(0), ClearStatus, ISTART>>
    [] p = "tick" -> TickHandler
    [] p = "port" -> <<IREGPORT({})>>

AfterSetup(p) ==
  CASE p = "response" -> "test_flag" [] p = "recovery" -> "poll" [] p = "port" -> "loop"
    [] OTHER -> "done"

(* The programs that install a handler, on the timer or on the port.       *)
TakesTimer == program \in {"response", "recovery"}
Registers == TakesTimer \/ program = "port"
Registered == pc # "boot"

(* alt_irq_handler serves the lower line first, by the handler installed.  *)
portInterrupts == portSeen = 1 /\ program = "port" /\ Registered
Interrupted == timerSeen = 1 \/ portInterrupts
Line == IF timerSeen = 1 THEN "timer" ELSE "port"
Isr(line) ==
  IF line = "port" THEN "port" ELSE IF TakesTimer /\ Registered THEN program ELSE "tick"

-----------------------------------------------------------------------------
(* alt_avalon_timer_sc_init is about to start the timer.                   *)
Init ==
  /\ TimerInit /\ CounterInit /\ PortInit /\ AlarmInit
  /\ program \in {"response", "recovery", "port", "test", "test_port"}
  /\ todo = <<Control(7)>> /\ pc = "boot"
  /\ handling = "none" /\ isrTodo = <<>> /\ reading = 0 /\ idle = 0
  /\ timerSeen = 0 /\ portSeen = 0 /\ timerLag = 0 /\ portLag = 0
  /\ flag = 0 /\ snapl = 0 /\ reads = <<>>
  /\ sinceIrq = 0 /\ response = 0 /\ sinceStart = 0 /\ early = FALSE

(* The timer runs with the clock's period until the new one is written.    *)
SettingUp == TakesTimer /\ (pc = "setup" \/ (pc = AfterSetup(program) /\ todo # <<>>))

(* An irq through its clock crosser: what the processor sees is the level  *)
(* now or an older one, which is not seen for more than Crossing cycles.   *)
Crosses(level, seen, lag) ==
  /\ seen' \in {seen, IF level THEN 1 ELSE 0}
  /\ lag' = IF (seen' = 1) <=> level' THEN 0 ELSE IF seen' = seen THEN lag + 1 ELSE 1
  /\ lag' <= Crossing

(* One edge of all slaves under an access to one of them.  The cycle in    *)
(* which irq is first up counts as 1.                                      *)
Edges(bus) ==
  /\ TimerEdge(IF bus.slave = "timer" THEN bus.acc ELSE NoAccess)
  /\ CounterEdge(IF bus.slave = "counter" THEN bus.acc ELSE NoAccess)
  /\ PortEdge(IF bus.slave = "port" THEN bus.acc ELSE NoAccess)
  /\ Crosses(irq, timerSeen, timerLag)
  /\ Crosses(port_irq, portSeen, portLag)
  /\ sinceIrq' = IF irq' /\ ~irq THEN 1
                 ELSE IF sinceIrq < HalfSpan THEN sinceIrq + 1 ELSE sinceIrq
  /\ response' = IF bus.slave = "timer" /\ bus = TakeSnapshot THEN sinceIrq ELSE response
  /\ sinceStart' = IF program # "recovery" \/ early \/ iEn = 0
                      \/ (bus.slave = "counter" /\ bus = ISTART)
                   THEN 0 ELSE (sinceStart + 1) % CounterSpan
  /\ early' = (early \/ (SettingUp' /\ timeout_occurred' = 1))

(* Instructions that touch no slave.  A finished program rests; a usleep,  *)
(* printing and the start of the system take any time.                     *)
Resting == pc = "done" /\ todo = <<>>
Asleep == handling = "none" /\ todo = <<>> /\ pc \in {"boot", "sleep", "print"} /\ ~Interrupted
Compute ==
  /\ reading = 0
  /\ \/ ~Asleep /\ idle < Pause /\ idle' = idle + 1
     \/ (Asleep \/ Resting) /\ idle' = idle
  /\ UNCHANGED <<program, pc, todo, handling, isrTodo, reading, flag, snapl, reads, clockVars>>
  /\ Edges(Nowhere)

(* The main program goes on unless it is interrupted.                      *)
MainRuns == handling = "none" /\ reading = 0 /\ ~Interrupted
At(p) == MainRuns /\ todo = <<>> /\ pc = p

(* The access that comes next, in the handler or in the main program.      *)
InHandler == handling # "none"
Pending == IF InHandler THEN isrTodo ELSE todo
MayAccess == reading = 0 /\ Pending # <<>> /\ idle >= Gap /\ (InHandler \/ ~Interrupted)
Done ==
  IF InHandler THEN isrTodo' = Tail(isrTodo) /\ UNCHANGED todo
  ELSE todo' = Tail(todo) /\ UNCHANGED isrTodo

Write ==
  /\ MayAccess /\ Head(Pending).acc.kind = "write"
  /\ Done
  /\ reads' = IF InHandler THEN reads ELSE <<>>
  /\ idle' = 0
  /\ UNCHANGED <<program, pc, handling, reading, flag, snapl, clockVars>>
  /\ Edges(Head(Pending))

(* A read has a wait state.                                                *)
BeginRead ==
  /\ MayAccess /\ Head(Pending).acc.kind = "read"
  /\ reading' = 1
  /\ idle' = 0
  /\ UNCHANGED <<program, pc, todo, handling, isrTodo, flag, snapl, reads, clockVars>>
  /\ Edges(Head(Pending))

EndRead ==
  /\ reading = 1
  /\ reading' = 0
  /\ Done
  /\ snapl' = IF Head(Pending) = ReadSnapshot(4) THEN readdata ELSE snapl
  /\ reads' = IF InHandler THEN reads
              ELSE Append(reads, IF Head(Pending).slave = "port" THEN portReadData ELSE ReadData)
  /\ UNCHANGED <<program, pc, handling, idle, flag, clockVars>>
  /\ Edges(Head(Pending))

-----------------------------------------------------------------------------
(* The processor enters a handler between two instructions.                *)
Interrupt ==
  /\ ~InHandler /\ reading = 0 /\ Interrupted
  /\ handling' = Line /\ isrTodo' = Handler(Isr(Line))
  /\ idle' = 0
  /\ UNCHANGED <<program, pc, todo, reading, flag, snapl, reads, clockVars>>
  /\ Edges(Nowhere)

(* The end of a handler; the system clock's calls alt_tick.                *)
Return ==
  /\ InHandler /\ isrTodo = <<>> /\ reading = 0
  /\ handling' = "none"
  /\ flag' = IF Isr(handling) = "response" THEN 1 ELSE flag
  /\ IF Isr(handling) = "tick" THEN Tick ELSE UNCHANGED clockVars
  /\ idle' = 0
  /\ UNCHANGED <<program, pc, todo, isrTodo, reading, snapl, reads>>
  /\ Edges(Nowhere)

(* A step of the main program without an access: from p to q, with the     *)
(* accesses to make on the way and the values to keep.                     *)
Goto(p, q, accesses, kept) ==
  /\ At(p)
  /\ pc' = q /\ todo' = accesses /\ reads' = kept
  /\ idle' = 0
  /\ UNCHANGED <<program, handling, isrTodo, reading, snapl, clockVars>>
  /\ Edges(Nowhere)

(* main calls the measurement or the test of its choice.                   *)
Register == Registers /\ Goto("boot", "setup", <<>>, <<>>) /\ UNCHANGED flag
SetUp ==
  /\ Goto(IF Registers THEN "setup" ELSE "boot", AfterSetup(program), Setup(program), <<>>)
  /\ flag' = IF program = "response" THEN 0 ELSE flag

(* measure_response_time: wait for the flag, print, and arm again.         *)
TestFlag == Goto("test_flag", IF flag = 1 THEN "print" ELSE "sleep", <<>>, <<>>) /\ UNCHANGED flag
PrintResponse == program = "response" /\ Goto("print", "clear_flag", <<>>, <<>>) /\ UNCHANGED flag

(* A slip: the flag is cleared after the timer is armed.                   *)
Slip_ArmFirst ==
  \/ pc = "clear_flag" /\ Goto("clear_flag", "armed", <<Control(7)>>, <<>>) /\ UNCHANGED flag
  \/ pc = "armed" /\ Goto("armed", "sleep", <<>>, <<>>) /\ flag' = 0

ClearFlag == Goto("clear_flag", "sleep", <<Control(7)>>, <<>>) /\ flag' = 0

(* measure_recovery_time: poll the counter, print another reading of it,   *)
(* and arm again with the counter stopped at 0.                            *)
Poll == At("poll") /\ Goto("poll", "polled", <<ICOUNTER>>, <<>>) /\ UNCHANGED flag
Polled ==
  /\ At("polled")
  /\ IF reads = <<0>> THEN Goto("polled", "polled", <<ICOUNTER>>, <<>>)
     ELSE Goto("polled", "print", <<ICOUNTER>>, reads)
  /\ UNCHANGED flag

(* A slip: the counter is stopped but not reset.                           *)
Slip_NotReset ==
  program = "recovery" /\ Goto("print", "sleep", <<ISTOP, Control(7)>>, <<>>) /\ UNCHANGED flag

PrintRecovery ==
  program = "recovery" /\ Goto("print", "sleep", <<ISTOP, IRZ, Control(7)>>, <<>>) /\ UNCHANGED flag

(* measure_response_recovery_time_par_port raises line 2 over and over.    *)
Raise == IREGPORT({2})
Loop == Goto("loop", "loop", <<Raise>>, <<>>) /\ UNCHANGED flag

(* The end of the main loop's usleep.                                      *)
Wake == Goto("sleep", AfterSetup(program), <<>>, <<>>) /\ UNCHANGED flag

Next ==
  \/ Compute \/ Write \/ BeginRead \/ EndRead \/ Interrupt \/ Return
  \/ Register \/ SetUp \/ Loop
  \/ TestFlag \/ PrintResponse \/ ClearFlag
  \/ Poll \/ Polled \/ PrintRecovery \/ Wake

Spec == Init /\ [][Next]_vars

(* The clock runs, and what takes its time ends, however often it is       *)
(* interrupted: interrupts only delay it.                                  *)
Awake == Register \/ SetUp \/ PrintResponse \/ PrintRecovery \/ Wake
FairSpec == Spec /\ WF_vars(Next) /\ SF_vars(Awake)

-----------------------------------------------------------------------------
(* What measure_response_time prints, 0xffff - snapl + 1, is the number of *)
(* cycles the interrupt was up when its handler took the snapshot, also    *)
(* when the timer ran out long before the interrupt was enabled again -    *)
(* unless the system clock ran out while the timer was being taken over.   *)
ResponseIsMeasured ==
  program = "response" /\ flag = 1 /\ ~early => HalfSpan - 1 - snapl + 1 = response

(* No interrupt comes before the measurement of the last one was printed.  *)
MeasurementIsRead ==
  program = "response" /\ handling = "timer" /\ Registered /\ ~early => flag = 0

(* While the counter runs for the recovery measurement it holds the cycles *)
(* since its handler started it, so what is printed is that time and not   *)
(* something left over.                                                    *)
CountsFromTheHandler ==
  program = "recovery" /\ iEn = 1 /\ ~early => iCounter = sinceStart

(* The comments of test_counter: a reset reads 0, two reads of the stopped *)
(* counter "should give the same result" (counter.c:19), two of the        *)
(* running one "should give different result" (counter.c:24).  Those of    *)
(* test_parallel_port: the pins read "the same value as IREGPORT"          *)
(* (parallel_port_test.c:9), whatever is connected to them.                *)
TestSucceeds ==
  /\ program = "test" /\ pc = "done" =>
       /\ Len(todo) = 9 => reads[1] = 0
       /\ Len(todo) = 4 => reads[1] = reads[2]
       /\ Len(todo) = 1 => reads[1] # reads[2]
  /\ program = "test_port" /\ pc = "done" =>
       /\ Len(todo) = 5 => reads[1] = reads[2]
       /\ Len(todo) = 1 => reads[1] = reads[2] /\ reads[1] = OddLines

(* "Value is polling all the time and checked if is different than zero,   *)
(* if so that value is a recovery time" (report.tex:537).                  *)
PrintsThePolledValue == pc = "print" /\ Len(reads) = 2 => reads[2] = reads[1]

(* The system's alarm goes off in the tick in which it is due, when the    *)
(* tick counter wraps on the way, too.                                     *)
AlarmIsOnTime == [][nticks' # nticks => (Expired <=> due = 1)]_vars


(* The measurements go on for ever, and the tests end.                     *)
MeasuresForEver == []<>(pc \in {"print", "loop", "done"} /\ todo = <<>>)
=============================================================================
