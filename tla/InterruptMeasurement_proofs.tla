--------------------- MODULE InterruptMeasurement_proofs ---------------------
(***************************************************************************)
(* The measurements for every span of the counters and every period, and   *)
(* the system clock under them: the alarm is on time, each program is      *)
(* where its list of accesses says, and what the measurements promise.     *)
(***************************************************************************)
EXTENDS InterruptMeasurement, SequenceTheorems, TLAPS

-----------------------------------------------------------------------------
(* The system clock.                                                       *)

(* The alarm's time is as far ahead as it is due, beyond the wrap when the *)
(* flag says so.                                                           *)
AlarmAhead ==
  /\ nticks \in 0 .. TickSpan - 1 /\ time \in 0 .. TickSpan - 1
  /\ due \in 1 .. ticks_per_second + 1
  /\ rollover \in {0, 1}
  /\ rollover = 0 => time = nticks + due
  /\ rollover = 1 => time + TickSpan = nticks + due

(* A sum that wraps at most once.                                          *)
LEMMA Wrap ==
  ASSUME NEW a \in 0 .. TickSpan - 1, NEW b \in 0 .. TickSpan - 1
  PROVE  /\ a + b < TickSpan => (a + b) % TickSpan = a + b
         /\ a + b >= TickSpan => (a + b) % TickSpan = a + b - TickSpan
<1>1. TickSpan \in Nat /\ TickSpan > 0 /\ a + b \in Nat
  BY TickAssumption
<1>2. ASSUME a + b < TickSpan PROVE (a + b) % TickSpan = a + b
  BY <1>1, <1>2
<1>3. ASSUME a + b >= TickSpan PROVE (a + b) % TickSpan = a + b - TickSpan
  <2>1. a + b - TickSpan \in 0 .. TickSpan - 1
    BY <1>1, <1>3
  <2>2. (a + b - TickSpan) % TickSpan = a + b - TickSpan
    BY <1>1, <2>1
  <2>3. QED
    BY <1>1, <2>1, <2>2
<1>4. QED
  BY <1>2, <1>3

(* A tick finds the alarm expired exactly when it is due, and sets it as   *)
(* far ahead as the callback asks for.                                     *)
LEMMA TickIsRight ==
  ASSUME AlarmAhead, Tick
  PROVE  AlarmAhead' /\ (Expired <=> due = 1)
<1>1. /\ TickSpan \in Nat /\ ticks_per_second \in Nat \ {0} /\ ticks_per_second + 1 < TickSpan
      /\ 1 \in 0 .. TickSpan - 1
  BY TickAssumption
<1>2. NextTick = IF nticks = TickSpan - 1 THEN 0 ELSE nticks + 1
  <2>1. nticks \in 0 .. TickSpan - 1
    BY DEF AlarmAhead
  <2>2. /\ nticks + 1 < TickSpan => (nticks + 1) % TickSpan = nticks + 1
        /\ nticks + 1 >= TickSpan => (nticks + 1) % TickSpan = nticks + 1 - TickSpan
    BY <1>1, <2>1, Wrap
  <2>3. QED
    BY <1>1, <2>1, <2>2 DEF NextTick
<1>3. Expired <=> due = 1
  BY <1>1, <1>2 DEF AlarmAhead, Expired, StillBeyond
<1>4. Expired => time = NextTick
  BY <1>1, <1>2 DEF AlarmAhead, Expired, StillBeyond
<1>5. nticks' = NextTick /\ NextTick \in 0 .. TickSpan - 1
  BY <1>1, <1>2 DEF Tick, AlarmAhead
<1>6. CASE Expired
  <2>1. /\ time' = (time + ticks_per_second) % TickSpan
        /\ due' = ticks_per_second /\ StillBeyond = 0
        /\ rollover' = IF time' < nticks' THEN 1 ELSE 0
    BY <1>3, <1>6 DEF Tick, Expired
  <2>2. ticks_per_second \in 0 .. TickSpan - 1
    BY <1>1
  <2>3. /\ time + ticks_per_second < TickSpan => time' = time + ticks_per_second
        /\ time + ticks_per_second >= TickSpan => time' = time + ticks_per_second - TickSpan
    BY <2>1, <2>2, Wrap DEF AlarmAhead
  <2>4. QED
    BY <1>1, <1>3, <1>4, <1>5, <1>6, <2>1, <2>3 DEF AlarmAhead
<1>7. CASE ~Expired
  <2>1. time' = time /\ due' = due - 1 /\ rollover' = StillBeyond
    BY <1>3, <1>7 DEF Tick
  <2>2. QED
    BY <1>1, <1>2, <1>3, <1>5, <1>7, <2>1 DEF AlarmAhead, StillBeyond
<1>8. QED
  BY <1>3, <1>6, <1>7

(* Only the end of the system clock's handler moves the clock.             *)
LEMMA OnlyTicks ==
  ASSUME [Next]_vars
  PROVE  Tick \/ UNCHANGED clockVars
<1>1. CASE Compute \/ Write \/ BeginRead \/ EndRead \/ Interrupt
  BY <1>1 DEF Compute, Write, BeginRead, EndRead, Interrupt
<1>2. CASE Return
  BY <1>2 DEF Return
<1>3. CASE Register \/ SetUp \/ Loop \/ TestFlag \/ PrintResponse \/ ClearFlag \/ PrintRecovery \/ Wake
  BY <1>3 DEF Register, SetUp, Loop, TestFlag, PrintResponse, ClearFlag, PrintRecovery, Wake, Goto
<1>4. CASE Poll \/ Polled
  BY <1>4 DEF Poll, Polled, Goto
<1>5. CASE UNCHANGED vars
  BY <1>5 DEF vars
<1>6. QED
  BY <1>1, <1>2, <1>3, <1>4, <1>5 DEF Next

(* alt_tick (alt_tick.c:87) runs the alarm's callback in the tick in which *)
(* it is due and in no other, on both sides of the wrap of the tick        *)
(* counter.                                                                *)
THEOREM AlarmOnTime == Spec => AlarmIsOnTime
<1>1. Init => AlarmAhead
  <2>1. ASSUME AlarmInit PROVE AlarmAhead
    <3>1. /\ TickSpan \in Nat /\ ticks_per_second \in Nat \ {0} /\ ticks_per_second + 1 < TickSpan
      BY TickAssumption
    <3>2. (ticks_per_second + 0 + 1) % TickSpan = ticks_per_second + 1
      BY <3>1
    <3>3. QED
      BY <2>1, <3>1, <3>2 DEF AlarmInit, AlarmAhead
  <2>2. QED
    BY <2>1 DEF Init
<1>2. AlarmAhead /\ [Next]_vars =>
        AlarmAhead' /\ [nticks' # nticks => (Expired <=> due = 1)]_vars
  <2>1. SUFFICES ASSUME AlarmAhead, [Next]_vars
                 PROVE  AlarmAhead' /\ (nticks' # nticks => (Expired <=> due = 1))
    OBVIOUS
  <2>2. CASE Tick
    BY <2>1, <2>2, TickIsRight
  <2>3. CASE UNCHANGED clockVars
    BY <2>1, <2>3 DEF clockVars, AlarmAhead
  <2>4. QED
    BY <2>1, <2>2, <2>3, OnlyTicks
<1>3. QED
  BY <1>1, <1>2, PTL DEF Spec, AlarmIsOnTime

-----------------------------------------------------------------------------
(* Lists of accesses: a program or a handler is always at a rest of the    *)
(* list it was given, so the length of the rest tells what comes next.     *)

(* The last n elements of a list, and what is left of a script.            *)
Rest(s, n) == SubSeq(s, Len(s) - n + 1, Len(s))
Follows(s, script) == Len(s) \in 0 .. Len(script) /\ s = Rest(script, Len(s))

(* The next element is at its place in the list.                           *)
LEMMA RestStep ==
  ASSUME NEW S, NEW script \in Seq(S), NEW n \in 1 .. Len(script)
  PROVE  /\ Rest(script, n) # <<>>
         /\ Head(Rest(script, n)) = script[Len(script) - n + 1]
         /\ Tail(Rest(script, n)) = Rest(script, n - 1)
<1>1. Len(script) \in Nat /\ Len(script) - n + 1 \in 1 .. Len(script)
  OBVIOUS
<1>2. /\ Head(Rest(script, n)) = script[Len(script) - n + 1]
      /\ Tail(Rest(script, n)) = SubSeq(script, Len(script) - n + 1 + 1, Len(script))
  BY <1>1, HeadTailOfSubSeq DEF Rest
<1>3. Rest(script, n) # <<>>
  BY <1>1 DEF Rest
<1>4. QED
  BY <1>2, <1>3 DEF Rest

(* A rest is as long as it says.                                           *)
LEMMA RestLength ==
  ASSUME NEW S, NEW script \in Seq(S), NEW n \in 0 .. Len(script)
  PROVE  Len(Rest(script, n)) = n
BY DEF Rest

(* One access on: the same script, one shorter.                            *)
LEMMA FollowsStep ==
  ASSUME NEW S, NEW script \in Seq(S), NEW s, Follows(s, script), s # <<>>
  PROVE  /\ Len(s) \in 1 .. Len(script)
         /\ Head(s) = script[Len(script) - Len(s) + 1] /\ Head(s) \in S
         /\ Follows(Tail(s), script) /\ Len(Tail(s)) = Len(s) - 1
         /\ Tail(s) = <<>> <=> Len(s) = 1
<1>1. Len(s) # 0
  <2>1. Rest(script, Len(s)) \in Seq(S)
    BY DEF Follows, Rest
  <2>2. QED
    BY <2>1, EmptySeq DEF Follows
<1>2. Len(s) \in 1 .. Len(script)
  BY <1>1 DEF Follows
<1>3. Head(s) = script[Len(script) - Len(s) + 1] /\ Tail(s) = Rest(script, Len(s) - 1)
  BY <1>2, RestStep DEF Follows
<1>4. Len(s) - 1 \in 0 .. Len(script) /\ Len(script) \in Nat
  BY <1>2
<1>5. Len(Tail(s)) = Len(s) - 1
  BY <1>3, <1>4, RestLength
<1>6. script[Len(script) - Len(s) + 1] \in S
  BY <1>2
<1>7. Rest(script, 0) = <<>>
  BY <1>4, SubSeqEmpty DEF Rest
<1>8. Len(s) = 1 \/ Len(s) - 1 \in 1 .. Len(script)
  <2> DEFINE n == Len(s)
  <2>1. n \in 1 .. Len(script) /\ Len(script) \in Nat
    BY <1>2, <1>4
  <2> HIDE DEF n
  <2>2. n = 1 \/ n - 1 \in 1 .. Len(script)
    BY <2>1
  <2>3. QED
    BY <2>2 DEF n
<1>9. Tail(s) = <<>> <=> Len(s) = 1
  <2>1. Len(s) = 1 => Len(s) - 1 = 0
    OBVIOUS
  <2>2. Len(s) - 1 \in 1 .. Len(script) => Rest(script, Len(s) - 1) # <<>>
    BY RestStep
  <2>3. QED
    BY <1>3, <1>7, <1>8, <2>1, <2>2
<1>10. QED
  BY <1>2, <1>3, <1>4, <1>5, <1>6, <1>9 DEF Follows

(* A script is followed from its start to its end.                         *)
LEMMA FollowsAll ==
  ASSUME NEW S, NEW script \in Seq(S)
  PROVE  Follows(script, script) /\ Follows(<<>>, script)
<1>1. Len(script) \in Nat
  OBVIOUS
<1>2. SubSeq(script, Len(script) + 1, Len(script)) = <<>>
  BY <1>1, SubSeqEmpty
<1>3. SubSeq(script, 1, Len(script)) = script
  BY SubSeqFull
<1>4. Len(<<>>) = 0
  OBVIOUS
<1>5. Follows(script, script)
  BY <1>1, <1>3 DEF Follows, Rest
<1>6. Follows(<<>>, script)
  BY <1>1, <1>2, <1>4 DEF Follows, Rest
<1>7. QED
  BY <1>5, <1>6

(* What is on the bus when a slave is accessed.                            *)
Access ==
  [slave : {"timer", "counter", "port"},
   acc : [kind : {"read", "write"}, addr : 0 .. 7, data : Int \cup SUBSET Lines]]

(* The accesses of the programs, by slave.                                 *)
LEMMA TimerAccess ==
  ASSUME NEW a \in 0 .. 7, NEW d \in Int
  PROVE  Timer(WriteTo(a, d)) \in Access /\ Timer(ReadFrom(a)) \in Access
BY DEF Timer, WriteTo, ReadFrom, Access

LEMMA CounterAccess ==
  /\ ICOUNTER \in Access /\ IRZ \in Access /\ ISTART \in Access /\ ISTOP \in Access
BY DEF InterruptCounter, WriteTo, ReadFrom, Access, ICOUNTER, IRZ, ISTART, ISTOP, ARBITVAL

LEMMA PortAccess ==
  ASSUME NEW a \in 0 .. 7, NEW d \in SUBSET Lines
  PROVE  Port(WriteTo(a, d)) \in Access /\ Port(ReadFrom(a)) \in Access
BY DEF Port, WriteTo, ReadFrom, Access

LEMMA ControlAccess ==
  /\ \A d \in {0, 2, 3, 7} : Control(d) \in Access
  /\ ClearStatus \in Access /\ TakeSnapshot \in Access /\ Timer(ReadFrom(1)) \in Access
  /\ ReadSnapshot(4) \in Access /\ ReadSnapshot(5) \in Access
BY TimerAccess DEF Control, ClearStatus, TakeSnapshot, ReadSnapshot, ARBITVAL

LEMMA PeriodAccess == PERIODL \in Access /\ PERIODH \in Access
BY TimerAccess, HalfSpanAssumption, PeriodAssumption DEF Half, PERIODL, PERIODH

LEMMA ReadPortAccess == \A a \in 0 .. 2 : ReadPort(a) \in Access
BY PortAccess DEF ReadPort

(* The lists of the programs and of the handlers.                          *)
LEMMA ResponseSetup ==
  /\ Setup("response") = <<Control(0), Control(2), PERIODL, PERIODH, Control(3), Control(7)>>
  /\ Setup("response") \in Seq(Access) /\ Len(Setup("response")) = 6
<1> DEFINE all == <<Control(0), Control(2), PERIODL, PERIODH, Control(3), Control(7)>>
<1>1. Setup("response") = all
  BY DEF Setup
<1>2. all \in Seq(Access) /\ Len(all) = 6
  BY ControlAccess, PeriodAccess
<1>3. QED
  BY <1>1, <1>2

LEMMA RecoverySetup ==
  /\ Setup("recovery") = <<Control(0), Control(2), PERIODL, PERIODH, IRZ, Control(3), Control(7)>>
  /\ Setup("recovery") \in Seq(Access) /\ Len(Setup("recovery")) = 7
<1> DEFINE all == <<Control(0), Control(2), PERIODL, PERIODH, IRZ, Control(3), Control(7)>>
<1>1. Setup("recovery") = all
  BY DEF Setup
<1>2. all \in Seq(Access) /\ Len(all) = 7
  BY ControlAccess, PeriodAccess, CounterAccess
<1>3. QED
  BY <1>1, <1>2

LEMMA PortSetup ==
  /\ Setup("port") = <<IREGDIR(Lines), IREGPORT({})>>
  /\ Setup("port") \in Seq(Access) /\ Len(Setup("port")) = 2
<1> DEFINE all == <<IREGDIR(Lines), IREGPORT({})>>
<1>1. Setup("port") = all
  BY DEF Setup
<1>2. IREGDIR(Lines) \in Access /\ IREGPORT({}) \in Access
  BY PortAccess DEF IREGDIR, IREGPORT
<1>3. all \in Seq(Access) /\ Len(all) = 2
  BY <1>2
<1>4. QED
  BY <1>1, <1>3

LEMMA TestSetup ==
  /\ Setup("test") = <<IRZ, ICOUNTER, ISTART, ICOUNTER, ISTOP, ICOUNTER, ICOUNTER,
                       ISTART, ICOUNTER, ICOUNTER, ISTOP>>
  /\ Setup("test") \in Seq(Access) /\ Len(Setup("test")) = 11
<1> DEFINE all == <<IRZ, ICOUNTER, ISTART, ICOUNTER, ISTOP, ICOUNTER, ICOUNTER,
                    ISTART, ICOUNTER, ICOUNTER, ISTOP>>
<1>1. Setup("test") = all
  BY DEF Setup, test_counter
<1>2. all \in Seq(Access) /\ Len(all) = 11
  BY CounterAccess
<1>3. QED
  BY <1>1, <1>2

LEMMA TestPortSetup ==
  /\ Setup("test_port") = <<IREGDIR(Lines), ReadPort(1), ReadPort(2), ReadPort(0),
                            IREGPORT(OddLines), ReadPort(1), ReadPort(2), ReadPort(0)>>
  /\ Setup("test_port") \in Seq(Access) /\ Len(Setup("test_port")) = 8
<1> DEFINE all == <<IREGDIR(Lines), ReadPort(1), ReadPort(2), ReadPort(0),
                    IREGPORT(OddLines), ReadPort(1), ReadPort(2), ReadPort(0)>>
<1>1. Setup("test_port") = all
  BY DEF Setup, test_parallel_port
<1>2. IREGDIR(Lines) \in Access /\ IREGPORT(OddLines) \in Access
  BY PortAccess DEF IREGDIR, IREGPORT, OddLines
<1>3. all \in Seq(Access) /\ Len(all) = 8
  BY <1>2, ReadPortAccess
<1>4. QED
  BY <1>1, <1>3

LEMMA Handlers ==
  /\ Handler("response") = <<TakeSnapshot, ReadSnapshot(4), ReadSnapshot(5), Control(0), ClearStatus>>
  /\ Handler("response") \in Seq(Access) /\ Len(Handler("response")) = 5
  /\ Handler("recovery") = <<Control(0), ClearStatus, ISTART>>
  /\ Handler("recovery") \in Seq(Access) /\ Len(Handler("recovery")) = 3
  /\ Handler("tick") = <<ClearStatus, Timer(ReadFrom(1))>>
  /\ Handler("tick") \in Seq(Access) /\ Len(Handler("tick")) = 2
  /\ Handler("port") = <<IREGPORT({})>>
  /\ Handler("port") \in Seq(Access) /\ Len(Handler("port")) = 1
<1> DEFINE measuring == <<TakeSnapshot, ReadSnapshot(4), ReadSnapshot(5), Control(0), ClearStatus>>
           recovery == <<Control(0), ClearStatus, ISTART>>
           tick == <<ClearStatus, Timer(ReadFrom(1))>>
           port == <<IREGPORT({})>>
<1>1. /\ Handler("response") = measuring /\ Handler("recovery") = recovery
      /\ Handler("tick") = tick /\ Handler("port") = port
  BY DEF Handler, TickHandler
<1>2. IREGPORT({}) \in Access
  BY PortAccess DEF IREGPORT
<1>3. measuring \in Seq(Access) /\ Len(measuring) = 5
  BY ControlAccess
<1>4. recovery \in Seq(Access) /\ Len(recovery) = 3
  BY ControlAccess, CounterAccess
<1>5. tick \in Seq(Access) /\ Len(tick) = 2
  BY ControlAccess
<1>6. port \in Seq(Access) /\ Len(port) = 1
  BY <1>2
<1>7. QED
  BY <1>1, <1>3, <1>4, <1>5, <1>6

-----------------------------------------------------------------------------
(* Where the programs are: the control flow of all five.                   *)

Programs == {"response", "recovery", "port", "test", "test_port"}

Places ==
  CASE program = "response" -> {"boot", "setup", "test_flag", "print", "clear_flag", "sleep"}
    [] program = "recovery" -> {"boot", "setup", "poll", "polled", "print", "sleep"}
    [] program = "port" -> {"boot", "setup", "loop"}
    [] program \in {"test", "test_port"} -> {"boot", "done"}

(* The list the accesses at pc are taken from.                             *)
Script ==
  CASE pc = "boot" -> <<Control(7)>>
    [] pc \in {"setup", "clear_flag"} -> <<>>
    [] pc = "polled" -> <<ICOUNTER>>
    [] pc = "print" -> IF program = "recovery" THEN <<ICOUNTER>> ELSE <<>>
    [] pc = "sleep" -> IF program = "recovery" THEN <<ISTOP, IRZ, Control(7)>> ELSE <<Control(7)>>
    [] pc \in {"test_flag", "poll", "loop", "done"} -> Setup(program)

(* The main program and the handler are each at a rest of their lists; the *)
(* port's loop has one more. Only what answers a read waits for an answer. *)
MainOnScript ==
  /\ program \in Programs /\ pc \in Places
  /\ Follows(todo, Script) \/ (pc = "loop" /\ todo = <<Raise>>)

HandlerOnScript ==
  /\ handling \in {"none", "timer", "port"}
  /\ handling = "none" => isrTodo = <<>>
  /\ handling # "none" => Follows(isrTodo, Handler(Isr(handling)))
  /\ handling = "port" => program = "port" /\ Registered

MainLeft == Len(todo)
IsrLeft == Len(isrTodo)

OnScript ==
  /\ MainOnScript /\ HandlerOnScript
  /\ reading \in {0, 1} /\ idle \in 0 .. Pause
  /\ reading = 1 => Pending # <<>> /\ Head(Pending).acc.kind = "read"

(* The scripts are lists of accesses.                                      *)
LEMMA ScriptIsList ==
  ASSUME MainOnScript
  PROVE  Script \in Seq(Access)
<1>1. Control(7) \in Access /\ ICOUNTER \in Access /\ ISTOP \in Access /\ IRZ \in Access
  BY ControlAccess, CounterAccess
<1>2. CASE pc \in {"boot", "setup", "clear_flag", "polled", "print", "sleep"}
  <2>1. /\ <<>> \in Seq(Access) /\ <<Control(7)>> \in Seq(Access) /\ <<ICOUNTER>> \in Seq(Access)
        /\ <<ISTOP, IRZ, Control(7)>> \in Seq(Access)
    BY <1>1
  <2>2. Script \in {<<>>, <<Control(7)>>, <<ICOUNTER>>, <<ISTOP, IRZ, Control(7)>>}
    BY <1>2, Zenon DEF Script
  <2>3. QED
    BY <2>1, <2>2
<1>3. CASE pc \in {"test_flag", "poll", "loop", "done"}
  <2>1. Script = Setup(program)
    BY <1>3 DEF Script
  <2>2. QED
    BY <2>1, ResponseSetup, RecoverySetup, PortSetup, TestSetup, TestPortSetup
    DEF MainOnScript, Programs
<1>4. QED
  BY <1>2, <1>3 DEF MainOnScript, Programs, Places

LEMMA HandlerIsList ==
  ASSUME NEW p \in {"response", "recovery", "port", "tick"}
  PROVE  Handler(p) \in Seq(Access)
BY Handlers

LEMMA IsrIsKnown ==
  ASSUME NEW line
  PROVE  Isr(line) \in {"response", "recovery", "port", "tick"}
BY DEF Isr, TakesTimer

(* The next access of the main program, and what is left after it.         *)
LEMMA MainStep ==
  ASSUME MainOnScript, todo # <<>>
  PROVE  /\ Head(todo) \in Access /\ MainLeft \in Nat \ {0}
         /\ Follows(Tail(todo), Script)
         /\ Tail(todo) = <<>> <=> MainLeft = 1
         /\ todo' = Tail(todo) => MainLeft' = MainLeft - 1
<1>1. CASE Follows(todo, Script)
  <2>1. /\ Len(todo) \in 1 .. Len(Script) /\ Head(todo) \in Access
        /\ Follows(Tail(todo), Script) /\ Len(Tail(todo)) = Len(todo) - 1
        /\ Tail(todo) = <<>> <=> Len(todo) = 1
    BY <1>1, ScriptIsList, FollowsStep
  <2>2. Len(todo) \in Nat \ {0}
    <3> DEFINE n == Len(todo)
    <3>1. n \in 1 .. Len(Script) /\ Len(Script) \in Nat
      BY <2>1, ScriptIsList
    <3> HIDE DEF n
    <3>2. n \in Nat \ {0}
      BY <3>1
    <3>3. QED
      BY <3>2 DEF n
  <2>3. todo' = Tail(todo) => Len(todo') = Len(todo) - 1
    BY <2>1
  <2>4. QED
    BY <2>1, <2>2, <2>3 DEF MainLeft
<1>2. CASE todo = <<Raise>>
  <2>1. Raise \in Access
    BY PortAccess, LinesAssumption DEF Raise, IREGPORT
  <2>2. Head(todo) = Raise /\ Tail(todo) = <<>> /\ Len(todo) = 1 /\ Len(Tail(todo)) = 0
    BY <1>2
  <2>3. Follows(<<>>, Script)
    BY ScriptIsList, FollowsAll
  <2>4. Follows(Tail(todo), Script)
    BY <2>2, <2>3, Zenon
  <2>5. MainLeft = 1 /\ (todo' = Tail(todo) => MainLeft' = 0)
    BY <2>2 DEF MainLeft
  <2>6. QED
    BY <2>1, <2>2, <2>4, <2>5
<1>3. QED
  BY <1>1, <1>2 DEF MainOnScript

(* The same in a handler.                                                  *)
LEMMA HandlerStep ==
  ASSUME HandlerOnScript, isrTodo # <<>>
  PROVE  /\ handling # "none"
         /\ Head(isrTodo) \in Access /\ IsrLeft \in Nat \ {0}
         /\ Follows(Tail(isrTodo), Handler(Isr(handling)))
         /\ Tail(isrTodo) = <<>> <=> IsrLeft = 1
         /\ isrTodo' = Tail(isrTodo) => IsrLeft' = IsrLeft - 1
<1> DEFINE script == Handler(Isr(handling))
<1>1. handling # "none" /\ Follows(isrTodo, script)
  BY DEF HandlerOnScript
<1>2. script \in Seq(Access)
  BY HandlerIsList, IsrIsKnown
<1> HIDE DEF script
<1>3. /\ Len(isrTodo) \in 1 .. Len(script) /\ Head(isrTodo) \in Access
      /\ Follows(Tail(isrTodo), script) /\ Len(Tail(isrTodo)) = Len(isrTodo) - 1
      /\ Tail(isrTodo) = <<>> <=> Len(isrTodo) = 1
  BY <1>1, <1>2, FollowsStep
<1>4. Len(isrTodo) \in Nat \ {0}
  <2> DEFINE n == Len(isrTodo)
  <2>1. n \in 1 .. Len(script) /\ Len(script) \in Nat
    BY <1>2, <1>3
  <2> HIDE DEF n
  <2>2. n \in Nat \ {0}
    BY <2>1
  <2>3. QED
    BY <2>2 DEF n
<1>5. isrTodo' = Tail(isrTodo) => Len(isrTodo') = Len(isrTodo) - 1
  BY <1>3
<1>6. QED
  BY <1>1, <1>3, <1>4, <1>5 DEF IsrLeft, script

(* As long as nothing is taken off a list, it is where it was.             *)
LEMMA MainStays ==
  ASSUME MainOnScript, UNCHANGED <<program, pc, todo>>
  PROVE  MainOnScript'
<1>1. Script' = Script
  BY DEF Script
<1>2. QED
  BY <1>1 DEF MainOnScript, Places

LEMMA HandlerStays ==
  ASSUME HandlerOnScript, UNCHANGED <<program, pc, handling, isrTodo>>
  PROVE  HandlerOnScript'
<1>1. Isr(handling)' = Isr(handling)
  BY DEF Isr, TakesTimer, Registered
<1>2. QED
  BY <1>1 DEF HandlerOnScript, Registered

(* An access taken off its list.                                           *)
LEMMA DoneOnScript ==
  ASSUME OnScript, Done, Pending # <<>>, UNCHANGED <<program, pc, handling>>
  PROVE  MainOnScript' /\ HandlerOnScript'
<1>1. CASE InHandler
  <2>1. Follows(isrTodo', Handler(Isr(handling)))
    BY <1>1, HandlerStep DEF OnScript, Done, Pending
  <2>2. UNCHANGED <<todo, program, pc, handling>>
    BY <1>1 DEF Done
  <2>3. MainOnScript'
    BY <2>2, MainStays DEF OnScript
  <2>4. Isr(handling)' = Isr(handling)
    BY <2>2 DEF Isr, TakesTimer, Registered
  <2>5. HandlerOnScript'
    BY <1>1, <2>1, <2>2, <2>4 DEF OnScript, HandlerOnScript, InHandler, Registered
  <2>6. QED
    BY <2>3, <2>5
<1>2. CASE ~InHandler
  <2>1. Follows(todo', Script)
    BY <1>2, MainStep DEF OnScript, Done, Pending
  <2>2. UNCHANGED <<isrTodo, program, pc, handling>>
    BY <1>2 DEF Done
  <2>3. MainOnScript'
    BY <2>1, <2>2 DEF OnScript, MainOnScript, Places, Script
  <2>4. HandlerOnScript'
    BY <1>2, <2>2 DEF OnScript, HandlerOnScript, InHandler
  <2>5. QED
    BY <2>3, <2>4
<1>3. QED
  BY <1>1, <1>2

(* Every step of the main program goes to the start of a list.             *)
LEMMA GotoOnScript ==
  ASSUME OnScript, NEW p, NEW q, NEW accesses, NEW kept, Goto(p, q, accesses, kept),
         q \in Places, accesses \in Seq(Access),
         pc' = q => (Follows(accesses, Script') \/ (q = "loop" /\ accesses = <<Raise>>))
  PROVE  OnScript'
<1>1. /\ UNCHANGED <<program, handling, isrTodo, reading>> /\ reading = 0
      /\ handling = "none" /\ pc' = q /\ todo' = accesses /\ idle' = 0
  BY DEF Goto, At, MainRuns
<1>2. MainOnScript'
  BY <1>1 DEF OnScript, MainOnScript, Places
<1>3. HandlerOnScript'
  BY <1>1 DEF OnScript, HandlerOnScript
<1>4. QED
  BY <1>1, <1>2, <1>3, PauseAssumption DEF OnScript

(* Where SetUp and Wake go.                                                *)
LEMMA AfterSetups ==
  /\ AfterSetup("response") = "test_flag" /\ AfterSetup("recovery") = "poll"
  /\ AfterSetup("port") = "loop" /\ AfterSetup("test") = "done" /\ AfterSetup("test_port") = "done"
BY Zenon DEF AfterSetup

LEMMA SetUpOnScript ==
  ASSUME OnScript
  PROVE  /\ AfterSetup(program) \in Places
         /\ Setup(program) \in Seq(Access)
         /\ AfterSetup(program) \in {"test_flag", "poll", "loop", "done"}
<1>1. program \in Programs
  BY DEF OnScript, MainOnScript
<1>2. QED
  BY <1>1, AfterSetups, ResponseSetup, RecoverySetup, PortSetup, TestSetup, TestPortSetup
  DEF Programs, Places

(* The lists the other steps start.                                        *)
LEMMA ShortLists ==
  /\ <<>> \in Seq(Access) /\ <<Control(7)>> \in Seq(Access) /\ <<ICOUNTER>> \in Seq(Access)
  /\ <<ISTOP, IRZ, Control(7)>> \in Seq(Access) /\ <<Raise>> \in Seq(Access)
<1>1. Raise \in Access
  BY PortAccess, LinesAssumption DEF Raise, IREGPORT
<1>2. QED
  BY <1>1, ControlAccess, CounterAccess

LEMMA OnScriptStep ==
  ASSUME OnScript, Next
  PROVE  OnScript'
<1> USE DEF Places
<1>0. program \in Programs /\ pc \in Places
  BY DEF OnScript, MainOnScript
<1>1. CASE Compute
  <2>1. UNCHANGED <<program, pc, todo, handling, isrTodo, reading>> /\ idle' \in 0 .. Pause
    BY <1>1, PauseAssumption DEF Compute, OnScript
  <2>2. QED
    BY <2>1, MainStays, HandlerStays DEF OnScript, Pending, InHandler
<1>2. CASE Write
  <2>1. MainOnScript' /\ HandlerOnScript'
    BY <1>2, DoneOnScript DEF Write, MayAccess
  <2>2. reading' = 0 /\ idle' = 0
    BY <1>2 DEF Write, MayAccess
  <2>3. QED
    BY <2>1, <2>2, PauseAssumption DEF OnScript
<1>3. CASE BeginRead
  <2>1. /\ UNCHANGED <<program, pc, todo, handling, isrTodo>> /\ idle' = 0 /\ reading' = 1
        /\ Pending # <<>> /\ Head(Pending).acc.kind = "read"
    BY <1>3 DEF BeginRead, MayAccess
  <2>2. Pending' = Pending
    BY <2>1 DEF Pending, InHandler
  <2>3. QED
    BY <2>1, <2>2, PauseAssumption, MainStays, HandlerStays DEF OnScript
<1>4. CASE EndRead
  <2>1. MainOnScript' /\ HandlerOnScript'
    BY <1>4, DoneOnScript DEF EndRead, OnScript
  <2>2. reading' = 0 /\ idle' = idle
    BY <1>4 DEF EndRead
  <2>3. QED
    BY <2>1, <2>2 DEF OnScript
<1>5. CASE Interrupt
  <2>1. /\ UNCHANGED <<program, pc, todo>> /\ reading' = 0 /\ idle' = 0
        /\ handling' = Line /\ isrTodo' = Handler(Isr(Line))
    BY <1>5 DEF Interrupt
  <2>2. Isr(handling)' = Isr(Line)
    BY <2>1 DEF Isr, TakesTimer, Registered
  <2>3. Follows(Handler(Isr(Line)), Handler(Isr(Line)))
    BY HandlerIsList, IsrIsKnown, FollowsAll
  <2>4. Line \in {"timer", "port"} /\ (Line = "port" => program = "port" /\ Registered)
    BY <1>5 DEF Interrupt, Interrupted, portInterrupts, Line
  <2>5. HandlerOnScript'
    BY <2>1, <2>2, <2>3, <2>4 DEF HandlerOnScript, Registered
  <2>6. MainOnScript'
    BY <2>1, MainStays DEF OnScript
  <2>7. QED
    BY <2>1, <2>5, <2>6, PauseAssumption DEF OnScript
<1>6. CASE Return
  <2>1. /\ UNCHANGED <<program, pc, todo>> /\ reading' = 0 /\ idle' = 0
        /\ handling' = "none" /\ isrTodo' = <<>>
    BY <1>6 DEF Return
  <2>2. QED
    BY <2>1, PauseAssumption, MainStays DEF OnScript, HandlerOnScript
<1>7. CASE Register
  <2>1. Goto("boot", "setup", <<>>, <<>>) /\ program \in {"response", "recovery", "port"}
    BY <1>7 DEF Register, Registers, TakesTimer
  <2>2. pc' = "setup" => Follows(<<>>, Script')
    BY ShortLists, FollowsAll DEF Script
  <2>3. QED
    BY <2>1, <2>2, ShortLists, GotoOnScript
<1>8. CASE SetUp
  <2>1. \E p : Goto(p, AfterSetup(program), Setup(program), <<>>)
    BY <1>8 DEF SetUp
  <2>2. program' = program
    BY <2>1 DEF Goto
  <2>3. pc' = AfterSetup(program) => Follows(Setup(program), Script')
    BY <2>2, SetUpOnScript, FollowsAll DEF Script
  <2>4. QED
    BY <2>1, <2>3, SetUpOnScript, GotoOnScript
<1>9. CASE Loop
  <2>1. Goto("loop", "loop", <<Raise>>, <<>>) /\ pc = "loop"
    BY <1>9 DEF Loop, Goto, At
  <2>2. QED
    BY <1>0, <2>1, ShortLists, GotoOnScript
<1>10. CASE TestFlag
  <2>1. PICK q \in {"print", "sleep"} : Goto("test_flag", q, <<>>, <<>>)
    BY <1>10 DEF TestFlag
  <2>2. program = "response" /\ program' = program
    BY <1>0, <2>1 DEF Goto, At, Programs
  <2>3. pc' = q => Script' \in {<<>>, <<Control(7)>>}
    BY <2>1, <2>2 DEF Script
  <2>4. pc' = q => Follows(<<>>, Script')
    BY <2>3, ShortLists, FollowsAll
  <2>5. QED
    BY <2>1, <2>2, <2>4, ShortLists, GotoOnScript
<1>11. CASE PrintResponse
  <2>1. Goto("print", "clear_flag", <<>>, <<>>) /\ program = "response" /\ program' = program
    BY <1>11 DEF PrintResponse, Goto
  <2>2. pc' = "clear_flag" => Follows(<<>>, Script')
    BY <2>1, ShortLists, FollowsAll DEF Script
  <2>3. QED
    BY <2>1, <2>2, ShortLists, GotoOnScript
<1>12. CASE ClearFlag
  <2>1. Goto("clear_flag", "sleep", <<Control(7)>>, <<>>) /\ program' = program /\ pc = "clear_flag"
    BY <1>12 DEF ClearFlag, Goto, At
  <2>2. program = "response"
    BY <1>0, <2>1 DEF Programs
  <2>3. pc' = "sleep" => Follows(<<Control(7)>>, Script')
    BY <2>1, <2>2, ShortLists, FollowsAll DEF Script
  <2>4. QED
    BY <2>1, <2>2, <2>3, ShortLists, GotoOnScript
<1>13. CASE Poll
  <2>1. Goto("poll", "polled", <<ICOUNTER>>, <<>>) /\ pc = "poll"
    BY <1>13 DEF Poll, At
  <2>2. program = "recovery"
    BY <1>0, <2>1 DEF Programs
  <2>3. pc' = "polled" => Follows(<<ICOUNTER>>, Script')
    BY ShortLists, FollowsAll DEF Script
  <2>4. QED
    BY <2>1, <2>2, <2>3, ShortLists, GotoOnScript
<1>14. CASE Polled
  <2>0. PICK q \in {"polled", "print"} : \E kept : Goto("polled", q, <<ICOUNTER>>, kept)
    BY <1>14 DEF Polled
  <2>1. PICK kept : Goto("polled", q, <<ICOUNTER>>, kept)
    BY <2>0
  <2>2. pc = "polled" /\ program' = program
    BY <2>1 DEF Goto, At
  <2>3. program = "recovery"
    BY <1>0, <2>2 DEF Programs
  <2>4. pc' = q => Follows(<<ICOUNTER>>, Script')
    BY <2>2, <2>3, ShortLists, FollowsAll DEF Script
  <2>5. QED
    BY <2>1, <2>3, <2>4, ShortLists, GotoOnScript
<1>15. CASE PrintRecovery
  <2>1. Goto("print", "sleep", <<ISTOP, IRZ, Control(7)>>, <<>>) /\ program' = program
    BY <1>15 DEF PrintRecovery, Goto
  <2>2. program = "recovery"
    BY <1>15 DEF PrintRecovery
  <2>3. pc' = "sleep" => Follows(<<ISTOP, IRZ, Control(7)>>, Script')
    BY <2>1, <2>2, ShortLists, FollowsAll DEF Script
  <2>4. QED
    BY <2>1, <2>2, <2>3, ShortLists, GotoOnScript
<1>16. CASE Wake
  <2>1. Goto("sleep", AfterSetup(program), <<>>, <<>>) /\ program' = program
    BY <1>16 DEF Wake, Goto
  <2>2. pc' = AfterSetup(program) => Follows(<<>>, Script')
    BY <2>1, SetUpOnScript, FollowsAll DEF Script
  <2>3. QED
    BY <2>1, <2>2, SetUpOnScript, ShortLists, GotoOnScript
<1>17. QED
  BY <1>1, <1>2, <1>3, <1>4, <1>5, <1>6, <1>7, <1>8, <1>9, <1>10, <1>11, <1>12, <1>13, <1>14,
     <1>15, <1>16 DEF Next

(* The processor is always at a step of its program, at a rest of the list *)
(* of accesses that belongs to that step, in or outside a handler.         *)
THEOREM ProgramsFollowTheirLists == Spec => []OnScript
<1>1. Init => OnScript
  <2> SUFFICES ASSUME Init PROVE OnScript
    OBVIOUS
  <2>1. program \in Programs /\ pc = "boot" /\ todo = <<Control(7)>>
    BY DEF Init, Programs
  <2>2. Script = <<Control(7)>>
    BY <2>1 DEF Script
  <2>3. Follows(<<Control(7)>>, <<Control(7)>>)
    BY ShortLists, FollowsAll
  <2>4. MainOnScript
    BY <2>1, <2>2, <2>3 DEF MainOnScript, Programs, Places
  <2>5. handling = "none" /\ isrTodo = <<>> /\ reading = 0 /\ idle = 0
    BY DEF Init
  <2>6. HandlerOnScript
    BY <2>5 DEF HandlerOnScript
  <2>7. QED
    BY <2>4, <2>5, <2>6, PauseAssumption DEF OnScript
<1>2. OnScript /\ [Next]_vars => OnScript'
  <2> SUFFICES ASSUME OnScript, UNCHANGED vars PROVE OnScript'
    BY OnScriptStep
  <2>1. UNCHANGED <<program, pc, todo, handling, isrTodo, reading, idle>>
    BY DEF vars, softVars
  <2>2. QED
    BY <2>1, MainStays, HandlerStays DEF OnScript, Pending, InHandler
<1>3. QED
  BY <1>1, <1>2, PTL DEF Spec

(* What the main program accesses next, by the length of the rest.         *)
LEMMA BootAccess ==
  ASSUME MainOnScript, todo # <<>>, pc = "boot"
  PROVE  MainLeft = 1 /\ Head(todo) = Control(7)
<1> DEFINE n == Len(todo)  h == Head(todo)
<1>1. Script = <<Control(7)>>
  BY DEF Script
<1>2. Follows(todo, Script)
  BY DEF MainOnScript
<1>3. n \in 1 .. Len(Script) /\ h = Script[Len(Script) - n + 1]
  BY <1>2, ScriptIsList, FollowsStep
<1> HIDE DEF n, h
<1>4. n = 1 /\ h = Control(7)
  BY <1>1, <1>3
<1>5. QED
  BY <1>4 DEF n, h, MainLeft

LEMMA ResponseAccess ==
  ASSUME MainOnScript, todo # <<>>, program = "response", pc # "boot"
  PROVE  \/ pc = "test_flag" /\ MainLeft = 6 /\ Head(todo) = Control(0)
         \/ pc = "test_flag" /\ MainLeft = 5 /\ Head(todo) = Control(2)
         \/ pc = "test_flag" /\ MainLeft = 4 /\ Head(todo) = PERIODL
         \/ pc = "test_flag" /\ MainLeft = 3 /\ Head(todo) = PERIODH
         \/ pc = "test_flag" /\ MainLeft = 2 /\ Head(todo) = Control(3)
         \/ pc = "test_flag" /\ MainLeft = 1 /\ Head(todo) = Control(7)
         \/ pc = "sleep" /\ MainLeft = 1 /\ Head(todo) = Control(7)
<1> DEFINE n == Len(todo)  h == Head(todo)
<1>1. pc \in {"setup", "test_flag", "print", "clear_flag", "sleep"}
  BY DEF MainOnScript, Places
<1>2. Follows(todo, Script)
  BY <1>1 DEF MainOnScript
<1>3. n \in 1 .. Len(Script) /\ h = Script[Len(Script) - n + 1]
  BY <1>2, ScriptIsList, FollowsStep
<1> HIDE DEF n, h
<1>4. ASSUME pc \in {"setup", "print", "clear_flag"} PROVE FALSE
  <2>1. Script = <<>>
    BY <1>4 DEF Script
  <2>2. QED
    BY <1>3, <2>1
<1>5. ASSUME pc = "sleep" PROVE n = 1 /\ h = Control(7)
  <2>1. Script = <<Control(7)>>
    BY <1>5 DEF Script
  <2>2. QED
    BY <1>3, <2>1
<1>6. ASSUME pc = "test_flag"
      PROVE  \/ n = 6 /\ h = Control(0)
             \/ n = 5 /\ h = Control(2)
             \/ n = 4 /\ h = PERIODL
             \/ n = 3 /\ h = PERIODH
             \/ n = 2 /\ h = Control(3)
             \/ n = 1 /\ h = Control(7)
  <2>1. Script = <<Control(0), Control(2), PERIODL, PERIODH, Control(3), Control(7)>>
    BY <1>6, ResponseSetup DEF Script
  <2>2. QED
    BY <1>3, <2>1
<1>7. QED
  BY <1>1, <1>4, <1>5, <1>6 DEF n, h, MainLeft

LEMMA RecoveryAccess ==
  ASSUME MainOnScript, todo # <<>>, program = "recovery", pc # "boot"
  PROVE  \/ pc = "poll" /\ MainLeft = 7 /\ Head(todo) = Control(0)
         \/ pc = "poll" /\ MainLeft = 6 /\ Head(todo) = Control(2)
         \/ pc = "poll" /\ MainLeft = 5 /\ Head(todo) = PERIODL
         \/ pc = "poll" /\ MainLeft = 4 /\ Head(todo) = PERIODH
         \/ pc = "poll" /\ MainLeft = 3 /\ Head(todo) = IRZ
         \/ pc = "poll" /\ MainLeft = 2 /\ Head(todo) = Control(3)
         \/ pc = "poll" /\ MainLeft = 1 /\ Head(todo) = Control(7)
         \/ pc \in {"polled", "print"} /\ MainLeft = 1 /\ Head(todo) = ICOUNTER
         \/ pc = "sleep" /\ MainLeft = 3 /\ Head(todo) = ISTOP
         \/ pc = "sleep" /\ MainLeft = 2 /\ Head(todo) = IRZ
         \/ pc = "sleep" /\ MainLeft = 1 /\ Head(todo) = Control(7)
<1> DEFINE n == Len(todo)  h == Head(todo)
<1>1. pc \in {"setup", "poll", "polled", "print", "sleep"}
  BY DEF MainOnScript, Places
<1>2. Follows(todo, Script)
  BY <1>1 DEF MainOnScript
<1>3. n \in 1 .. Len(Script) /\ h = Script[Len(Script) - n + 1]
  BY <1>2, ScriptIsList, FollowsStep
<1> HIDE DEF n, h
<1>4. ASSUME pc = "setup" PROVE FALSE
  <2>1. Script = <<>>
    BY <1>4 DEF Script
  <2>2. QED
    BY <1>3, <2>1
<1>5. ASSUME pc = "sleep"
      PROVE  \/ n = 3 /\ h = ISTOP
             \/ n = 2 /\ h = IRZ
             \/ n = 1 /\ h = Control(7)
  <2>1. Script = <<ISTOP, IRZ, Control(7)>>
    BY <1>5 DEF Script
  <2>2. QED
    BY <1>3, <2>1
<1>6. ASSUME pc = "poll"
      PROVE  \/ n = 7 /\ h = Control(0)
             \/ n = 6 /\ h = Control(2)
             \/ n = 5 /\ h = PERIODL
             \/ n = 4 /\ h = PERIODH
             \/ n = 3 /\ h = IRZ
             \/ n = 2 /\ h = Control(3)
             \/ n = 1 /\ h = Control(7)
  <2>1. Script = <<Control(0), Control(2), PERIODL, PERIODH, IRZ, Control(3), Control(7)>>
    BY <1>6, RecoverySetup DEF Script
  <2>2. QED
    BY <1>3, <2>1
<1>7. ASSUME pc \in {"polled", "print"} PROVE n = 1 /\ h = ICOUNTER
  <2>1. Script = <<ICOUNTER>>
    BY <1>7 DEF Script
  <2>2. QED
    BY <1>3, <2>1
<1>8. QED
  BY <1>1, <1>4, <1>5, <1>6, <1>7 DEF n, h, MainLeft

LEMMA PortLoopAccess ==
  ASSUME MainOnScript, todo # <<>>, program = "port", pc # "boot"
  PROVE  /\ pc = "loop"
         /\ \/ todo = <<Raise>> /\ MainLeft = 1 /\ Head(todo) = Raise /\ Tail(todo) = <<>>
            \/ MainLeft = 2 /\ Head(todo) = IREGDIR(Lines) /\ Tail(todo) = <<IREGPORT({})>>
            \/ todo = <<IREGPORT({})>> /\ MainLeft = 1 /\ Head(todo) = IREGPORT({}) /\ Tail(todo) = <<>>
<1>1. pc \in {"setup", "loop"}
  BY DEF MainOnScript, Places
<1>2. CASE todo = <<Raise>>
  <2>1. pc # "setup"
    <3>1. pc = "setup" => Script = <<>> /\ Follows(todo, Script)
      BY DEF MainOnScript, Script
    <3>2. QED
      BY <1>2, <3>1 DEF Follows
  <2>2. QED
    BY <1>1, <1>2, <2>1 DEF MainLeft
<1>3. CASE todo # <<Raise>>
  <2>1. Follows(todo, Script)
    BY <1>3 DEF MainOnScript
  <2>2. Len(todo) \in 1 .. Len(Script)
    BY <2>1, ScriptIsList, FollowsStep
  <2>3. CASE pc = "setup"
    <3>1. Script = <<>>
      BY <2>3 DEF Script
    <3>2. QED
      BY <2>2, <3>1
  <2>4. CASE pc = "loop"
    <3> DEFINE n == Len(todo)
    <3>1. Script = <<IREGDIR(Lines), IREGPORT({})>>
      BY <2>4, PortSetup DEF Script
    <3>2. n \in {1, 2}
      <4> HIDE DEF n
      <4>1. n \in 1 .. Len(Script)
        BY <2>2 DEF n
      <4>2. QED
        BY <3>1, <4>1
    <3>3. todo = SubSeq(Script, Len(Script) - n + 1, Len(Script))
      BY <2>1, <3>2 DEF Follows, Rest
    <3>4. CASE n = 1
      <4>1. todo = <<IREGPORT({})>>
        BY <3>1, <3>3, <3>4
      <4>2. QED
        BY <2>4, <4>1 DEF MainLeft
    <3>5. CASE n = 2
      <4>1. todo = <<IREGDIR(Lines), IREGPORT({})>>
        BY <3>1, <3>3, <3>5
      <4>2. QED
        BY <2>4, <4>1 DEF MainLeft
    <3>6. QED
      BY <3>2, <3>4, <3>5
  <2>5. QED
    BY <1>1, <2>3, <2>4
<1>4. QED
  BY <1>2, <1>3

LEMMA TestAccess ==
  ASSUME MainOnScript, todo # <<>>, program = "test", pc # "boot"
  PROVE  /\ pc = "done"
         /\ \/ MainLeft = 11 /\ Head(todo) = IRZ
            \/ MainLeft \in {10, 8, 6, 5, 3, 2} /\ Head(todo) = ICOUNTER
            \/ MainLeft \in {9, 4} /\ Head(todo) = ISTART
            \/ MainLeft \in {7, 1} /\ Head(todo) = ISTOP
<1> DEFINE n == Len(todo)  h == Head(todo)
<1>1. pc = "done"
  BY DEF MainOnScript, Places
<1>2. Follows(todo, Script)
  BY <1>1 DEF MainOnScript
<1>3. n \in 1 .. Len(Script) /\ h = Script[Len(Script) - n + 1]
  BY <1>2, ScriptIsList, FollowsStep
<1> HIDE DEF n, h
<1>4. Script = <<IRZ, ICOUNTER, ISTART, ICOUNTER, ISTOP, ICOUNTER, ICOUNTER,
                 ISTART, ICOUNTER, ICOUNTER, ISTOP>>
  BY <1>1, TestSetup DEF Script
<1>5. \/ n = 11 /\ h = IRZ
      \/ n \in {10, 8, 6, 5, 3, 2} /\ h = ICOUNTER
      \/ n \in {9, 4} /\ h = ISTART
      \/ n \in {7, 1} /\ h = ISTOP
  BY <1>3, <1>4
<1>6. QED
  BY <1>1, <1>5 DEF n, h, MainLeft

LEMMA TestPortAccess ==
  ASSUME MainOnScript, todo # <<>>, program = "test_port", pc # "boot"
  PROVE  /\ pc = "done"
         /\ \/ MainLeft = 8 /\ Head(todo) = IREGDIR(Lines)
            \/ MainLeft \in {7, 3} /\ Head(todo) = ReadPort(1)
            \/ MainLeft \in {6, 2} /\ Head(todo) = ReadPort(2)
            \/ MainLeft \in {5, 1} /\ Head(todo) = ReadPort(0)
            \/ MainLeft = 4 /\ Head(todo) = IREGPORT(OddLines)
<1> DEFINE n == Len(todo)  h == Head(todo)
<1>1. pc = "done"
  BY DEF MainOnScript, Places
<1>2. Follows(todo, Script)
  BY <1>1 DEF MainOnScript
<1>3. n \in 1 .. Len(Script) /\ h = Script[Len(Script) - n + 1]
  BY <1>2, ScriptIsList, FollowsStep
<1> HIDE DEF n, h
<1>4. Script = <<IREGDIR(Lines), ReadPort(1), ReadPort(2), ReadPort(0),
                 IREGPORT(OddLines), ReadPort(1), ReadPort(2), ReadPort(0)>>
  BY <1>1, TestPortSetup DEF Script
<1>5. \/ n = 8 /\ h = IREGDIR(Lines)
      \/ n \in {7, 3} /\ h = ReadPort(1)
      \/ n \in {6, 2} /\ h = ReadPort(2)
      \/ n \in {5, 1} /\ h = ReadPort(0)
      \/ n = 4 /\ h = IREGPORT(OddLines)
  BY <1>3, <1>4
<1>6. QED
  BY <1>1, <1>5 DEF n, h, MainLeft

(* The same for the handlers.                                              *)
LEMMA HandlerAccess ==
  ASSUME HandlerOnScript, isrTodo # <<>>
  PROVE  /\ Isr(handling) = "response" =>
              \/ IsrLeft = 5 /\ Head(isrTodo) = TakeSnapshot
              \/ IsrLeft = 4 /\ Head(isrTodo) = ReadSnapshot(4)
              \/ IsrLeft = 3 /\ Head(isrTodo) = ReadSnapshot(5)
              \/ IsrLeft = 2 /\ Head(isrTodo) = Control(0)
              \/ IsrLeft = 1 /\ Head(isrTodo) = ClearStatus
         /\ Isr(handling) = "recovery" =>
              \/ IsrLeft = 3 /\ Head(isrTodo) = Control(0)
              \/ IsrLeft = 2 /\ Head(isrTodo) = ClearStatus
              \/ IsrLeft = 1 /\ Head(isrTodo) = ISTART
         /\ Isr(handling) = "tick" =>
              \/ IsrLeft = 2 /\ Head(isrTodo) = ClearStatus
              \/ IsrLeft = 1 /\ Head(isrTodo) = Timer(ReadFrom(1))
         /\ Isr(handling) = "port" => Head(isrTodo) = IREGPORT({})
<1> DEFINE script == Handler(Isr(handling))  n == Len(isrTodo)  h == Head(isrTodo)
<1>1. Follows(isrTodo, script) /\ script \in Seq(Access)
  BY HandlerIsList, IsrIsKnown, HandlerStep DEF HandlerOnScript
<1>2. n \in 1 .. Len(script) /\ h = script[Len(script) - n + 1]
  BY <1>1, FollowsStep
<1> HIDE DEF n, h
<1>3. ASSUME Isr(handling) = "response"
      PROVE  \/ n = 5 /\ h = TakeSnapshot
             \/ n = 4 /\ h = ReadSnapshot(4)
             \/ n = 3 /\ h = ReadSnapshot(5)
             \/ n = 2 /\ h = Control(0)
             \/ n = 1 /\ h = ClearStatus
  <2>1. script = <<TakeSnapshot, ReadSnapshot(4), ReadSnapshot(5), Control(0), ClearStatus>>
    BY <1>3, Handlers
  <2>2. QED
    BY <1>2, <2>1
<1>4. ASSUME Isr(handling) = "recovery"
      PROVE  \/ n = 3 /\ h = Control(0)
             \/ n = 2 /\ h = ClearStatus
             \/ n = 1 /\ h = ISTART
  <2>1. script = <<Control(0), ClearStatus, ISTART>>
    BY <1>4, Handlers
  <2>2. QED
    BY <1>2, <2>1
<1>5. ASSUME Isr(handling) = "tick"
      PROVE  \/ n = 2 /\ h = ClearStatus
             \/ n = 1 /\ h = Timer(ReadFrom(1))
  <2>1. script = <<ClearStatus, Timer(ReadFrom(1))>>
    BY <1>5, Handlers
  <2>2. QED
    BY <1>2, <2>1
<1>6. ASSUME Isr(handling) = "port" PROVE h = IREGPORT({})
  <2>1. script = <<IREGPORT({})>>
    BY <1>6, Handlers
  <2>2. QED
    BY <1>2, <2>1
<1>7. QED
  BY <1>3, <1>4, <1>5, <1>6 DEF n, h, IsrLeft


-----------------------------------------------------------------------------
(* The timer under the accesses of the programs.                           *)

(* What every edge does, but for the writes below.                         *)
RunsOn ==
  counter_is_running' =
    IF force_reload = 1 \/ (internal_counter = 0 /\ ~control_continuous) THEN 0
    ELSE counter_is_running
RunsOut == timeout_occurred' = IF timeout_event THEN 1 ELSE timeout_occurred

LEMMA QuietEdge ==
  ASSUME NEW bus, Edges(bus), bus.slave # "timer"
  PROVE  /\ CountDown /\ RunsOn /\ RunsOut /\ force_reload' = 0
         /\ UNCHANGED <<control_register, period_l_register, period_h_register,
                        counter_snapshot, readdata, response>>
BY DEF Edges, TimerEdge, RunOrStop, Timeout, TimerRegisters, TimerRead, start_strobe, stop_strobe,
       Writes, Reads, NoAccess, RunsOn, RunsOut, counter_is_zero

LEMMA ControlEdge ==
  ASSUME NEW d \in {0, 2, 3, 7}, Edges(Control(d))
  PROVE  /\ CountDown /\ RunsOut /\ force_reload' = 0
         /\ control_register' = d
         /\ IF d = 7 THEN counter_is_running' = 1 ELSE RunsOn
         /\ UNCHANGED <<period_l_register, period_h_register, counter_snapshot, readdata, response>>
<1>1. TimerEdge(WriteTo(1, d)) /\ response' = response
  BY DEF Edges, Control, Timer, WriteTo, TakeSnapshot
<1>2. d % 16 = d /\ ((d \div 4) % 2 = 1 <=> d = 7) /\ (d \div 8) % 2 = 0
  <2>1. d = 0 \/ d = 2 \/ d = 3 \/ d = 7
    OBVIOUS
  <2>2. QED
    BY <2>1
<1>3. (start_strobe(WriteTo(1, d)) <=> d = 7) /\ ~stop_strobe(WriteTo(1, d))
  BY <1>2 DEF start_strobe, stop_strobe, Writes, WriteTo
<1>4. CountDown /\ RunsOut /\ force_reload' = 0
  BY <1>1 DEF TimerEdge, Timeout, TimerRegisters, Writes, WriteTo, RunsOut
<1>5. IF d = 7 THEN counter_is_running' = 1 ELSE RunsOn
  <2>1. RunOrStop(WriteTo(1, d))
    BY <1>1 DEF TimerEdge
  <2>2. QED
    BY <1>3, <2>1 DEF RunOrStop, RunsOn, counter_is_zero
<1>6. /\ control_register' = d
      /\ UNCHANGED <<period_l_register, period_h_register, counter_snapshot, readdata>>
  BY <1>1, <1>2 DEF TimerEdge, TimerRegisters, TimerRead, Writes, Reads, WriteTo
<1>7. QED
  BY <1>1, <1>4, <1>5, <1>6

LEMMA ClearEdge ==
  ASSUME Edges(ClearStatus)
  PROVE  /\ CountDown /\ RunsOn /\ force_reload' = 0 /\ timeout_occurred' = 0
         /\ UNCHANGED <<control_register, period_l_register, period_h_register,
                        counter_snapshot, readdata, response>>
<1>1. TimerEdge(WriteTo(0, 0)) /\ response' = response
  BY DEF Edges, ClearStatus, Timer, WriteTo, TakeSnapshot
<1>2. QED
  BY <1>1 DEF TimerEdge, RunOrStop, Timeout, TimerRegisters, TimerRead, start_strobe, stop_strobe,
              Writes, Reads, WriteTo, RunsOn, counter_is_zero

LEMMA PeriodEdge ==
  ASSUME NEW bus \in {PERIODL, PERIODH}, Edges(bus)
  PROVE  /\ CountDown /\ RunsOn /\ RunsOut /\ force_reload' = 1
         /\ period_l_register' = IF bus = PERIODL THEN HalfSpan - 1 ELSE period_l_register
         /\ period_h_register' = IF bus = PERIODH THEN PeriodHigh ELSE period_h_register
         /\ UNCHANGED <<control_register, counter_snapshot, readdata, response>>
<1>1. CASE bus = PERIODL
  <2>1. TimerEdge(WriteTo(2, HalfSpan - 1)) /\ response' = response /\ PERIODL # PERIODH
    BY <1>1 DEF Edges, PERIODL, PERIODH, Timer, WriteTo, TakeSnapshot
  <2>2. QED
    BY <1>1, <2>1 DEF TimerEdge, RunOrStop, Timeout, TimerRegisters, TimerRead, start_strobe,
            stop_strobe, Writes, Reads, WriteTo, RunsOn, RunsOut, counter_is_zero
<1>2. CASE bus = PERIODH
  <2>1. TimerEdge(WriteTo(3, PeriodHigh)) /\ response' = response /\ PERIODL # PERIODH
    BY <1>2 DEF Edges, PERIODL, PERIODH, Timer, WriteTo, TakeSnapshot
  <2>2. QED
    BY <1>2, <2>1 DEF TimerEdge, RunOrStop, Timeout, TimerRegisters, TimerRead, start_strobe,
            stop_strobe, Writes, Reads, WriteTo, RunsOn, RunsOut, counter_is_zero
<1>3. QED
  BY <1>1, <1>2

LEMMA SnapshotEdge ==
  ASSUME Edges(TakeSnapshot)
  PROVE  /\ CountDown /\ RunsOn /\ RunsOut /\ force_reload' = 0
         /\ counter_snapshot' = internal_counter /\ response' = sinceIrq
         /\ UNCHANGED <<control_register, period_l_register, period_h_register>>
<1>1. TimerEdge(WriteTo(4, ARBITVAL)) /\ response' = sinceIrq
  BY DEF Edges, Timer, WriteTo, TakeSnapshot
<1>2. QED
  BY <1>1 DEF TimerEdge, RunOrStop, Timeout, TimerRegisters, TimerRead, start_strobe, stop_strobe,
              Writes, Reads, WriteTo, RunsOn, RunsOut, counter_is_zero

LEMMA ReadEdge ==
  ASSUME NEW a \in 0 .. 7, Edges(Timer(ReadFrom(a)))
  PROVE  /\ CountDown /\ RunsOn /\ RunsOut /\ force_reload' = 0
         /\ a = 4 => readdata' = counter_snapshot % HalfSpan
         /\ UNCHANGED <<control_register, period_l_register, period_h_register,
                        counter_snapshot, response>>
<1>1. TimerEdge(ReadFrom(a)) /\ response' = response
  BY DEF Edges, Timer, WriteTo, ReadFrom, TakeSnapshot
<1>2. QED
  BY <1>1 DEF TimerEdge, RunOrStop, Timeout, TimerRegisters, TimerRead, start_strobe, stop_strobe,
              Writes, Reads, ReadFrom, RunsOn, RunsOut, counter_is_zero

(* The three flags are bits, what the histories hold are numbers.          *)
TimerBits ==
  /\ counter_is_running \in {0, 1} /\ timeout_occurred \in {0, 1} /\ force_reload \in {0, 1}
  /\ sinceIrq \in Nat /\ response \in Nat

LEMMA TimerBitsStep ==
  ASSUME TimerBits, NEW bus, Edges(bus)
  PROVE  TimerBits'
BY HalfSpanAssumption DEF TimerBits, Edges, TimerEdge, RunOrStop, Timeout, TimerRegisters

(* Every step is an edge under no access or under the one that is pending. *)
LEMMA StepIsEdge ==
  ASSUME OnScript, Next
  PROVE  \E bus : Edges(bus) /\ (bus = Nowhere \/ (Pending # <<>> /\ bus = Head(Pending)))
<1>1. CASE Compute \/ Write \/ BeginRead \/ EndRead \/ Interrupt \/ Return
  BY <1>1 DEF Compute, Write, BeginRead, EndRead, Interrupt, Return, MayAccess, OnScript
<1>2. CASE ~(Compute \/ Write \/ BeginRead \/ EndRead \/ Interrupt \/ Return)
  BY <1>2 DEF Next, Register, SetUp, Loop, TestFlag, PrintResponse, ClearFlag, Poll, Polled,
              PrintRecovery, Wake, Goto
<1>3. QED
  BY <1>1, <1>2

(* The program that main has selected stays.                               *)
LEMMA SameProgram ==
  ASSUME [Next]_vars
  PROVE  program' = program
BY DEF Next, Compute, Write, BeginRead, EndRead, Interrupt, Return, Register, SetUp, Loop,
       TestFlag, PrintResponse, ClearFlag, Poll, Polled, PrintRecovery, Wake, Goto, vars, softVars

(* An empty list is one without length.                                    *)
LEMMA EmptyLists ==
  ASSUME OnScript
  PROVE  /\ MainLeft \in Nat /\ IsrLeft \in Nat
         /\ todo = <<>> <=> MainLeft = 0
         /\ isrTodo = <<>> <=> IsrLeft = 0
<1>1. (todo = <<>> => MainLeft = 0) /\ (isrTodo = <<>> => IsrLeft = 0)
  BY DEF MainLeft, IsrLeft
<1>2. todo # <<>> => MainLeft \in Nat \ {0}
  BY MainStep DEF OnScript
<1>3. isrTodo # <<>> => IsrLeft \in Nat \ {0}
  BY HandlerStep DEF OnScript
<1>4. QED
  BY <1>1, <1>2, <1>3

-----------------------------------------------------------------------------
(* The timer's irq on its way to the processor.                            *)

(* The accesses left when the timer's handler has taken the irq down.      *)
Withdrawn == IF Isr("timer") = "recovery" THEN 2 ELSE 1

(* What is seen is what is or is late, within its bound.  An irq that the  *)
(* handler has taken down is seen up for a while, but not at its return.   *)
LagInv ==
  /\ timerSeen \in {0, 1} /\ timerLag \in 0 .. Crossing
  /\ timerLag = 0 <=> (timerSeen = 1 <=> irq)

Stale ==
  /\ handling = "timer" /\ IsrLeft <= Withdrawn
  /\ IsrLeft = Withdrawn => timerLag >= idle + 1
  /\ IsrLeft < Withdrawn \/ reading = 1 => timerLag >= Gap + 2

SeenInv ==
  /\ TimerBits /\ LagInv
  /\ early => TakesTimer
  /\ SettingUp /\ timeout_occurred = 1 => early
  /\ handling = "timer" /\ Isr("timer") # "tick" /\ IsrLeft <= Withdrawn => control_register = 0
  /\ ~early /\ timerSeen = 1 /\ ~irq => Stale

LEMMA LagStep ==
  ASSUME LagInv, NEW bus, Edges(bus)
  PROVE  /\ LagInv'
         /\ timerSeen = 0 /\ ~irq => timerSeen' = 0
         /\ timerSeen = 0 /\ irq /\ irq' /\ timerSeen' = 0 => timerLag' = timerLag + 1
         /\ timerSeen = 0 /\ ~irq /\ irq' => timerLag' = 1
         /\ irq /\ ~irq' /\ timerSeen' = 1 => timerLag' = 1
         /\ ~irq /\ ~irq' /\ timerSeen' = 1 => timerSeen = 1 /\ timerLag' = timerLag + 1
         /\ timerSeen = 1 /\ irq => timerSeen' = 1
<1> DEFINE up == irq
<1>1. /\ timerSeen' \in {timerSeen, IF up THEN 1 ELSE 0}
      /\ timerLag' = IF (timerSeen' = 1) <=> up' THEN 0
                     ELSE IF timerSeen' = timerSeen THEN timerLag + 1 ELSE 1
      /\ timerLag' <= Crossing
  BY DEF Edges, Crosses
<1>2. /\ timerSeen \in {0, 1} /\ timerLag \in 0 .. Crossing
      /\ timerLag = 0 <=> (timerSeen = 1 <=> up)
  BY DEF LagInv
<1> HIDE DEF up
<1>3. Crossing \in Nat
  BY CrossingAssumption, PauseAssumption
<1>4. timerSeen' \in {0, 1}
  BY <1>1, <1>2
<1>5. timerLag' \in 0 .. Crossing /\ (timerLag' = 0 <=> (timerSeen' = 1 <=> up'))
  BY <1>1, <1>2, <1>3
<1>6. /\ timerSeen = 0 /\ ~up => timerSeen' = 0
      /\ timerSeen = 0 /\ up /\ up' /\ timerSeen' = 0 => timerLag' = timerLag + 1
      /\ timerSeen = 0 /\ ~up /\ up' => timerLag' = 1
      /\ up /\ ~up' /\ timerSeen' = 1 => timerLag' = 1
      /\ ~up /\ ~up' /\ timerSeen' = 1 => timerSeen = 1 /\ timerLag' = timerLag + 1
      /\ timerSeen = 1 /\ up => timerSeen' = 1
  BY <1>1, <1>2, <1>3
<1>7. QED
  BY <1>4, <1>5, <1>6 DEF up, LagInv

(* Most accesses leave the irq up.                                         *)
LEMMA StaysUp ==
  ASSUME irq, NEW bus, Edges(bus),
         \/ bus.slave # "timer"
         \/ bus \in {TakeSnapshot, ReadSnapshot(4), ReadSnapshot(5), Timer(ReadFrom(1)),
                     PERIODL, PERIODH, Control(3), Control(7)}
  PROVE  irq'
<1>1. SUFFICES RunsOut /\ (control_register' = control_register \/ control_register' \in {3, 7})
  BY DEF irq, interrupt_enable, RunsOut
<1>2. CASE bus.slave # "timer"
  BY <1>2, QuietEdge
<1>3. CASE bus = TakeSnapshot
  <2>1. Edges(TakeSnapshot)
    BY <1>3
  <2>2. QED
    BY <2>1, SnapshotEdge
<1>4. CASE bus \in {ReadSnapshot(4), ReadSnapshot(5), Timer(ReadFrom(1))}
  <2>1. PICK a \in {1, 4, 5} : bus = Timer(ReadFrom(a))
    BY <1>4 DEF ReadSnapshot
  <2>2. a \in 0 .. 7 /\ Edges(Timer(ReadFrom(a)))
    BY <2>1
  <2>3. QED
    BY <2>2, ReadEdge
<1>5. CASE bus \in {PERIODL, PERIODH}
  BY <1>5, PeriodEdge
<1>6. CASE bus \in {Control(3), Control(7)}
  <2>1. PICK d \in {3, 7} : bus = Control(d)
    BY <1>6
  <2>2. d \in {0, 2, 3, 7} /\ Edges(Control(d))
    BY <2>1
  <2>3. QED
    BY <2>2, ControlEdge
<1>7. QED
  BY <1>2, <1>3, <1>4, <1>5, <1>6

(* While the response timer is set up.                                     *)
LEMMA ResponseSettingUp ==
  ASSUME program = "response"
  PROVE  SettingUp <=> (pc = "setup" \/ (pc = "test_flag" /\ todo # <<>>))
BY AfterSetups DEF SettingUp, TakesTimer

LEMMA NextSettingUp ==
  ASSUME program' = "response"
  PROVE  SettingUp' <=> (pc' = "setup" \/ (pc' = "test_flag" /\ todo' # <<>>))
BY AfterSetups DEF SettingUp, TakesTimer

(* Only an access of the timer's handler takes the irq down, the one that  *)
(* leaves as many as Withdrawn says; but the setup does so when the clock  *)
(* has run out.                                                            *)
LEMMA MainKeepsIrq ==
  ASSUME OnScript, SeenInv, ~early, irq, handling = "none", todo # <<>>, Edges(Head(todo))
  PROVE  irq'
<1>1. MainOnScript /\ program \in Programs
  BY DEF OnScript, MainOnScript
<1>2. ~SettingUp
  BY DEF SeenInv, irq
<1>3. CASE pc = "boot"
  BY <1>1, <1>3, BootAccess, StaysUp
<1>4. CASE pc # "boot" /\ program = "response"
  <2>1. pc # "test_flag"
    BY <1>2, <1>4, ResponseSettingUp
  <2>2. Head(todo) = Control(7)
    BY <1>1, <1>4, <2>1, ResponseAccess
  <2>3. QED
    BY <2>2, StaysUp
<1>5. CASE pc # "boot" /\ program = "recovery"
  <2>1. pc # "poll"
    BY <1>2, <1>5, AfterSetups DEF SettingUp, TakesTimer
  <2>2. Head(todo) \in {ICOUNTER, ISTOP, IRZ, Control(7)}
    BY <1>1, <1>5, <2>1, RecoveryAccess
  <2>3. Head(todo) = Control(7) \/ Head(todo).slave # "timer"
    BY <2>2 DEF ICOUNTER, ISTOP, IRZ, InterruptCounter
  <2>4. QED
    BY <2>3, StaysUp
<1>6. CASE pc # "boot" /\ program \in {"port", "test", "test_port"}
  <2>1. Head(todo) \in {Raise, IREGDIR(Lines), IREGPORT({}), IREGPORT(OddLines), ICOUNTER, IRZ,
                        ISTART, ISTOP, ReadPort(0), ReadPort(1), ReadPort(2)}
    BY <1>1, <1>6, PortLoopAccess, TestAccess, TestPortAccess
  <2>2. Head(todo).slave # "timer"
    BY <2>1 DEF Raise, IREGDIR, IREGPORT, ReadPort, Port, ICOUNTER, IRZ, ISTART, ISTOP, InterruptCounter
  <2>3. QED
    BY <2>2, StaysUp
<1>7. QED
  BY <1>1, <1>3, <1>4, <1>5, <1>6 DEF Programs

LEMMA HandlerFellsIrq ==
  ASSUME OnScript, SeenInv, irq, ~irq', handling # "none", isrTodo # <<>>, Edges(Head(isrTodo))
  PROVE  /\ handling = "timer" /\ IsrLeft = Withdrawn + 1 /\ Head(isrTodo).acc.kind = "write"
<1>1. HandlerOnScript /\ Isr(handling) \in {"response", "recovery", "port", "tick"}
  BY IsrIsKnown DEF OnScript
<1>2. handling \in {"timer", "port"} /\ (Isr(handling) # "port" => handling = "timer")
  BY <1>1 DEF HandlerOnScript, Isr
<1>3. control_register # 0
  BY DEF irq, interrupt_enable
<1>4. CASE Isr(handling) = "response"
  <2>1. Withdrawn = 1
    BY <1>2, <1>4 DEF Withdrawn
  <2>2. Head(isrTodo) # ClearStatus \/ IsrLeft # 1
    BY <1>2, <1>3, <1>4, <2>1 DEF SeenInv
  <2>3. IsrLeft = 2 /\ Head(isrTodo) = Control(0)
    BY <1>1, <1>4, <2>2, HandlerAccess, StaysUp
  <2>4. QED
    BY <1>2, <1>4, <2>1, <2>3 DEF Control, Timer, WriteTo
<1>5. CASE Isr(handling) = "recovery"
  <2>1. Withdrawn = 2
    BY <1>2, <1>5 DEF Withdrawn
  <2>2. Head(isrTodo) # ClearStatus \/ IsrLeft # 2
    BY <1>2, <1>3, <1>5, <2>1 DEF SeenInv
  <2>3. ISTART.slave # "timer"
    BY DEF ISTART, InterruptCounter
  <2>4. IsrLeft = 3 /\ Head(isrTodo) = Control(0)
    BY <1>1, <1>5, <2>2, <2>3, HandlerAccess, StaysUp
  <2>5. QED
    BY <1>2, <1>5, <2>1, <2>4 DEF Control, Timer, WriteTo
<1>6. CASE Isr(handling) = "tick"
  <2>1. Withdrawn = 1
    BY <1>2, <1>6 DEF Withdrawn
  <2>2. IsrLeft = 2 /\ Head(isrTodo) = ClearStatus
    BY <1>1, <1>6, HandlerAccess, StaysUp
  <2>3. QED
    BY <1>2, <1>6, <2>1, <2>2 DEF ClearStatus, Timer, WriteTo
<1>7. CASE Isr(handling) = "port"
  <2>1. Head(isrTodo).slave # "timer"
    BY <1>1, <1>7, HandlerAccess DEF IREGPORT, Port
  <2>2. QED
    BY <2>1, StaysUp
<1>8. QED
  BY <1>1, <1>4, <1>5, <1>6, <1>7

LEMMA IrqFalls ==
  ASSUME OnScript, SeenInv, Next, irq, ~irq', ~early
  PROVE  /\ Write /\ handling = "timer" /\ UNCHANGED <<program, pc, handling>>
         /\ IsrLeft' = Withdrawn /\ reading' = 0 /\ idle' = 0
<1>1. Write \/ BeginRead \/ EndRead
  <2>1. CASE ~(Write \/ BeginRead \/ EndRead)
    <3>1. Edges(Nowhere)
      BY <2>1 DEF Next, Compute, Interrupt, Return, Register, SetUp, Loop, TestFlag, PrintResponse,
                  ClearFlag, Poll, Polled, PrintRecovery, Wake, Goto
    <3>2. QED
      BY <3>1, StaysUp DEF Nowhere
  <2>2. QED
    BY <2>1
<1>2. Pending # <<>> /\ Edges(Head(Pending)) /\ UNCHANGED <<program, pc, handling>>
  BY <1>1 DEF Write, BeginRead, EndRead, MayAccess, OnScript
<1>3. InHandler
  BY <1>2, MainKeepsIrq DEF InHandler, Pending
<1>4. isrTodo # <<>> /\ Edges(Head(isrTodo)) /\ handling # "none" /\ Pending = isrTodo
  BY <1>2, <1>3 DEF InHandler, Pending
<1>5. handling = "timer" /\ IsrLeft = Withdrawn + 1 /\ Head(isrTodo).acc.kind = "write"
  BY <1>4, HandlerFellsIrq
<1>6. Write
  BY <1>1, <1>4, <1>5 DEF BeginRead, EndRead, OnScript
<1>7. isrTodo' = Tail(isrTodo) /\ reading' = 0 /\ idle' = 0
  BY <1>3, <1>6 DEF Write, MayAccess, Done
<1>8. IsrLeft' = IsrLeft - 1
  BY <1>4, <1>7, HandlerStep DEF OnScript
<1>9. QED
  BY <1>2, <1>5, <1>6, <1>7, <1>8 DEF Withdrawn

(* A handler has no more accesses left than it had.                        *)
LEMMA HandlerShrinks ==
  ASSUME OnScript, Next, handling = "timer", handling' = "timer"
  PROVE  /\ UNCHANGED <<program, pc, todo>> /\ Withdrawn' = Withdrawn
         /\ Compute \/ Write \/ BeginRead \/ EndRead
         /\ IsrLeft \in Nat /\ IsrLeft' \in Nat
         /\ IF Write \/ EndRead THEN IsrLeft' = IsrLeft - 1 ELSE IsrLeft' = IsrLeft
<1>1. Compute \/ Write \/ BeginRead \/ EndRead
  BY DEF Next, Interrupt, InHandler, Return, Register, SetUp, Loop, TestFlag, PrintResponse,
         ClearFlag, Poll, Polled, PrintRecovery, Wake, Goto, At, MainRuns
<1>2. UNCHANGED <<program, pc, todo>>
  BY <1>1 DEF Compute, Write, BeginRead, EndRead, Done, InHandler
<1>3. Withdrawn' = Withdrawn
  BY <1>2 DEF Withdrawn, Isr, TakesTimer, Registered
<1>4. IsrLeft \in Nat
  BY EmptyLists
<1>5. CASE Write \/ EndRead
  <2>1. isrTodo' = Tail(isrTodo) /\ isrTodo # <<>>
    BY <1>5 DEF Write, EndRead, MayAccess, Done, InHandler, Pending, OnScript
  <2>2. IsrLeft' = IsrLeft - 1 /\ IsrLeft \in Nat \ {0}
    BY <2>1, HandlerStep DEF OnScript
  <2>3. QED
    BY <1>1, <1>2, <1>3, <1>5, <2>2
<1>6. CASE ~(Write \/ EndRead)
  <2>1. isrTodo' = isrTodo
    BY <1>1, <1>6 DEF Compute, BeginRead
  <2>2. IsrLeft' = IsrLeft
    BY <2>1 DEF IsrLeft
  <2>3. QED
    BY <1>1, <1>2, <1>3, <1>4, <1>6, <2>2
<1>7. QED
  BY <1>5, <1>6

(* The handlers of the two measurements leave the interrupt disabled.      *)
LEMMA DisabledStep ==
  ASSUME OnScript, SeenInv, Next, (handling = "timer" /\ Isr("timer") # "tick")',
         IsrLeft' <= Withdrawn'
  PROVE  control_register' = 0
<1>1. CASE Interrupt
  <2>1. isrTodo' = Handler(Isr("timer")) /\ Isr("timer")' = Isr("timer") /\ Withdrawn' = Withdrawn
    BY <1>1 DEF Interrupt, Isr, TakesTimer, Registered, Withdrawn
  <2>2. Isr("timer") \in {"response", "recovery"}
    <3>1. Isr("timer") \in {"response", "recovery", "tick"}
      BY DEF Isr, TakesTimer
    <3>2. QED
      BY <2>1, <3>1
  <2>3. \/ IsrLeft' = 5 /\ Withdrawn = 1
        \/ IsrLeft' = 3 /\ Withdrawn = 2
    BY <2>1, <2>2, Handlers DEF IsrLeft, Withdrawn
  <2>4. QED
    BY <2>1, <2>3
<1>2. CASE ~Interrupt
  <2>1. handling = "timer"
    BY <1>2 DEF Next, Compute, Write, BeginRead, EndRead, Return, Register, SetUp, Loop, TestFlag,
                PrintResponse, ClearFlag, Poll, Polled, PrintRecovery, Wake, Goto
  <2>2. /\ UNCHANGED <<program, pc>> /\ Withdrawn' = Withdrawn
        /\ Compute \/ Write \/ BeginRead \/ EndRead
        /\ IsrLeft \in Nat /\ IsrLeft' \in Nat
        /\ IF Write \/ EndRead THEN IsrLeft' = IsrLeft - 1 ELSE IsrLeft' = IsrLeft
    BY <2>1, HandlerShrinks
  <2>3. Isr("timer") # "tick" /\ Isr(handling) = Isr("timer")
    BY <2>1, <2>2 DEF Isr, TakesTimer, Registered
  <2>4. CASE Compute
    <3>1. control_register' = control_register
      BY <2>4, QuietEdge DEF Compute, Nowhere
    <3>2. IsrLeft' = IsrLeft
      BY <2>4 DEF Compute, IsrLeft
    <3>3. QED
      BY <2>1, <2>2, <2>3, <3>1, <3>2 DEF SeenInv
  <2>5. CASE ~Compute
    <3>1. isrTodo # <<>> /\ Edges(Head(isrTodo)) /\ IsrLeft \in Nat \ {0}
      BY <2>1, <2>2, <2>5, HandlerStep DEF Write, BeginRead, EndRead, MayAccess, Pending, InHandler, OnScript
    <3>2. CASE Head(isrTodo) = Control(0)
      BY <3>1, <3>2, ControlEdge
    <3>3. CASE Head(isrTodo) # Control(0)
      <4>1. IsrLeft <= Withdrawn /\ (Head(isrTodo) = ClearStatus \/ Head(isrTodo) = ISTART)
        <5>1. CASE Isr(handling) = "response"
          <6>1. Withdrawn = 1
            BY <2>3, <5>1 DEF Withdrawn
          <6>2. QED
            BY <2>2, <3>1, <3>3, <5>1, <6>1, HandlerAccess DEF OnScript
        <5>2. CASE Isr(handling) = "recovery"
          <6>1. Withdrawn = 2
            BY <2>3, <5>2 DEF Withdrawn
          <6>2. QED
            BY <2>2, <3>1, <3>3, <5>2, <6>1, HandlerAccess DEF OnScript
        <5>3. QED
          BY <2>1, <2>3, <5>1, <5>2 DEF Isr, TakesTimer
      <4>2. control_register = 0
        BY <2>1, <2>3, <4>1 DEF SeenInv
      <4>3. control_register' = control_register
        <5>1. CASE Head(isrTodo) = ClearStatus
          BY <3>1, <5>1, ClearEdge
        <5>2. CASE Head(isrTodo) = ISTART
          BY <3>1, <5>2, QuietEdge DEF ISTART, InterruptCounter
        <5>3. QED
          BY <4>1, <5>1, <5>2
      <4>4. QED
        BY <4>2, <4>3
    <3>4. QED
      BY <3>2, <3>3
  <2>6. QED
    BY <2>4, <2>5
<1>3. QED
  BY <1>1, <1>2

(* What the handler still does is longer than the crossing of the irq.     *)
LEMMA StaleStep ==
  ASSUME OnScript, SeenInv, Next, LagInv', ~early, ~irq, ~irq', timerSeen = 1,
         timerLag' = timerLag + 1
  PROVE  Stale'
<1>1. Stale /\ reading \in {0, 1} /\ idle \in 0 .. Pause
  BY DEF SeenInv, OnScript
<1>2. Gap \in Nat \ {0} /\ Crossing <= Gap + 2 /\ Crossing \in Nat
  BY CrossingAssumption, PauseAssumption
<1>3. timerLag + 1 <= Crossing /\ timerLag \in Nat
  BY <1>2 DEF SeenInv, LagInv
<1>4. /\ handling = "timer" /\ IsrLeft = Withdrawn /\ reading = 0 /\ timerLag >= idle + 1
      /\ Withdrawn \in {1, 2}
  <2>1. handling = "timer" /\ IsrLeft <= Withdrawn /\ IsrLeft \in Nat /\ Withdrawn \in {1, 2}
    BY <1>1, EmptyLists DEF Stale, Withdrawn
  <2>2. ~(timerLag >= Gap + 2)
    BY <1>2, <1>3
  <2>3. ~(IsrLeft < Withdrawn) /\ reading # 1
    BY <1>1, <2>2 DEF Stale
  <2>4. IsrLeft = Withdrawn
    BY <2>1, <2>3
  <2>5. QED
    BY <1>1, <2>1, <2>3, <2>4 DEF Stale
<1>5. handling' = "timer"
  <2>1. isrTodo # <<>>
    BY <1>4, EmptyLists
  <2>2. QED
    BY <1>4, <2>1 DEF Next, Compute, Write, BeginRead, EndRead, Interrupt, InHandler, Return, Register,
           SetUp, Loop, TestFlag, PrintResponse, ClearFlag, Poll, Polled, PrintRecovery, Wake, Goto,
           At, MainRuns
<1>6. /\ Withdrawn' = Withdrawn /\ IsrLeft \in Nat /\ IsrLeft' \in Nat
      /\ Compute \/ Write \/ BeginRead \/ EndRead
      /\ IF Write \/ EndRead THEN IsrLeft' = IsrLeft - 1 ELSE IsrLeft' = IsrLeft
  BY <1>4, <1>5, HandlerShrinks
<1>7. CASE Compute
  <2>1. reading' = 0 /\ idle' \in {idle, idle + 1} /\ IsrLeft' = IsrLeft
    BY <1>4, <1>7 DEF Compute, IsrLeft
  <2>2. timerLag' >= idle' + 1
    <3>1. idle \in Int /\ timerLag \in Int /\ timerLag >= idle + 1 /\ timerLag' = timerLag + 1
      BY <1>1, <1>3, <1>4
    <3>2. idle' = idle \/ idle' = idle + 1
      BY <2>1
    <3>3. QED
      BY <3>1, <3>2
  <2>3. IsrLeft' = Withdrawn' /\ ~(IsrLeft' < Withdrawn') /\ IsrLeft' <= Withdrawn'
    BY <1>4, <1>6, <2>1
  <2>4. QED
    BY <1>5, <2>1, <2>2, <2>3 DEF Stale
<1>8. CASE Write \/ BeginRead
  <2>1. idle >= Gap /\ idle' = 0
    BY <1>8 DEF Write, BeginRead, MayAccess
  <2>2. timerLag' >= Gap + 2
    BY <1>1, <1>2, <1>3, <1>4, <2>1
  <2>3. IsrLeft' <= IsrLeft
    BY <1>6
  <2>4. QED
    BY <1>2, <1>3, <1>4, <1>5, <1>6, <2>1, <2>2, <2>3 DEF Stale
<1>9. ~EndRead
  BY <1>4 DEF EndRead
<1>10. QED
  BY <1>6, <1>7, <1>8, <1>9

LEMMA SeenInvStep ==
  ASSUME OnScript, SeenInv, [Next]_vars
  PROVE  SeenInv'
<1>1. CASE Next
  <2>1. PICK bus : Edges(bus)
    BY <1>1, StepIsEdge
  <2>2. TimerBits' /\ LagInv'
    BY <2>1, TimerBitsStep, LagStep DEF SeenInv
  <2>3. early' = (early \/ (SettingUp' /\ timeout_occurred' = 1)) /\ program' = program
    BY <1>1, <2>1, SameProgram DEF Edges
  <2>4. early' => TakesTimer'
    BY <2>3 DEF SeenInv, SettingUp, TakesTimer
  <2>5. ASSUME ~early', timerSeen' = 1, ~irq' PROVE Stale'
    <3>1. ~early
      BY <2>3, <2>5
    <3>2. CASE irq
      <4>1. /\ handling' = "timer" /\ IsrLeft' = Withdrawn /\ reading' = 0 /\ idle' = 0
            /\ UNCHANGED <<program, pc>>
        BY <1>1, <2>5, <3>1, <3>2, IrqFalls
      <4>2. timerLag' = 1
        BY <2>1, <2>5, <3>2, LagStep DEF SeenInv
      <4>3. Withdrawn' = Withdrawn /\ Withdrawn \in {1, 2}
        BY <4>1 DEF Withdrawn, Isr, TakesTimer, Registered
      <4>4. QED
        BY <4>1, <4>2, <4>3 DEF Stale
    <3>3. CASE ~irq
      <4>1. timerSeen = 1 /\ timerLag' = timerLag + 1
        BY <2>1, <2>5, <3>3, LagStep DEF SeenInv
      <4>2. QED
        BY <1>1, <2>2, <2>5, <3>1, <3>3, <4>1, StaleStep
    <3>4. QED
      BY <3>2, <3>3
  <2>6. QED
    BY <1>1, <2>2, <2>3, <2>4, <2>5, DisabledStep DEF SeenInv
<1>2. CASE UNCHANGED vars
  BY <1>2 DEF vars, irqVars, softVars, timerVars, history, SeenInv, TimerBits, LagInv, Stale, Withdrawn,
              irq, interrupt_enable, Isr, Registered, SettingUp, TakesTimer, IsrLeft
<1>3. QED
  BY <1>1, <1>2

(* The processor acts on an irq of the timer that is up, however long the  *)
(* crossing delays it: it sees one that has gone only in the handler that  *)
(* took it down, and no longer when that returns.                          *)
SeesTheTimer == handling = "none" /\ ~early /\ timerSeen = 1 => irq

THEOREM TimerIrqIsReal == Spec => [](SeenInv /\ SeesTheTimer)
<1>1. ASSUME Init PROVE SeenInv
  <2>1. /\ handling = "none" /\ timeout_occurred = 0 /\ counter_is_running = 0 /\ force_reload = 0
        /\ sinceIrq = 0 /\ response = 0 /\ timerSeen = 0 /\ timerLag = 0 /\ early = FALSE
    BY <1>1 DEF Init, TimerInit
  <2>2. ~irq /\ Crossing \in Nat
    BY <2>1, CrossingAssumption, PauseAssumption DEF irq
  <2>3. QED
    BY <2>1, <2>2 DEF SeenInv, TimerBits, LagInv
<1>2. SeenInv => SeesTheTimer
  BY DEF SeenInv, Stale, SeesTheTimer
<1>3. QED
  BY <1>1, <1>2, SeenInvStep, ProgramsFollowTheirLists, PTL DEF Spec

-----------------------------------------------------------------------------
(* measure_response_time: one interrupt per measurement.                   *)

Measured == program = "response" /\ ~early

(* The flag is up from the handler's return to its clearing, and from the  *)
(* handler's Control(0) to the next arming the timer cannot interrupt.     *)
FlagGuards ==
  /\ flag \in {0, 1}
  /\ ~Registered => flag = 0
  /\ SettingUp => handling = "none" /\ timeout_occurred = 0 /\ flag = 0
  /\ pc \in {"print", "clear_flag"} => flag = 1
  /\ flag = 1 => Registered /\ handling = "none" /\ control_register = 0
  /\ pc = "sleep" /\ todo # <<>> => flag = 0 /\ handling = "none" /\ control_register = 0
  /\ Registered /\ handling = "timer" /\ IsrLeft <= 1 => control_register = 0

FlagInv == TimerBits /\ (Measured => FlagGuards)

(* The program's own steps.                                                *)
LEMMA FlagSteps ==
  ASSUME OnScript, TimerBits, program = "response", FlagGuards, Next,
         SettingUp' => timeout_occurred' = 0,
         ~(Write \/ BeginRead \/ EndRead \/ Interrupt \/ Return)
  PROVE  FlagGuards'
<1> USE DEF Registered
<1>0. pc \in {"boot", "setup", "test_flag", "print", "clear_flag", "sleep"} /\ flag \in {0, 1}
  BY DEF OnScript, MainOnScript, Places, FlagGuards
<1>1. Edges(Nowhere) /\ UNCHANGED <<program, handling, isrTodo>>
  BY DEF Next, Compute, Register, SetUp, Loop, TestFlag, PrintResponse, ClearFlag, Poll, Polled,
         PrintRecovery, Wake, Goto
<1>2. control_register' = control_register
  BY <1>1, QuietEdge DEF Nowhere
<1>a. SettingUp' <=> (pc' = "setup" \/ (pc' = "test_flag" /\ todo' # <<>>))
  BY <1>1, NextSettingUp
<1>3. CASE Compute
  <2>1. UNCHANGED <<program, pc, todo, handling, isrTodo, flag>>
    BY <1>3 DEF Compute
  <2>2. SettingUp' = SettingUp /\ IsrLeft' = IsrLeft
    BY <2>1 DEF SettingUp, TakesTimer, IsrLeft
  <2>3. QED
    BY <1>2, <2>1, <2>2 DEF FlagGuards
<1>4. CASE ~Compute
  <2>1. handling = "none"
    BY <1>4 DEF Next, Register, SetUp, Loop, TestFlag, PrintResponse, ClearFlag, Poll, Polled,
           PrintRecovery, Wake, Goto, At, MainRuns
  <2>2. CASE Register
    <3>1. pc = "boot" /\ pc' = "setup" /\ todo' = <<>> /\ flag' = flag
      BY <2>2 DEF Register, Goto, At
    <3>2. QED
      BY <1>0, <1>1, <2>1, <3>1 DEF FlagGuards
  <2>3. CASE SetUp
    <3>1. pc = "setup" /\ pc' = "test_flag" /\ flag' = 0
      BY <2>3, AfterSetups DEF SetUp, Goto, At, Registers, TakesTimer
    <3>2. QED
      BY <1>0, <1>1, <1>2, <1>a, <2>1, <3>1 DEF FlagGuards
  <2>4. CASE TestFlag
    <3>1. /\ pc = "test_flag" /\ todo' = <<>> /\ flag' = flag
          /\ pc' = IF flag = 1 THEN "print" ELSE "sleep"
      BY <2>4 DEF TestFlag, Goto, At
    <3>2. QED
      BY <1>0, <1>1, <1>2, <1>a, <2>1, <3>1 DEF FlagGuards
  <2>5. CASE PrintResponse
    <3>1. pc = "print" /\ pc' = "clear_flag" /\ todo' = <<>> /\ flag' = flag
      BY <2>5 DEF PrintResponse, Goto, At
    <3>2. QED
      BY <1>0, <1>1, <1>2, <1>a, <2>1, <3>1 DEF FlagGuards
  <2>6. CASE ClearFlag
    <3>1. pc = "clear_flag" /\ pc' = "sleep" /\ flag' = 0
      BY <2>6 DEF ClearFlag, Goto, At
    <3>2. control_register' = 0
      BY <1>2, <3>1 DEF FlagGuards
    <3>3. QED
      BY <1>0, <1>1, <1>a, <2>1, <3>1, <3>2 DEF FlagGuards
  <2>7. CASE Wake
    <3>1. pc = "sleep" /\ pc' = "test_flag" /\ todo' = <<>> /\ flag' = flag
      BY <2>7, AfterSetups DEF Wake, Goto, At
    <3>2. ~SettingUp'
      BY <3>1 DEF SettingUp
    <3>3. QED
      BY <1>0, <1>1, <1>2, <1>a, <2>1, <3>1, <3>2 DEF FlagGuards
  <2>8. ~(Loop \/ Poll \/ Polled \/ PrintRecovery)
    BY <1>0 DEF Loop, Poll, Polled, PrintRecovery, Goto, At
  <2>9. QED
    BY <1>4, <2>2, <2>3, <2>4, <2>5, <2>6, <2>7, <2>8 DEF Next
<1>5. QED
  BY <1>3, <1>4

(* Its accesses, and the handler's.                                        *)
LEMMA FlagAccesses ==
  ASSUME OnScript, TimerBits, program = "response", FlagGuards, Write \/ BeginRead \/ EndRead,
         SettingUp' => timeout_occurred' = 0
  PROVE  FlagGuards'
<1> USE DEF Registered
<1>0. /\ UNCHANGED <<program, pc, handling, flag>> /\ Pending # <<>> /\ Edges(Head(Pending))
      /\ flag \in {0, 1}
  BY DEF Write, BeginRead, EndRead, MayAccess, OnScript, FlagGuards
<1>1. CASE BeginRead
  <2>1. UNCHANGED <<todo, isrTodo>> /\ Head(Pending).acc.kind = "read"
    BY <1>1 DEF BeginRead
  <2>2. control_register' = control_register
    BY <1>0, <2>1 DEF Edges, TimerEdge, TimerRegisters, Writes, NoAccess
  <2>3. SettingUp' = SettingUp /\ IsrLeft' = IsrLeft
    BY <1>0, <2>1 DEF SettingUp, TakesTimer, IsrLeft
  <2>4. QED
    BY <1>0, <2>1, <2>2, <2>3 DEF FlagGuards
<1>2. CASE ~BeginRead /\ ~InHandler
  <2>1. todo' = Tail(todo) /\ isrTodo' = isrTodo /\ todo # <<>> /\ handling = "none"
    BY <1>0, <1>2 DEF Write, EndRead, Done, Pending, InHandler
  <2>2. pc \in {"boot", "test_flag", "sleep"} /\ (pc = "sleep" => MainLeft = 1)
    BY <2>1, ResponseAccess DEF OnScript
  <2>3. flag = 0
    BY <2>1, <2>2, ResponseSettingUp DEF FlagGuards
  <2>4. pc = "sleep" => todo' = <<>>
    BY <2>1, <2>2, MainStep DEF OnScript
  <2>5. flag' = 0 /\ handling' = "none" /\ pc' \in {"boot", "test_flag", "sleep"}
        /\ (pc' = "sleep" => todo' = <<>>)
    BY <1>0, <2>1, <2>2, <2>3, <2>4
  <2>6. SettingUp' => timeout_occurred' = 0
    OBVIOUS
  <2>7. QED
    BY <2>5, <2>6 DEF FlagGuards
<1>3. CASE ~BeginRead /\ InHandler
  <2>1. /\ isrTodo' = Tail(isrTodo) /\ todo' = todo /\ isrTodo # <<>> /\ handling # "none"
        /\ Edges(Head(isrTodo))
    BY <1>0, <1>3 DEF Write, EndRead, Done, Pending, InHandler
  <2>2. flag = 0 /\ ~SettingUp /\ ~(pc = "sleep" /\ todo # <<>>) /\ pc \notin {"print", "clear_flag"}
    BY <1>0, <2>1 DEF FlagGuards
  <2>3. IsrLeft' = IsrLeft - 1 /\ IsrLeft \in Nat \ {0}
    BY <2>1, HandlerStep DEF OnScript
  <2>4. SettingUp' = SettingUp
    BY <1>0, <2>1 DEF SettingUp, TakesTimer
  <2>5. ASSUME Registered, handling = "timer", IsrLeft <= 2 PROVE control_register' = 0
    <3>1. Isr(handling) = "response"
      BY <2>5 DEF Isr, TakesTimer
    <3>2. \/ Head(isrTodo) = Control(0)
          \/ Head(isrTodo) = ClearStatus /\ IsrLeft = 1
      BY <2>1, <2>5, <3>1, HandlerAccess DEF OnScript
    <3>3. CASE Head(isrTodo) = Control(0)
      <4>1. Edges(Control(0)) /\ 0 \in {0, 2, 3, 7}
        BY <2>1, <3>3
      <4>2. QED
        BY <4>1, ControlEdge
    <3>4. CASE Head(isrTodo) = ClearStatus /\ IsrLeft = 1
      <4>1. Edges(ClearStatus) /\ IsrLeft <= 1
        BY <2>1, <3>4
      <4>2. control_register = 0
        BY <2>5, <4>1 DEF FlagGuards
      <4>3. QED
        BY <4>1, <4>2, ClearEdge
    <3>5. QED
      BY <3>2, <3>3, <3>4
  <2>6. IsrLeft' <= 1 => IsrLeft <= 2
    BY <2>3
  <2>7. QED
    BY <1>0, <2>1, <2>2, <2>4, <2>5, <2>6 DEF FlagGuards
<1>4. QED
  BY <1>1, <1>2, <1>3

(* Entering and leaving the handler.                                       *)
LEMMA FlagHandler ==
  ASSUME OnScript, SeenInv, Measured, FlagGuards, Interrupt \/ Return
  PROVE  FlagGuards'
<1> USE DEF Registered
<1>0. /\ UNCHANGED <<program, pc, todo>> /\ Edges(Nowhere) /\ flag \in {0, 1} /\ program = "response"
  BY DEF Interrupt, Return, FlagGuards, Measured
<1>1. control_register' = control_register /\ SettingUp' = SettingUp
  BY <1>0, QuietEdge DEF Nowhere, SettingUp, TakesTimer
<1>2. CASE Interrupt
  <2>0. timerSeen = 1 /\ handling = "none"
    BY <1>0, <1>2 DEF Interrupt, Interrupted, portInterrupts, InHandler
  <2>1. irq /\ handling' = "timer" /\ isrTodo' = Handler(Isr("timer")) /\ flag' = flag
    BY <1>2, <2>0 DEF Interrupt, Line, SeenInv, Stale, Measured
  <2>2. timeout_occurred = 1 /\ control_register # 0
    BY <2>1 DEF irq, interrupt_enable
  <2>3. flag = 0 /\ ~SettingUp /\ ~(pc = "sleep" /\ todo # <<>>) /\ pc \notin {"print", "clear_flag"}
    BY <1>0, <2>2 DEF FlagGuards
  <2>4. Registered => IsrLeft' = 5
    <3>1. Registered => Isr("timer") = "response"
      BY <1>0 DEF Isr, TakesTimer
    <3>2. QED
      BY <2>1, <3>1, Handlers DEF IsrLeft
  <2>5. Registered => ~(IsrLeft' <= 1)
    BY <2>4
  <2>6. pc' = pc /\ todo' = todo /\ flag' = 0 /\ ~SettingUp'
    BY <1>0, <1>1, <2>1, <2>3
  <2>7. QED
    BY <2>3, <2>5, <2>6 DEF FlagGuards
<1>3. CASE Return
  <2>0. IsrLeft = 0
    BY <1>3, EmptyLists DEF Return
  <2>1. handling = "timer" /\ handling' = "none"
    BY <1>0, <1>3 DEF Return, InHandler, OnScript, HandlerOnScript
  <2>2. flag = 0 /\ ~SettingUp /\ ~(pc = "sleep" /\ todo # <<>>) /\ pc \notin {"print", "clear_flag"}
    BY <1>0, <2>1 DEF FlagGuards
  <2>3. flag' = IF Registered THEN 1 ELSE 0
    BY <1>0, <1>3, <2>1, <2>2 DEF Return, Isr, TakesTimer
  <2>4. Registered => control_register' = 0
    <3>1. IsrLeft <= 1
      BY <2>0
    <3>2. QED
      BY <1>1, <2>1, <3>1 DEF FlagGuards
  <2>5. QED
    BY <1>0, <1>1, <2>1, <2>2, <2>3, <2>4 DEF FlagGuards
<1>4. QED
  BY <1>2, <1>3

LEMMA FlagInvStep ==
  ASSUME OnScript, SeenInv, FlagInv, [Next]_vars
  PROVE  FlagInv'
<1>1. CASE Next
  <2>1. PICK bus : Edges(bus)
    BY <1>1, StepIsEdge
  <2>2. TimerBits'
    BY <2>1, TimerBitsStep DEF FlagInv
  <2>3. ASSUME Measured' PROVE FlagGuards'
    <3>1. program = "response" /\ ~early /\ FlagGuards
      BY <2>1, <2>3, SameProgram, <1>1 DEF Measured, Edges, FlagInv
    <3>2. SettingUp' => timeout_occurred' = 0
      BY <2>1, <2>2, <2>3 DEF Measured, Edges, TimerBits
    <3>3. QED
      BY <1>1, <3>1, <3>2, FlagSteps, FlagAccesses, FlagHandler DEF FlagInv, Measured
  <2>4. QED
    BY <2>2, <2>3 DEF FlagInv
<1>2. CASE UNCHANGED vars
  BY <1>2 DEF vars, softVars, timerVars, history, FlagInv, TimerBits, Measured, FlagGuards, Registered,
              SettingUp, TakesTimer, IsrLeft
<1>3. QED
  BY <1>1, <1>2

(* The flag of measure_response_time guards snapl: no interrupt comes      *)
(* before the measurement of the last one was printed, unless the system   *)
(* clock ran out while the timer was being taken over.                     *)
THEOREM FlagHoldsInterruptsOff == Spec => []FlagInv
<1>1. ASSUME Init PROVE FlagInv
  <2>1. /\ pc = "boot" /\ handling = "none" /\ flag = 0 /\ timeout_occurred = 0
        /\ counter_is_running = 0 /\ force_reload = 0 /\ sinceIrq = 0 /\ response = 0
    BY <1>1 DEF Init, TimerInit
  <2>2. ~Registered
    BY <2>1 DEF Registered
  <2>3. QED
    BY <2>1, <2>2 DEF FlagInv, TimerBits, FlagGuards
<1>2. QED
  BY <1>1, FlagInvStep, ProgramsFollowTheirLists, TimerIrqIsReal, PTL DEF Spec

THEOREM NoMeasurementIsOverwritten == Spec => []MeasurementIsRead
<1>1. FlagInv => MeasurementIsRead
  BY DEF FlagInv, Measured, FlagGuards, MeasurementIsRead
<1>2. QED
  BY <1>1, FlagHoldsInterruptsOff, PTL

-----------------------------------------------------------------------------
(* What snapl holds.                                                       *)

FullPeriod == PeriodHigh * HalfSpan + HalfSpan - 1
Stopped == force_reload = 0 /\ internal_counter = FullPeriod /\ counter_is_running = 0

(* The last accesses of setup_response_timer find the new period, and the  *)
(* timer standing at it.                                                   *)
Preparing ==
  /\ pc = "test_flag" /\ MainLeft <= 3 => period_l_register = HalfSpan - 1
  /\ pc = "test_flag" /\ MainLeft <= 2 => period_h_register = PeriodHigh
  /\ pc = "test_flag" /\ MainLeft = 2 /\ idle = 0 => force_reload = 1
  /\ pc = "test_flag" /\ MainLeft = 2 /\ idle > 0 => Stopped
  /\ pc = "test_flag" /\ MainLeft = 1 => Stopped

(* Then it counts the period down, or stands at it.                        *)
TimerKept ==
  /\ period_l_register = HalfSpan - 1 /\ period_h_register = PeriodHigh /\ force_reload = 0
  /\ control_register \in {0, 7} /\ internal_counter \in 0 .. FullPeriod
  /\ counter_is_running = 0 => internal_counter = FullPeriod

(* It reloaded when it raised its irq, limit cycles ago at most.           *)
Elapsed(limit) ==
  /\ counter_is_running = 1 /\ internal_counter = FullPeriod + 1 - sinceIrq
  /\ sinceIrq \in 1 .. limit

(* The longest the irq can have been up outside a handler: until it is     *)
(* seen, and from there to the next step.                                  *)
Late == IF timerSeen = 1 THEN Crossing + idle + 1 ELSE timerLag

(* From the irq to the snapshot, from there to the read of its low half,   *)
(* and from there to the end of the measurement.                           *)
TimerMeasures ==
  /\ TimerKept
  /\ timeout_occurred = 1 /\ control_register = 0 /\ (handling = "none" \/ IsrLeft = 0)
       => counter_is_running = 0
  /\ handling = "none" /\ irq => Elapsed(Late)
  /\ handling # "none" /\ IsrLeft >= 2 => control_register = 7
  /\ handling # "none" /\ IsrLeft = 5 => irq /\ Elapsed(Crossing + Pause + 2 + idle)
  /\ handling # "none" /\ IsrLeft = 4 => counter_snapshot % HalfSpan = HalfSpan - response
  /\ handling # "none" /\ IsrLeft = 4 /\ reading = 1 => readdata = HalfSpan - response
  /\ flag = 1 \/ (handling # "none" /\ IsrLeft <= 3) => snapl = HalfSpan - response

MeasureInv == Measured => Preparing /\ (Registered /\ ~SettingUp => TimerMeasures)

LEMMA FullPeriodRange == FullPeriod \in Nat /\ FullPeriod >= HalfSpan - 1
<1>1. PeriodHigh * HalfSpan \in Nat
  BY HalfSpanAssumption, PeriodAssumption DEF Half
<1> DEFINE m == PeriodHigh * HalfSpan
<1> HIDE DEF m
<1>2. m \in Nat /\ FullPeriod = m + HalfSpan - 1
  BY <1>1 DEF m, FullPeriod
<1>3. QED
  BY <1>2, HalfSpanAssumption

(* The low half of the snapshot counts back from the period's low half.    *)
LEMMA LowHalf ==
  ASSUME NEW s \in 1 .. HalfSpan
  PROVE  (FullPeriod + 1 - s) % HalfSpan = HalfSpan - s
<1> DEFINE h == HalfSpan  m == PeriodHigh * HalfSpan  r == HalfSpan - s
<1>1. h \in Nat \ {0} /\ PeriodHigh \in Nat /\ r \in 0 .. h - 1
  BY HalfSpanAssumption, PeriodAssumption DEF Half
<1>2. FullPeriod + 1 - s = PeriodHigh * h + r
  <2> HIDE DEF m
  <2>1. m \in Nat /\ FullPeriod = m + HalfSpan - 1
    BY HalfSpanAssumption, PeriodAssumption DEF m, Half, FullPeriod
  <2>2. FullPeriod + 1 - s = m + r
    BY <2>1, HalfSpanAssumption
  <2>3. QED
    BY <2>2 DEF m
<1> HIDE DEF h, r
<1>3. (PeriodHigh * h + r) % h = r
  BY <1>1
<1>4. QED
  BY <1>2, <1>3 DEF h, r

(* The timer's control register, armed and not.                            *)
LEMMA ControlBits ==
  /\ control_register = 7 => interrupt_enable /\ control_continuous
  /\ control_register = 0 => ~interrupt_enable /\ ~control_continuous
BY DEF interrupt_enable, control_continuous

(* What it reloads.                                                        *)
LEMMA LoadsPeriod ==
  ASSUME period_l_register = HalfSpan - 1, period_h_register = PeriodHigh
  PROVE  counter_load_value = FullPeriod
<1> DEFINE m == PeriodHigh * HalfSpan
<1>1. m \in Nat /\ counter_load_value = m + (HalfSpan - 1) /\ FullPeriod = m + HalfSpan - 1
  BY HalfSpanAssumption, PeriodAssumption DEF Half, counter_load_value, FullPeriod
<1> HIDE DEF m
<1>2. QED
  BY <1>1, HalfSpanAssumption

(* An edge of the timer that counts.                                       *)
LEMMA KeptEdge ==
  ASSUME TimerBits, TimerKept, CountDown, RunsOn, force_reload' = 0, control_register' \in {0, 7},
         UNCHANGED <<period_l_register, period_h_register>>
  PROVE  /\ TimerKept'
         /\ control_register = 0 /\ (internal_counter = 0 \/ counter_is_running = 0)
              => counter_is_running' = 0
         /\ internal_counter = 0 =>
              internal_counter' = FullPeriod /\ (control_register = 7 => counter_is_running' = 1)
         /\ internal_counter # 0 /\ counter_is_running = 1 =>
              internal_counter' = internal_counter - 1 /\ counter_is_running' = 1
<1>1. FullPeriod \in Nat /\ FullPeriod >= 1
  BY FullPeriodRange, HalfSpanAssumption
<1>2. counter_load_value = FullPeriod
  BY LoadsPeriod DEF TimerKept
<1>3. QED
  BY <1>1, <1>2, ControlBits DEF TimerBits, TimerKept, CountDown, RunsOn, counter_is_zero

(* The cycles of an irq, while the timer counts on.                        *)
LEMMA IrqEdge ==
  ASSUME TimerBits, TimerKept, NEW bus, Edges(bus), CountDown, RunsOn, RunsOut, force_reload' = 0,
         UNCHANGED <<control_register, period_l_register, period_h_register>>,
         NEW limit \in 1 .. HalfSpan - 1
  PROVE  /\ irq /\ Elapsed(limit) =>
              /\ irq' /\ counter_is_running' = 1 /\ internal_counter' = FullPeriod + 1 - sinceIrq'
              /\ sinceIrq' \in 1 .. limit + 1
         /\ ~irq /\ irq' =>
              /\ counter_is_running' = 1 /\ internal_counter' = FullPeriod + 1 - sinceIrq'
              /\ sinceIrq' = 1
<1>1. sinceIrq' = IF irq' /\ ~irq THEN 1 ELSE IF sinceIrq < HalfSpan THEN sinceIrq + 1 ELSE sinceIrq
  BY DEF Edges
<1>2. FullPeriod \in Nat /\ FullPeriod >= HalfSpan - 1 /\ HalfSpan \in Nat
  BY FullPeriodRange, HalfSpanAssumption
<1>3. interrupt_enable' = interrupt_enable /\ control_register' \in {0, 7}
  BY DEF interrupt_enable, TimerKept
<1>4. ASSUME irq, Elapsed(limit)
      PROVE  /\ irq' /\ counter_is_running' = 1 /\ internal_counter' = FullPeriod + 1 - sinceIrq'
             /\ sinceIrq' \in 1 .. limit + 1
  <2>1. irq'
    BY <1>3, <1>4 DEF irq, RunsOut
  <2>2. sinceIrq \in 1 .. limit /\ sinceIrq' = sinceIrq + 1
    BY <1>1, <1>2, <1>4, <2>1 DEF Elapsed
  <2>3. internal_counter # 0 /\ counter_is_running = 1 /\ internal_counter = FullPeriod + 1 - sinceIrq
    BY <1>2, <1>4, <2>2 DEF Elapsed
  <2>4. QED
    BY <1>2, <1>3, <2>1, <2>2, <2>3, KeptEdge
<1>5. ASSUME ~irq, irq'
      PROVE  /\ counter_is_running' = 1 /\ internal_counter' = FullPeriod + 1 - sinceIrq'
             /\ sinceIrq' = 1
  <2>1. internal_counter = 0 /\ control_register # 0
    BY <1>3, <1>5, ControlBits DEF irq, RunsOut, timeout_event, counter_is_zero
  <2>2. control_register = 7
    BY <2>1 DEF TimerKept
  <2>3. QED
    BY <1>1, <1>2, <1>3, <1>5, <2>1, <2>2, KeptEdge
<1>6. QED
  BY <1>4, <1>5

(* The irq is as late as the crossing and the processor make it.           *)
LEMMA LateStarts ==
  ASSUME LagInv', irq', idle' \in Nat
  PROVE  1 \in 1 .. Late'
<1> DEFINE up == irq'
<1>1. up /\ (timerLag' = 0 <=> (timerSeen' = 1 <=> up)) /\ timerLag' \in 0 .. Crossing
  BY DEF LagInv
<1>2. Crossing \in Nat \ {0}
  BY CrossingAssumption, PauseAssumption
<1> HIDE DEF up
<1>3. timerSeen' = 1 \/ (timerLag' # 0 /\ timerLag' \in 0 .. Crossing)
  BY <1>1
<1>4. CASE timerSeen' = 1
  <2> DEFINE n == idle'
  <2>1. Late' = Crossing + n + 1 /\ n \in Nat
    BY <1>4 DEF Late
  <2> HIDE DEF n
  <2>2. QED
    BY <1>2, <2>1
<1>5. CASE timerSeen' # 1
  <2>1. Late' = timerLag'
    BY <1>5 DEF Late
  <2>2. timerLag' # 0 /\ timerLag' \in 0 .. Crossing
    BY <1>3, <1>5
  <2>3. QED
    BY <1>2, <2>1, <2>2
<1>6. QED
  BY <1>4, <1>5

LEMMA LateEdge ==
  ASSUME TimerBits, LagInv, TimerKept, NEW bus, Edges(bus), CountDown, RunsOn, RunsOut,
         force_reload' = 0, UNCHANGED <<control_register, period_l_register, period_h_register>>,
         irq => Elapsed(Late), idle \in 0 .. Pause, idle' \in Nat,
         timerSeen = 1 => idle' = idle + 1
  PROVE  irq' => Elapsed(Late)'
<1>1. /\ Pause \in Nat /\ Crossing \in Nat \ {0} /\ Crossing + 2 * Pause + 2 <= HalfSpan
      /\ HalfSpan \in Nat
  BY PauseAssumption, CrossingAssumption, ResponseAssumption, HalfSpanAssumption
<1>2. LagInv'
  BY LagStep
<1>3. CASE irq /\ irq'
  <2>1. /\ timerSeen \in {0, 1} /\ timerSeen' \in {0, 1}
        /\ timerLag \in 0 .. Crossing /\ timerLag' \in 0 .. Crossing
        /\ timerSeen = 0 => timerLag # 0
    BY <1>2, <1>3 DEF LagInv
  <2>2. /\ timerSeen = 0 /\ timerSeen' = 0 => timerLag' = timerLag + 1
        /\ timerSeen = 1 => timerSeen' = 1
    BY <1>3, LagStep
  <2>3. Late \in 1 .. HalfSpan - 1 /\ Late' >= Late + 1 /\ Late' \in Nat
    <3>1. CASE timerSeen = 1
      <4>1. Late = Crossing + idle + 1 /\ Late' = Crossing + idle' + 1
        BY <2>2, <3>1 DEF Late
      <4>2. QED
        BY <1>1, <3>1, <4>1
    <3>2. CASE timerSeen = 0 /\ timerSeen' = 0
      <4>1. Late = timerLag /\ Late' = timerLag' /\ timerLag' = timerLag + 1
        BY <2>2, <3>2 DEF Late
      <4>2. QED
        BY <1>1, <2>1, <3>2, <4>1
    <3>3. CASE timerSeen = 0 /\ timerSeen' = 1
      <4> DEFINE n == idle'
      <4>1. Late = timerLag /\ Late' = Crossing + n + 1 /\ n \in Nat
        BY <3>3 DEF Late
      <4> HIDE DEF n
      <4>2. QED
        BY <1>1, <2>1, <3>3, <4>1
    <3>4. QED
      BY <2>1, <3>1, <3>2, <3>3
  <2>4. /\ counter_is_running' = 1 /\ internal_counter' = FullPeriod + 1 - sinceIrq'
        /\ sinceIrq' \in 1 .. Late + 1
    BY <1>3, <2>3, IrqEdge
  <2>5. QED
    BY <2>3, <2>4 DEF Elapsed
<1>4. CASE ~irq /\ irq'
  <2>1. 1 \in 1 .. HalfSpan - 1
    BY HalfSpanAssumption
  <2>2. /\ counter_is_running' = 1 /\ internal_counter' = FullPeriod + 1 - sinceIrq'
        /\ sinceIrq' = 1
    BY <1>4, <2>1, IrqEdge
  <2>3. QED
    BY <1>2, <1>4, <2>2, LateStarts DEF Elapsed
<1>5. QED
  BY <1>3, <1>4

(* Once the timer measures, the places after its setup need no more.       *)
LEMMA StaysPrepared ==
  ASSUME program' = "response", ~SettingUp', pc' = "test_flag" => TimerKept'
  PROVE  Preparing'
<1>1. pc' = "test_flag" => todo' = <<>>
  BY NextSettingUp
<1>2. pc' = "test_flag" => MainLeft' = 0
  BY <1>1 DEF MainLeft
<1>3. QED
  BY <1>2 DEF Preparing, TimerKept

(* A cycle without an access to the timer, in the same place.              *)
LEMMA MeasureWait ==
  ASSUME OnScript, SeenInv, program = "response", FlagGuards, TimerMeasures, Registered, ~SettingUp,
         Compute
  PROVE  TimerMeasures'
<1>0. /\ UNCHANGED <<program, pc, todo, handling, isrTodo, flag, snapl>> /\ Edges(Nowhere)
      /\ reading = 0 /\ reading' = 0 /\ idle \in 0 .. Pause /\ idle' \in {idle, idle + 1}
  BY DEF Compute, OnScript
<1>1. /\ CountDown /\ RunsOn /\ RunsOut /\ force_reload' = 0
      /\ UNCHANGED <<control_register, period_l_register, period_h_register, counter_snapshot, response>>
  BY <1>0, QuietEdge DEF Nowhere
<1>2. TimerKept /\ control_register' \in {0, 7}
  BY <1>1 DEF TimerMeasures, TimerKept
<1>3. IsrLeft' = IsrLeft
  BY <1>0 DEF IsrLeft
<1>4. timeout_occurred' = 1 /\ control_register' = 0 /\ (handling' = "none" \/ IsrLeft' = 0)
        => counter_is_running' = 0
  BY <1>0, <1>1, <1>2, <1>3, KeptEdge
  DEF TimerMeasures, RunsOut, timeout_event, counter_is_zero, TimerBits, SeenInv
<1>5. ASSUME handling # "none" \/ timerSeen = 1 PROVE idle < Pause /\ idle' = idle + 1
  <2>1. pc # "done"
    BY DEF OnScript, MainOnScript, Places
  <2>2. ~Asleep /\ ~Resting
    BY <1>5, <2>1 DEF Asleep, Resting, Interrupted
  <2>3. QED
    BY <2>2 DEF Compute
<1>6. Pause \in Nat /\ Crossing \in Nat /\ Crossing + 2 * Pause + 2 <= HalfSpan /\ HalfSpan \in Nat
  BY PauseAssumption, CrossingAssumption, ResponseAssumption, HalfSpanAssumption
<1>7. (handling = "none" /\ irq => Elapsed(Late))'
  <2>1. CASE handling = "none"
    <3>1. (irq => Elapsed(Late)) /\ (timerSeen = 1 => idle' = idle + 1) /\ idle' \in Nat
      BY <1>0, <1>5, <1>6, <2>1 DEF TimerMeasures
    <3>2. QED
      BY <1>0, <1>1, <1>2, <3>1, LateEdge DEF SeenInv
  <2>2. QED
    BY <1>0, <2>1
<1>8. ASSUME handling # "none", IsrLeft = 5 PROVE (irq /\ Elapsed(Crossing + Pause + 2 + idle))'
  <2>1. irq /\ Elapsed(Crossing + Pause + 2 + idle) /\ Crossing + Pause + 2 + idle \in 1 .. HalfSpan - 1 /\ idle' = idle + 1
    BY <1>0, <1>5, <1>6, <1>8 DEF TimerMeasures
  <2>2. /\ irq' /\ counter_is_running' = 1 /\ internal_counter' = FullPeriod + 1 - sinceIrq'
        /\ sinceIrq' \in 1 .. Crossing + Pause + 2 + idle + 1
    BY <1>0, <1>1, <1>2, <2>1, IrqEdge DEF SeenInv
  <2>3. QED
    BY <1>0, <1>6, <2>1, <2>2 DEF Elapsed
<1>9. TimerKept'
  BY <1>1, <1>2, KeptEdge DEF SeenInv
<1>10. QED
  BY <1>0, <1>1, <1>3, <1>4, <1>7, <1>8, <1>9 DEF TimerMeasures

(* The steps of the main program from place to place.                      *)
LEMMA MeasureSteps ==
  ASSUME OnScript, SeenInv, program = "response", FlagGuards, Preparing,
         Registered /\ ~SettingUp => TimerMeasures, Next,
         ~(Compute \/ Write \/ BeginRead \/ EndRead \/ Interrupt \/ Return)
  PROVE  Preparing' /\ ((Registered /\ ~SettingUp)' => TimerMeasures')
<1>1. Edges(Nowhere) /\ UNCHANGED <<program, handling, isrTodo, reading, snapl>> /\ idle' = 0
  BY DEF Next, Register, SetUp, Loop, TestFlag, PrintResponse, ClearFlag, Poll, Polled,
         PrintRecovery, Wake, Goto
<1>2. handling = "none" /\ reading = 0 /\ timerSeen # 1 /\ todo = <<>>
  BY DEF Next, Register, SetUp, Loop, TestFlag, PrintResponse, ClearFlag, Poll, Polled,
         PrintRecovery, Wake, Goto, At, MainRuns, Interrupted
<1>3. ~(Loop \/ Poll \/ Polled \/ PrintRecovery)
  BY DEF Loop, Poll, Polled, PrintRecovery, Goto, At, OnScript, MainOnScript, Places
<1>4. CASE Register \/ SetUp
  <2>1. CASE Register
    BY <1>1, <2>1, NextSettingUp DEF Register, Goto, Preparing
  <2>2. CASE SetUp
    <3>1. pc' = "test_flag" /\ todo' = Setup("response")
      BY <2>2, AfterSetups DEF SetUp, Goto
    <3>2. MainLeft' = 6
      BY <3>1, ResponseSetup DEF MainLeft
    <3>3. todo' # <<>>
      <4>1. todo' = <<>> => MainLeft' = 0
        BY DEF MainLeft
      <4>2. QED
        BY <3>2, <4>1
    <3>4. SettingUp'
      BY <1>1, <3>1, <3>3, NextSettingUp
    <3>5. QED
      BY <3>2, <3>4 DEF Preparing
  <2>3. QED
    BY <1>4, <2>1, <2>2
<1>5. CASE TestFlag \/ PrintResponse \/ ClearFlag \/ Wake
  <2>1. pc \in {"test_flag", "print", "clear_flag", "sleep"} /\ flag' \in {flag, 0}
        /\ (pc' \in {"print", "clear_flag", "sleep"} \/ (pc' = "test_flag" /\ todo' = <<>>))
    BY <1>5, AfterSetups DEF TestFlag, PrintResponse, ClearFlag, Wake, Goto, At
  <2>2. Registered /\ ~SettingUp /\ ~SettingUp'
    BY <1>1, <1>2, <2>1, ResponseSettingUp, NextSettingUp DEF Registered
  <2>3. /\ CountDown /\ RunsOn /\ RunsOut /\ force_reload' = 0
        /\ UNCHANGED <<control_register, period_l_register, period_h_register, counter_snapshot, response>>
    BY <1>1, QuietEdge DEF Nowhere
  <2>4. TimerKept /\ control_register' \in {0, 7} /\ TimerMeasures
    BY <2>2, <2>3 DEF TimerMeasures, TimerKept
  <2>5. timeout_occurred' = 1 /\ control_register' = 0 => counter_is_running' = 0
    BY <1>2, <2>3, <2>4, KeptEdge
    DEF TimerMeasures, RunsOut, timeout_event, counter_is_zero, TimerBits, SeenInv
  <2>6. (irq => Elapsed(Late))'
    BY <1>1, <1>2, <2>3, <2>4, LateEdge DEF TimerMeasures, SeenInv, OnScript
  <2>7. TimerKept'
    BY <2>3, <2>4, KeptEdge DEF SeenInv
  <2>8. flag' = 1 => snapl' = HalfSpan - response'
    BY <1>1, <2>1, <2>3, <2>4 DEF TimerMeasures
  <2>9. TimerMeasures'
    BY <1>1, <1>2, <2>5, <2>6, <2>7, <2>8 DEF TimerMeasures
  <2>10. QED
    BY <1>1, <2>2, <2>7, <2>9, StaysPrepared
<1>6. QED
  BY <1>3, <1>4, <1>5 DEF Next

(* The cycles in which the timer is set up, between two accesses.          *)
LEMMA PrepareWait ==
  ASSUME OnScript, TimerBits, program = "response", Preparing,
         Registered /\ ~SettingUp => TimerKept, Compute
  PROVE  Preparing'
<1>0. /\ UNCHANGED <<program, pc, todo>> /\ Edges(Nowhere)
  BY DEF Compute
<1>1. /\ CountDown /\ RunsOn /\ force_reload' = 0
      /\ UNCHANGED <<control_register, period_l_register, period_h_register>>
  BY <1>0, QuietEdge DEF Nowhere
<1>2. MainLeft' = MainLeft
  BY <1>0 DEF MainLeft
<1>3. ASSUME pc = "test_flag", MainLeft = 2 \/ MainLeft = 1 PROVE Stopped' /\ idle' > 0
  <2>1. todo # <<>>
    BY <1>3, EmptyLists
  <2>2. idle' = idle + 1
    BY <1>3, <2>1 DEF Compute, Asleep, Resting
  <2>3. idle' > 0
    BY <2>2 DEF OnScript
  <2>4. period_l_register = HalfSpan - 1 /\ period_h_register = PeriodHigh
    BY <1>3 DEF Preparing
  <2>5. counter_load_value = FullPeriod
    BY <2>4, LoadsPeriod
  <2>6. force_reload = 1 \/ Stopped
    BY <1>3 DEF Preparing, OnScript
  <2>7. Stopped'
    BY <1>1, <2>5, <2>6 DEF Stopped, CountDown, RunsOn
  <2>8. QED
    BY <2>3, <2>7
<1>4. QED
  BY <1>0, <1>1, <1>2, <1>3 DEF Preparing

(* setup_response_timer's accesses, and the one that arms the timer again. *)
LEMMA MeasureSetup ==
  ASSUME OnScript, SeenInv, LagInv', program = "response", FlagGuards, Preparing,
         Registered /\ ~SettingUp => TimerMeasures, Write, ~InHandler
  PROVE  Preparing' /\ ((Registered /\ ~SettingUp)' => TimerMeasures')
<1>0. /\ UNCHANGED <<program, pc, handling, flag, isrTodo>> /\ handling = "none" /\ idle' = 0
      /\ todo' = Tail(todo) /\ todo # <<>> /\ Edges(Head(todo)) /\ idle > 0
  BY CrossingAssumption, PauseAssumption DEF Write, MayAccess, Done, Pending, InHandler, OnScript
<1>1. /\ MainLeft' = MainLeft - 1 /\ (todo' = <<>> <=> MainLeft = 1) /\ MainLeft \in Nat \ {0}
  BY <1>0, MainStep DEF OnScript
<1>2. FullPeriod \in Nat /\ FullPeriod >= 1
  BY FullPeriodRange, HalfSpanAssumption
<1>3. CASE pc = "boot"
  BY <1>0, <1>3 DEF Preparing, Registered
<1>4. CASE pc = "test_flag"
  <2>1. SettingUp /\ (SettingUp' <=> MainLeft # 1) /\ flag = 0 /\ timeout_occurred = 0 /\ Registered
    BY <1>0, <1>1, <1>4, ResponseSettingUp, NextSettingUp DEF FlagGuards, Registered
  <2>2. \/ MainLeft \in {5, 6}
        \/ MainLeft = 4 /\ Head(todo) = PERIODL
        \/ MainLeft = 3 /\ Head(todo) = PERIODH
        \/ MainLeft = 2 /\ Head(todo) = Control(3)
        \/ MainLeft = 1 /\ Head(todo) = Control(7)
    BY <1>0, <1>4, ResponseAccess DEF OnScript
  <2>3. CASE MainLeft \in {5, 6}
    BY <1>0, <1>1, <2>1, <2>3 DEF Preparing
  <2>4. CASE MainLeft = 4 /\ Head(todo) = PERIODL
    <3>1. period_l_register' = HalfSpan - 1
      BY <1>0, <2>4, PeriodEdge
    <3>2. QED
      BY <1>0, <1>1, <2>1, <2>4, <3>1 DEF Preparing
  <2>5. CASE MainLeft = 3 /\ Head(todo) = PERIODH
    <3>1. PERIODL # PERIODH
      BY DEF PERIODL, PERIODH, Timer, WriteTo
    <3>2. period_h_register' = PeriodHigh /\ period_l_register' = HalfSpan - 1 /\ force_reload' = 1
      BY <1>0, <1>4, <2>5, <3>1, PeriodEdge DEF Preparing
    <3>3. QED
      BY <1>0, <1>1, <2>1, <2>5, <3>2 DEF Preparing
  <2>6. CASE MainLeft = 2 /\ Head(todo) = Control(3)
    <3>1. /\ CountDown /\ RunsOn /\ force_reload' = 0
          /\ UNCHANGED <<period_l_register, period_h_register>>
      BY <1>0, <2>6, ControlEdge
    <3>2. Stopped /\ period_l_register = HalfSpan - 1 /\ period_h_register = PeriodHigh
      BY <1>0, <1>4, <2>6 DEF Preparing
    <3>3. Stopped'
      BY <3>1, <3>2 DEF Stopped, CountDown, RunsOn
    <3>4. QED
      BY <1>0, <1>1, <2>1, <2>6, <3>1, <3>2, <3>3 DEF Preparing
  <2>7. CASE MainLeft = 1 /\ Head(todo) = Control(7)
    <3>1. /\ CountDown /\ RunsOut /\ force_reload' = 0 /\ control_register' = 7
          /\ counter_is_running' = 1
          /\ UNCHANGED <<period_l_register, period_h_register>>
      BY <1>0, <2>7, ControlEdge
    <3>2. Stopped /\ period_l_register = HalfSpan - 1 /\ period_h_register = PeriodHigh
      BY <1>4, <2>7 DEF Preparing
    <3>3. internal_counter' = FullPeriod /\ timeout_occurred' = 0
      BY <1>2, <2>1, <3>1, <3>2 DEF Stopped, CountDown, RunsOut, timeout_event, counter_is_zero
    <3>4. TimerKept' /\ ~irq'
      BY <1>2, <3>1, <3>2, <3>3 DEF TimerKept, irq
    <3>5. TimerMeasures'
      BY <1>0, <2>1, <3>1, <3>4 DEF TimerMeasures
    <3>6. QED
      BY <1>0, <2>1, <2>7, <3>4, <3>5, StaysPrepared
  <2>8. QED
    BY <2>2, <2>3, <2>4, <2>5, <2>6, <2>7
<1>5. CASE pc = "sleep"
  <2>1. ~SettingUp /\ Registered /\ flag = 0 /\ ~SettingUp' /\ control_register = 0 /\ ~irq
    BY <1>0, <1>5, ResponseSettingUp, NextSettingUp DEF FlagGuards, Registered, irq, interrupt_enable
  <2>2. Edges(Control(7))
    BY <1>0, <1>5, ResponseAccess DEF OnScript
  <2>3. TimerMeasures /\ TimerKept
    BY <2>1 DEF TimerMeasures
  <2>4. /\ CountDown /\ RunsOut /\ force_reload' = 0 /\ control_register' = 7
        /\ counter_is_running' = 1
        /\ UNCHANGED <<period_l_register, period_h_register>>
    BY <2>2, ControlEdge
  <2>5. counter_load_value = FullPeriod
    BY <2>3, LoadsPeriod DEF TimerKept
  <2>6. TimerKept'
    BY <1>2, <2>3, <2>4, <2>5 DEF TimerKept, CountDown, counter_is_zero
  <2>7. timeout_occurred' = 1 => internal_counter' = FullPeriod
    <3>1. timeout_occurred' = 1 => internal_counter = 0 \/ counter_is_running = 0
      BY <1>0, <2>1, <2>3, <2>4 DEF RunsOut, timeout_event, counter_is_zero, TimerMeasures, TimerBits, SeenInv
    <3>2. counter_is_running = 0 => internal_counter = FullPeriod
      BY <2>3 DEF TimerKept
    <3>3. QED
      BY <1>2, <2>3, <2>4, <2>5, <3>1, <3>2 DEF CountDown, counter_is_zero, TimerBits, SeenInv, TimerKept
  <2>8. irq' => internal_counter' = FullPeriod + 1 - sinceIrq' /\ sinceIrq' = 1
    <3>1. irq' => timeout_occurred' = 1 /\ sinceIrq' = 1
      BY <1>0, <2>1 DEF Edges, irq
    <3>2. QED
      BY <1>2, <2>7, <3>1
  <2>9. (irq => Elapsed(Late))'
    BY <1>0, <2>4, <2>8, LateStarts DEF Elapsed
  <2>10. TimerMeasures'
    BY <1>0, <2>1, <2>4, <2>6, <2>9 DEF TimerMeasures
  <2>11. QED
    BY <1>0, <1>5, <2>10 DEF Preparing
<1>6. QED
  BY <1>0, <1>3, <1>4, <1>5, ResponseAccess DEF OnScript

(* response_isr's accesses.                                                *)
LEMMA MeasureAccess ==
  ASSUME OnScript, TimerBits, program = "response", FlagGuards,
         Registered /\ ~SettingUp => TimerMeasures, Write \/ BeginRead \/ EndRead, InHandler
  PROVE  Preparing' /\ ((Registered /\ ~SettingUp)' => TimerMeasures')
<1>0. /\ UNCHANGED <<program, pc, todo, handling, flag>> /\ handling # "none"
      /\ isrTodo # <<>> /\ Edges(Head(isrTodo)) /\ IsrLeft \in Nat \ {0}
      /\ isrTodo' = Tail(isrTodo) => IsrLeft' = IsrLeft - 1
      /\ isrTodo' = isrTodo => IsrLeft' = IsrLeft
  BY HandlerStep DEF Write, BeginRead, EndRead, MayAccess, Done, Pending, InHandler, OnScript, IsrLeft
<1>1. CASE ~Registered
  BY <1>0, <1>1 DEF Preparing, Registered
<1>2. CASE Registered
  <2>1. ~SettingUp /\ ~SettingUp' /\ TimerMeasures /\ TimerKept /\ flag' # 1 /\ Isr(handling) = "response"
    BY <1>0, <1>2 DEF FlagGuards, TimerMeasures, SettingUp, TakesTimer, OnScript, HandlerOnScript, Isr
  <2>2. SUFFICES TimerMeasures'
    BY <1>0, <2>1, StaysPrepared DEF TimerMeasures
  <2>3. \/ IsrLeft = 5 /\ Head(isrTodo) = TakeSnapshot
        \/ IsrLeft = 4 /\ Head(isrTodo) = ReadSnapshot(4)
        \/ IsrLeft = 3 /\ Head(isrTodo) = ReadSnapshot(5)
        \/ IsrLeft = 2 /\ Head(isrTodo) = Control(0)
        \/ IsrLeft = 1 /\ Head(isrTodo) = ClearStatus
    BY <1>0, <2>1, HandlerAccess DEF OnScript
  <2>4. CASE IsrLeft = 5 /\ Head(isrTodo) = TakeSnapshot
    <3>1. Write
      BY <1>0, <2>4 DEF BeginRead, EndRead, OnScript, Pending, InHandler, TakeSnapshot, Timer, WriteTo
    <3>2. IsrLeft' = 4 /\ reading' = 0
      BY <1>0, <2>4, <3>1 DEF Write, MayAccess, Done
    <3>3. /\ CountDown /\ RunsOn /\ RunsOut /\ force_reload' = 0
          /\ counter_snapshot' = internal_counter /\ response' = sinceIrq
          /\ UNCHANGED <<control_register, period_l_register, period_h_register>>
      BY <1>0, <2>4, SnapshotEdge
    <3>4. TimerKept' /\ control_register' = 7
      BY <1>0, <2>1, <2>4, <3>3, KeptEdge DEF TimerMeasures, TimerKept
    <3>5. internal_counter = FullPeriod + 1 - sinceIrq /\ sinceIrq \in 1 .. HalfSpan
      <4>1. /\ Pause \in Nat /\ Crossing \in Nat /\ Crossing + 2 * Pause + 2 <= HalfSpan
            /\ HalfSpan \in Nat /\ idle \in 0 .. Pause
        BY PauseAssumption, CrossingAssumption, ResponseAssumption, HalfSpanAssumption DEF OnScript
      <4>2. Elapsed(Crossing + Pause + 2 + idle)
        BY <1>0, <2>1, <2>4 DEF TimerMeasures
      <4>3. QED
        BY <4>1, <4>2 DEF Elapsed
    <3>6. counter_snapshot' % HalfSpan = HalfSpan - response'
      BY <3>3, <3>5, LowHalf
    <3>7. QED
      BY <1>0, <2>1, <3>2, <3>4, <3>6 DEF TimerMeasures
  <2>5. CASE IsrLeft = 4 /\ Head(isrTodo) = ReadSnapshot(4)
    <3>1. /\ CountDown /\ RunsOn /\ RunsOut /\ force_reload' = 0
          /\ readdata' = counter_snapshot % HalfSpan
          /\ UNCHANGED <<control_register, period_l_register, period_h_register,
                         counter_snapshot, response>>
      BY <1>0, <2>5, ReadEdge DEF ReadSnapshot
    <3>2. TimerKept' /\ control_register' = 7
      BY <1>0, <2>1, <2>5, <3>1, KeptEdge DEF TimerMeasures, TimerKept
    <3>3. /\ counter_snapshot % HalfSpan = HalfSpan - response
          /\ reading = 1 => readdata = HalfSpan - response
      BY <1>0, <2>1, <2>5 DEF TimerMeasures
    <3>4. CASE BeginRead
      <4>1. IsrLeft' = 4
        BY <1>0, <2>5, <3>4 DEF BeginRead
      <4>2. QED
        BY <1>0, <2>1, <3>1, <3>2, <3>3, <4>1 DEF TimerMeasures
    <3>5. CASE EndRead
      <4>1. IsrLeft' = 3 /\ snapl' = readdata
        BY <1>0, <2>5, <3>5 DEF EndRead, Done, Pending, InHandler
      <4>2. snapl' = HalfSpan - response'
        BY <3>1, <3>3, <3>5, <4>1 DEF EndRead
      <4>3. QED
        BY <1>0, <2>1, <3>1, <3>2, <4>1, <4>2 DEF TimerMeasures
    <3>6. ~Write
      BY <1>0, <2>5 DEF Write, Pending, InHandler, ReadSnapshot, Timer, ReadFrom
    <3>7. QED
      BY <3>4, <3>5, <3>6
  <2>6. CASE IsrLeft = 3 /\ Head(isrTodo) = ReadSnapshot(5)
    <3>1. /\ CountDown /\ RunsOn /\ RunsOut /\ force_reload' = 0
          /\ UNCHANGED <<control_register, period_l_register, period_h_register, response>>
      BY <1>0, <2>6, ReadEdge DEF ReadSnapshot
    <3>2. TimerKept' /\ control_register' = 7
      BY <1>0, <2>1, <2>6, <3>1, KeptEdge DEF TimerMeasures, TimerKept
    <3>3. snapl' = HalfSpan - response'
      <4>1. snapl' = snapl
        BY <1>0, <2>6 DEF Write, BeginRead, EndRead, Pending, InHandler, ReadSnapshot, Timer, ReadFrom
      <4>2. QED
        BY <1>0, <2>1, <2>6, <3>1, <4>1 DEF TimerMeasures
    <3>4. IsrLeft' \in {2, 3}
      BY <1>0, <2>6 DEF Write, BeginRead, EndRead, Done
    <3>5. QED
      BY <1>0, <2>1, <3>2, <3>3, <3>4 DEF TimerMeasures
  <2>7. CASE IsrLeft \in {1, 2} /\ Head(isrTodo) \in {Control(0), ClearStatus}
    <3>1. Write
      BY <1>0, <2>7 DEF BeginRead, EndRead, OnScript, Pending, InHandler, Control, ClearStatus,
                        Timer, WriteTo
    <3>2. IsrLeft' = IsrLeft - 1 /\ snapl' = snapl
      BY <1>0, <3>1 DEF Write, Done
    <3>3. /\ CountDown /\ RunsOn /\ force_reload' = 0 /\ control_register' \in {0, 7}
          /\ UNCHANGED <<period_l_register, period_h_register, response>>
          /\ IsrLeft = 1 => timeout_occurred' = 0
      <4>1. CASE Head(isrTodo) = Control(0)
        <5>1. Edges(Control(0)) /\ 0 \in {0, 2, 3, 7} /\ IsrLeft # 1
          BY <1>0, <2>3, <4>1 DEF Control, ClearStatus, Timer, WriteTo
        <5>2. QED
          BY <5>1, ControlEdge
      <4>2. CASE Head(isrTodo) = ClearStatus
        BY <1>0, <2>1, <4>2, ClearEdge DEF TimerKept
      <4>3. QED
        BY <2>7, <4>1, <4>2
    <3>4. TimerKept'
      BY <2>1, <3>3, KeptEdge
    <3>5. snapl' = HalfSpan - response'
      BY <1>0, <2>1, <2>7, <3>2, <3>3 DEF TimerMeasures
    <3>6. QED
      BY <1>0, <2>1, <2>7, <3>2, <3>3, <3>4, <3>5 DEF TimerMeasures
  <2>8. QED
    BY <2>3, <2>4, <2>5, <2>6, <2>7
<1>3. QED
  BY <1>1, <1>2

(* The handler is entered with the irq, a crossing and a pause late at     *)
(* most.                                                                   *)
LEMMA MeasureHandler ==
  ASSUME OnScript, SeenInv, Measured, FlagGuards, FlagGuards',
         Registered /\ ~SettingUp => TimerMeasures, Interrupt \/ Return
  PROVE  Preparing' /\ ((Registered /\ ~SettingUp)' => TimerMeasures')
<1>0. /\ UNCHANGED <<program, pc, todo, snapl>> /\ Edges(Nowhere) /\ reading' = 0 /\ idle' = 0
      /\ program = "response" /\ TimerBits
  BY DEF Interrupt, Return, Measured, SeenInv
<1>a. Interrupt => irq
  BY <1>0 DEF Interrupt, InHandler, Interrupted, portInterrupts, SeenInv, Stale, Measured
<1>1. CASE ~Registered
  BY <1>0, <1>1 DEF Preparing, Registered
<1>2. CASE Registered
  <2>1. ~SettingUp /\ ~SettingUp'
    BY <1>0, <1>a DEF Interrupt, Return, InHandler, irq, FlagGuards, SettingUp, TakesTimer
  <2>2. /\ CountDown /\ RunsOn /\ RunsOut /\ force_reload' = 0
        /\ UNCHANGED <<control_register, period_l_register, period_h_register,
                       counter_snapshot, response>>
    BY <1>0, QuietEdge DEF Nowhere
  <2>3. TimerMeasures /\ TimerKept /\ control_register' \in {0, 7}
    BY <1>2, <2>1, <2>2 DEF TimerMeasures, TimerKept
  <2>4. TimerKept'
    BY <1>0, <2>2, <2>3, KeptEdge
  <2>5. SUFFICES TimerMeasures'
    BY <1>0, <2>1, <2>4, StaysPrepared
  <2>6. CASE Interrupt
    <3>1. irq /\ handling = "none" /\ handling' = "timer" /\ isrTodo' = Handler("response") /\ flag' = flag
      BY <1>0, <1>2, <1>a, <2>6 DEF Interrupt, InHandler, Interrupted, portInterrupts, Line, Isr, TakesTimer
    <3>2. IsrLeft' = 5
      BY <3>1, Handlers DEF IsrLeft
    <3>3. control_register' = 7
      BY <2>2, <2>3, <3>1, ControlBits DEF irq, TimerKept
    <3>4. flag' # 1
      BY <3>1 DEF FlagGuards
    <3>5. /\ Pause \in Nat /\ Crossing \in Nat /\ Crossing + 2 * Pause + 2 <= HalfSpan
          /\ HalfSpan \in Nat /\ idle \in 0 .. Pause
      BY PauseAssumption, CrossingAssumption, ResponseAssumption, HalfSpanAssumption DEF OnScript
    <3>6. Elapsed(Crossing + idle + 1) /\ Crossing + idle + 1 \in 1 .. HalfSpan - 1
      BY <2>3, <2>6, <3>1, <3>5, <1>0 DEF TimerMeasures, Late, Interrupt, Interrupted, portInterrupts
    <3>7. /\ irq' /\ counter_is_running' = 1 /\ internal_counter' = FullPeriod + 1 - sinceIrq'
          /\ sinceIrq' \in 1 .. Crossing + idle + 1 + 1
      BY <1>0, <2>2, <2>3, <3>1, <3>6, IrqEdge
    <3>8. (irq /\ Elapsed(Crossing + Pause + 2 + idle))'
      BY <1>0, <3>5, <3>7 DEF Elapsed
    <3>9. QED
      BY <1>0, <2>4, <3>1, <3>2, <3>3, <3>4, <3>8 DEF TimerMeasures
  <2>7. CASE Return
    <3>1. handling # "none" /\ handling' = "none" /\ IsrLeft = 0
      BY <2>7, EmptyLists DEF Return, InHandler
    <3>2. control_register = 0 /\ ~irq'
      <4>1. IsrLeft <= 1 /\ handling = "timer"
        BY <1>0, <3>1 DEF OnScript, HandlerOnScript
      <4>2. control_register = 0
        BY <1>2, <4>1 DEF FlagGuards
      <4>3. QED
        BY <2>2, <4>2 DEF irq, interrupt_enable
    <3>3. snapl' = HalfSpan - response'
      BY <1>0, <2>2, <2>3, <3>1 DEF TimerMeasures
    <3>4. timeout_occurred' = 1 => counter_is_running' = 0
      BY <1>0, <2>2, <2>3, <3>1, <3>2, KeptEdge DEF TimerMeasures, RunsOut, timeout_event,
                                                    counter_is_zero, TimerBits
    <3>5. QED
      BY <2>4, <3>1, <3>2, <3>3, <3>4 DEF TimerMeasures
  <2>8. QED
    BY <2>6, <2>7
<1>3. QED
  BY <1>1, <1>2

LEMMA MeasureInvStep ==
  ASSUME OnScript, SeenInv, FlagInv, MeasureInv, [Next]_vars
  PROVE  MeasureInv'
<1>1. CASE Next
  <2> SUFFICES ASSUME Measured' PROVE (Preparing /\ (Registered /\ ~SettingUp => TimerMeasures))'
    BY DEF MeasureInv
  <2>1. PICK bus : Edges(bus)
    BY <1>1, StepIsEdge
  <2>2. /\ program = "response" /\ Measured /\ FlagGuards /\ TimerBits
        /\ Preparing /\ (Registered /\ ~SettingUp => TimerMeasures)
    BY <1>1, <2>1, SameProgram DEF Measured, Edges, FlagInv, MeasureInv
  <2>3. FlagGuards' /\ LagInv'
    BY <1>1, FlagInvStep, SeenInvStep DEF FlagInv, SeenInv
  <2>4. CASE Compute
    <3>1. Registered' = Registered /\ SettingUp' = SettingUp
      BY <2>4 DEF Compute, Registered, SettingUp, TakesTimer
    <3>2. Preparing'
      BY <2>2, <2>4, PrepareWait DEF TimerMeasures
    <3>3. QED
      BY <2>2, <2>4, <3>1, <3>2, MeasureWait
  <2>5. CASE (Write \/ BeginRead \/ EndRead) /\ InHandler
    BY <2>2, <2>5, MeasureAccess
  <2>6. CASE Write /\ ~InHandler
    BY <2>2, <2>3, <2>6, MeasureSetup
  <2>7. ~((BeginRead \/ EndRead) /\ ~InHandler)
    <3> SUFFICES ASSUME BeginRead \/ EndRead, ~InHandler PROVE FALSE
      OBVIOUS
    <3>1. todo # <<>> /\ Head(todo).acc.kind = "read"
      BY DEF BeginRead, EndRead, MayAccess, Pending, OnScript
    <3>2. Head(todo) \in {Control(0), Control(2), PERIODL, PERIODH, Control(3), Control(7)}
      BY <2>2, <3>1, BootAccess, ResponseAccess DEF OnScript
    <3>3. QED
      BY <3>1, <3>2 DEF Control, PERIODL, PERIODH, Timer, WriteTo
  <2>8. CASE Interrupt \/ Return
    BY <2>2, <2>3, <2>8, MeasureHandler
  <2>9. CASE ~(Compute \/ Write \/ BeginRead \/ EndRead \/ Interrupt \/ Return)
    BY <1>1, <2>2, <2>9, MeasureSteps
  <2>10. QED
    BY <2>4, <2>5, <2>6, <2>7, <2>8, <2>9
<1>2. CASE UNCHANGED vars
  BY <1>2 DEF vars, irqVars, Late, softVars, timerVars, history, MeasureInv, Measured, Preparing, Stopped, Registered,
              SettingUp, TakesTimer, MainLeft, IsrLeft, TimerMeasures, TimerKept, Elapsed, irq,
              interrupt_enable
<1>3. QED
  BY <1>1, <1>2

(* What measure_response_time prints is the time from the interrupt to the *)
(* snapshot, however late the handler took it and however long the timer   *)
(* stood or ran before, unless the system clock ran out while the timer    *)
(* was being taken over.                                                   *)
THEOREM SnapshotsAreTheResponse == Spec => []ResponseIsMeasured
<1>1. Init => MeasureInv
  <2>1. Init => pc = "boot"
    BY DEF Init
  <2>2. QED
    BY <2>1 DEF MeasureInv, Preparing, Registered
<1>2. OnScript /\ FlagInv /\ MeasureInv => ResponseIsMeasured
  <2> SUFFICES ASSUME OnScript, FlagInv, MeasureInv, program = "response", flag = 1, ~early
               PROVE  HalfSpan - 1 - snapl + 1 = response
    BY DEF ResponseIsMeasured
  <2>1. Registered /\ ~SettingUp
    BY DEF FlagInv, Measured, FlagGuards
  <2>2. snapl = HalfSpan - response
    BY <2>1 DEF MeasureInv, Measured, TimerMeasures
  <2>3. QED
    BY <2>2, HalfSpanAssumption DEF FlagInv, TimerBits
<1>3. QED
  BY <1>1, <1>2, MeasureInvStep, ProgramsFollowTheirLists, TimerIrqIsReal,
     FlagHoldsInterruptsOff, PTL DEF Spec

-----------------------------------------------------------------------------
(* What the counter holds.                                                 *)

Counted == program = "recovery" /\ ~early

(* It stands at 0, waits for its reset pulse, or counts from the handler.  *)
Standing == iEn = 0 /\ iRz = 0 /\ iCounter = 0
Cleared == iEn = 0 /\ ((idle = 0 /\ iRz = 1) \/ (iRz = 0 /\ iCounter = 0))
Counting == iEn = 1 /\ iRz = 0 /\ iCounter = sinceStart /\ control_register = 0

(* Once armed: before the interrupt, in its handler, and after it.         *)
Armed == Standing /\ control_register = 7 /\ (handling = "none" \/ IsrLeft = 3)
Starting == Standing /\ control_register = 0 /\ handling # "none" /\ IsrLeft \in {1, 2}
Started == Counting /\ (handling = "none" \/ IsrLeft = 0)
ArmedOrCounting == Armed \/ Starting \/ Started

CountGuards ==
  /\ SettingUp => handling = "none" /\ timeout_occurred = 0
  /\ ~Registered \/ SettingUp => iEn = 0
  /\ pc = "poll" /\ MainLeft = 2 => Cleared
  /\ pc = "poll" /\ MainLeft = 1 => Standing
  /\ pc \in {"poll", "sleep"} /\ todo = <<>> => ArmedOrCounting
  /\ pc = "polled" => ArmedOrCounting
  /\ pc = "polled" /\ todo # <<>> => reads = <<>>
  /\ pc = "polled" /\ todo # <<>> /\ reading = 1 /\ handling = "none" /\ ReadData # 0 => Counting
  /\ pc = "polled" /\ todo = <<>> /\ reads # <<0>> => Counting /\ handling = "none"
  /\ pc = "print" => Counting /\ handling = "none"
  /\ pc = "sleep" /\ todo # <<>> => handling = "none" /\ control_register = 0
  /\ pc = "sleep" /\ MainLeft = 3 => Counting
  /\ pc = "sleep" /\ MainLeft = 2 => iEn = 0 /\ iRz = 0
  /\ pc = "sleep" /\ MainLeft = 1 => Cleared

CountInv == Counted => CountGuards

(* An edge that neither starts, stops nor resets the counter.              *)
CounterRuns ==
  /\ pCounter /\ iRz' = 0 /\ iEn' = iEn
  /\ sinceStart' = IF program # "recovery" \/ early \/ iEn = 0 THEN 0 ELSE (sinceStart + 1) % CounterSpan

LEMMA CounterEdges ==
  ASSUME NEW bus, Edges(bus)
  PROVE  /\ bus.slave # "counter" \/ bus = ICOUNTER => CounterRuns
         /\ bus.slave # "timer" => control_register' = control_register
         /\ bus = ICOUNTER => ReadData' = iCounter
         /\ bus = IRZ => pCounter /\ iRz' = 1 /\ iEn' = iEn
         /\ bus = ISTOP => pCounter /\ iRz' = 0 /\ iEn' = 0
         /\ bus = ISTART => pCounter /\ iRz' = 0 /\ iEn' = 1 /\ sinceStart' = 0
<1> USE DEF ICOUNTER, IRZ, ISTOP, ISTART, InterruptCounter, WriteTo, ReadFrom, ARBITVAL
<1>1. /\ CounterEdge(IF bus.slave = "counter" THEN bus.acc ELSE NoAccess)
      /\ sinceStart' = IF program # "recovery" \/ early \/ iEn = 0
                          \/ (bus.slave = "counter" /\ bus = ISTART)
                       THEN 0 ELSE (sinceStart + 1) % CounterSpan
  BY DEF Edges
<1>2. CASE bus.slave # "counter"
  BY <1>1, <1>2, QuietEdge DEF CounterEdge, pRegWr, Writes, NoAccess, CounterRuns
<1>3. CASE bus = ICOUNTER
  BY <1>1, <1>3, QuietEdge DEF CounterEdge, pRegWr, pRegRd, Writes, Reads, CounterRuns
<1>4. CASE bus \in {IRZ, ISTOP, ISTART}
  BY <1>1, <1>4, QuietEdge DEF CounterEdge, pRegWr, Writes
<1>5. CASE bus.slave = "counter" /\ bus \notin {ICOUNTER, IRZ, ISTOP, ISTART}
  BY <1>5, QuietEdge
<1>6. QED
  BY <1>2, <1>3, <1>4, <1>5

LEMMA CountsOn ==
  ASSUME CounterRuns, Counted
  PROVE  /\ Counting /\ control_register' = control_register => Counting'
         /\ Standing => Standing'
         /\ Cleared => Standing'
BY DEF CounterRuns, Counted, pCounter, Counting, Standing, Cleared

LEMMA StaysArmedOrCounting ==
  ASSUME CounterRuns, Counted, ArmedOrCounting,
         UNCHANGED <<control_register, handling, isrTodo>>
  PROVE  ArmedOrCounting'
<1>1. IsrLeft' = IsrLeft
  BY DEF IsrLeft
<1>2. QED
  BY <1>1, CountsOn DEF ArmedOrCounting, Armed, Starting, Started

(* While the recovery timer is set up.                                     *)
LEMMA RecoverySettingUp ==
  ASSUME program = "recovery"
  PROVE  SettingUp <=> (pc = "setup" \/ (pc = "poll" /\ todo # <<>>))
BY AfterSetups DEF SettingUp, TakesTimer

LEMMA NextRecoverySettingUp ==
  ASSUME program' = "recovery"
  PROVE  SettingUp' <=> (pc' = "setup" \/ (pc' = "poll" /\ todo' # <<>>))
BY AfterSetups DEF SettingUp, TakesTimer

LEMMA CountWait ==
  ASSUME OnScript, Counted, CountGuards, Compute, SettingUp' => timeout_occurred' = 0
  PROVE  CountGuards'
<1>1. /\ UNCHANGED <<program, pc, todo, handling, isrTodo, reads>> /\ Edges(Nowhere) /\ reading' = 0
  BY DEF Compute
<1>2. CounterRuns /\ control_register' = control_register
  BY <1>1, CounterEdges DEF Nowhere
<1>3. MainLeft' = MainLeft /\ SettingUp' = SettingUp /\ Registered' = Registered
  BY <1>1 DEF MainLeft, SettingUp, TakesTimer, Registered
<1>4. /\ ArmedOrCounting => ArmedOrCounting'
      /\ Counting => Counting'
      /\ Standing => Standing'
      /\ Cleared => Cleared'
      /\ iEn' = iEn /\ iRz' = 0
  <2>1. Standing' => Cleared'
    BY DEF Standing, Cleared
  <2>2. QED
    BY <1>1, <1>2, <2>1, CountsOn, StaysArmedOrCounting DEF CounterRuns
<1>5. QED
  BY <1>1, <1>2, <1>3, <1>4 DEF CountGuards

(* The steps of the main program from place to place.                      *)
LEMMA CountSteps ==
  ASSUME OnScript, Counted, CountGuards, Next, SettingUp' => timeout_occurred' = 0,
         ~(Compute \/ Write \/ BeginRead \/ EndRead \/ Interrupt \/ Return)
  PROVE  CountGuards'
<1>1. /\ Edges(Nowhere) /\ UNCHANGED <<program, handling, isrTodo>> /\ program = "recovery"
      /\ handling = "none" /\ reading' = 0 /\ todo = <<>>
  BY DEF Next, Register, SetUp, Loop, TestFlag, PrintResponse, ClearFlag, Poll, Polled,
         PrintRecovery, Wake, Goto, At, MainRuns, Counted
<1>2. CounterRuns /\ control_register' = control_register
  BY <1>1, CounterEdges DEF Nowhere
<1>3. /\ ArmedOrCounting => ArmedOrCounting'
      /\ Counting => Counting'
      /\ iEn' = iEn
  BY <1>1, <1>2, CountsOn, StaysArmedOrCounting DEF CounterRuns
<1>4. pc' = "setup" \/ (pc' = "poll" /\ todo' # <<>>) => timeout_occurred' = 0
  BY <1>1, NextRecoverySettingUp
<1>a. SettingUp' <=> (pc' = "setup" \/ (pc' = "poll" /\ todo' # <<>>))
  BY <1>1, NextRecoverySettingUp
<1>b. todo' = <<>> => MainLeft' = 0
  BY DEF MainLeft
<1>5. CASE Register
  <2>1. pc = "boot" /\ pc' = "setup" /\ todo' = <<>>
    BY <1>5 DEF Register, Goto, At
  <2>2. QED
    BY <1>1, <1>3, <1>4, <1>a, <2>1 DEF CountGuards, Registered
<1>6. CASE SetUp
  <2>1. pc = "setup" /\ pc' = "poll" /\ todo' = Setup("recovery")
    BY <1>1, <1>6, AfterSetups DEF SetUp, Goto, At, Registers, TakesTimer
  <2>2. MainLeft' = 7
    BY <2>1, RecoverySetup DEF MainLeft
  <2>3. todo' # <<>> /\ SettingUp
    BY <1>1, <1>b, <2>1, <2>2, RecoverySettingUp
  <2>4. QED
    BY <1>1, <1>3, <1>4, <1>a, <2>1, <2>2, <2>3 DEF CountGuards
<1>7. CASE Poll \/ (Polled /\ pc' = "polled")
  <2>1. pc \in {"poll", "polled"} /\ pc' = "polled" /\ reads' = <<>> /\ todo' # <<>>
    BY <1>7 DEF Poll, Polled, Goto, At
  <2>2. QED
    BY <1>1, <1>3, <1>a, <2>1 DEF CountGuards, Registered
<1>8. CASE Polled /\ pc' # "polled"
  <2>1. pc = "polled" /\ pc' = "print" /\ reads # <<0>>
    BY <1>8 DEF Polled, Goto, At
  <2>2. QED
    BY <1>1, <1>3, <1>a, <2>1 DEF CountGuards, Registered
<1>9. CASE PrintRecovery
  <2>1. pc = "print" /\ pc' = "sleep" /\ todo' = <<ISTOP, IRZ, Control(7)>>
    BY <1>9 DEF PrintRecovery, Goto, At
  <2>2. MainLeft' = 3 /\ todo' # <<>>
    BY <2>1 DEF MainLeft
  <2>3. Counting /\ control_register = 0
    BY <2>1 DEF CountGuards, Counting
  <2>4. QED
    BY <1>1, <1>2, <1>3, <1>a, <2>1, <2>2, <2>3 DEF CountGuards, Registered
<1>10. CASE Wake
  <2>1. pc = "sleep" /\ pc' = "poll" /\ todo' = <<>>
    BY <1>1, <1>10, AfterSetups DEF Wake, Goto, At
  <2>2. QED
    BY <1>1, <1>3, <1>a, <1>b, <2>1 DEF CountGuards, Registered
<1>11. ~(Loop \/ TestFlag \/ PrintResponse \/ ClearFlag)
  BY <1>1 DEF Loop, TestFlag, PrintResponse, ClearFlag, Goto, At, OnScript, MainOnScript, Places
<1>12. QED
  BY <1>5, <1>6, <1>7, <1>8, <1>9, <1>10, <1>11 DEF Next

(* setup_recovery_timer's accesses, and those between two measurements.    *)
LEMMA CountSetup ==
  ASSUME OnScript, Counted, CountGuards, Write, ~InHandler, SettingUp' => timeout_occurred' = 0
  PROVE  CountGuards'
<1>0. /\ UNCHANGED <<program, pc, handling, isrTodo>> /\ handling = "none" /\ idle' = 0 /\ idle > 0
      /\ todo' = Tail(todo) /\ todo # <<>> /\ Edges(Head(todo)) /\ program = "recovery"
      /\ Head(todo).acc.kind = "write"
  BY CrossingAssumption, PauseAssumption
  DEF Write, MayAccess, Done, Pending, InHandler, OnScript, Counted
<1>1. MainLeft' = MainLeft - 1 /\ (todo' = <<>> <=> MainLeft = 1) /\ MainLeft \in Nat \ {0}
  BY <1>0, MainStep DEF OnScript
<1>2. SettingUp' <=> (pc = "setup" \/ (pc = "poll" /\ todo' # <<>>))
  BY <1>0, NextRecoverySettingUp
<1>3. pc = "poll" /\ todo' # <<>> => timeout_occurred' = 0
  BY <1>2
<1>4. Cleared => iEn = 0 /\ ((iRz = 0 /\ iCounter = 0) \/ iRz = 1)
  BY DEF Cleared
<1>5. CASE pc = "boot"
  <2>1. Edges(Control(7)) /\ iEn = 0
    BY <1>0, <1>5, BootAccess DEF OnScript, CountGuards, Registered
  <2>2. iEn' = 0
    BY <2>1, CounterEdges DEF Control, Timer, CounterRuns
  <2>3. QED
    BY <1>0, <1>2, <1>5, <2>2 DEF CountGuards
<1>6. CASE pc = "poll"
  <2>0. iEn = 0 /\ Registered'
    BY <1>0, <1>6, RecoverySettingUp DEF CountGuards, Registered
  <2>1. \/ MainLeft > 3 /\ Head(todo) \in {Control(0), Control(2), PERIODL, PERIODH}
        \/ MainLeft = 3 /\ Head(todo) = IRZ
        \/ MainLeft = 2 /\ Head(todo) = Control(3)
        \/ MainLeft = 1 /\ Head(todo) = Control(7)
    BY <1>0, <1>6, RecoveryAccess DEF OnScript
  <2>2. CASE MainLeft > 3 /\ Head(todo) \in {Control(0), Control(2), PERIODL, PERIODH}
    <3>1. iEn' = 0
      BY <1>0, <2>0, <2>2, CounterEdges DEF Control, PERIODL, PERIODH, Timer, CounterRuns
    <3>2. MainLeft' > 2 /\ todo' # <<>>
      BY <1>1, <2>2
    <3>3. QED
      BY <1>0, <1>2, <1>3, <1>6, <3>1, <3>2 DEF CountGuards
  <2>3. CASE MainLeft = 3 /\ Head(todo) = IRZ
    <3>1. Cleared'
      BY <1>0, <2>0, <2>3, CounterEdges DEF Cleared
    <3>2. MainLeft' = 2 /\ todo' # <<>> /\ iEn' = 0
      BY <1>1, <2>3, <3>1 DEF Cleared
    <3>3. QED
      BY <1>0, <1>2, <1>3, <1>6, <3>1, <3>2 DEF CountGuards
  <2>4. CASE MainLeft = 2 /\ Head(todo) = Control(3)
    <3>1. CounterRuns /\ Cleared
      BY <1>0, <1>6, <2>4, CounterEdges DEF Control, Timer, CountGuards
    <3>2. Standing'
      BY <3>1, CountsOn
    <3>3. MainLeft' = 1 /\ todo' # <<>> /\ iEn' = 0
      BY <1>1, <2>4, <3>2 DEF Standing
    <3>4. QED
      BY <1>0, <1>2, <1>3, <1>6, <3>2, <3>3 DEF CountGuards
  <2>5. CASE MainLeft = 1 /\ Head(todo) = Control(7)
    <3>1. CounterRuns /\ Standing /\ control_register' = 7
      BY <1>0, <1>6, <2>5, CounterEdges, ControlEdge DEF Control, Timer, CountGuards
    <3>2. ArmedOrCounting'
      BY <1>0, <3>1, CountsOn DEF ArmedOrCounting, Armed
    <3>3. MainLeft' = 0 /\ todo' = <<>>
      BY <1>1, <2>5
    <3>4. QED
      BY <1>0, <1>2, <1>6, <2>0, <3>2, <3>3 DEF CountGuards
  <2>6. QED
    BY <2>1, <2>2, <2>3, <2>4, <2>5
<1>7. CASE pc = "sleep"
  <2>0. ~SettingUp' /\ Registered'
    BY <1>0, <1>2, <1>7 DEF Registered
  <2>1. \/ MainLeft = 3 /\ Head(todo) = ISTOP
        \/ MainLeft = 2 /\ Head(todo) = IRZ
        \/ MainLeft = 1 /\ Head(todo) = Control(7)
    BY <1>0, <1>7, RecoveryAccess DEF OnScript
  <2>2. control_register = 0
    BY <1>0, <1>7 DEF CountGuards
  <2>3. CASE MainLeft = 3 /\ Head(todo) = ISTOP
    <3>1. iEn' = 0 /\ iRz' = 0 /\ control_register' = 0
      <4>1. Edges(ISTOP) /\ ISTOP.slave # "timer"
        BY <1>0, <2>3 DEF ISTOP, InterruptCounter
      <4>2. QED
        BY <2>2, <4>1, CounterEdges
    <3>2. MainLeft' = 2
      BY <1>1, <2>3
    <3>3. QED
      BY <1>0, <1>1, <1>7, <2>0, <2>3, <3>1, <3>2 DEF CountGuards
  <2>4. CASE MainLeft = 2 /\ Head(todo) = IRZ
    <3>1. Cleared' /\ control_register' = 0
      <4>1. Edges(IRZ) /\ IRZ.slave # "timer"
        BY <1>0, <2>4 DEF IRZ, InterruptCounter
      <4>2. iRz' = 1 /\ iEn' = 0 /\ control_register' = 0
        BY <1>7, <2>2, <2>4, <4>1, CounterEdges DEF CountGuards
      <4>3. QED
        BY <1>0, <4>2 DEF Cleared
    <3>2. MainLeft' = 1
      BY <1>1, <2>4
    <3>3. QED
      BY <1>0, <1>1, <1>7, <2>0, <2>4, <3>1, <3>2 DEF CountGuards
  <2>5. CASE MainLeft = 1 /\ Head(todo) = Control(7)
    <3>1. CounterRuns /\ Cleared /\ control_register' = 7
      BY <1>0, <1>7, <2>5, CounterEdges, ControlEdge DEF Control, Timer, CountGuards
    <3>2. ArmedOrCounting'
      BY <1>0, <3>1, CountsOn DEF ArmedOrCounting, Armed
    <3>3. MainLeft' = 0 /\ todo' = <<>>
      BY <1>1, <2>5
    <3>4. QED
      BY <1>0, <1>7, <2>0, <3>2, <3>3 DEF CountGuards
  <2>6. QED
    BY <2>1, <2>3, <2>4, <2>5
<1>8. ~(pc \in {"setup", "polled", "print"})
  BY <1>0, RecoveryAccess DEF OnScript, ICOUNTER, InterruptCounter, ReadFrom
<1>9. QED
  BY <1>0, <1>5, <1>6, <1>7, <1>8 DEF OnScript, MainOnScript, Places

(* The main program reads the counter to poll it and to print it.          *)
LEMMA CountRead ==
  ASSUME OnScript, Counted, CountGuards, BeginRead \/ EndRead, ~InHandler
  PROVE  CountGuards'
<1>0. /\ UNCHANGED <<program, pc, handling, isrTodo>> /\ handling = "none"
      /\ todo # <<>> /\ Edges(Head(todo)) /\ program = "recovery" /\ Head(todo).acc.kind = "read"
  BY DEF BeginRead, EndRead, MayAccess, Done, Pending, InHandler, OnScript, Counted
<1>1. pc \in {"polled", "print"} /\ MainLeft = 1 /\ Head(todo) = ICOUNTER
  <2>1. Head(todo) \notin {Control(0), Control(2), Control(3), Control(7), PERIODL, PERIODH, IRZ, ISTOP}
    BY <1>0 DEF Control, PERIODL, PERIODH, IRZ, ISTOP, Timer, InterruptCounter, WriteTo
  <2>2. QED
    BY <1>0, <2>1, BootAccess, RecoveryAccess DEF OnScript
<1>2. CounterRuns /\ control_register' = control_register /\ ReadData' = iCounter
  BY <1>0, <1>1, CounterEdges DEF ICOUNTER, InterruptCounter
<1>3. ~SettingUp' /\ Registered'
  BY <1>0, <1>1, NextRecoverySettingUp DEF Registered
<1>4. (ArmedOrCounting => ArmedOrCounting') /\ (Counting => Counting')
  BY <1>0, <1>2, CountsOn, StaysArmedOrCounting
<1>5. CASE BeginRead
  <2>1. todo' = todo /\ reads' = reads
    BY <1>5 DEF BeginRead
  <2>2. pc = "polled" /\ iCounter # 0 => Counting
    BY <1>0 DEF CountGuards, ArmedOrCounting, Armed, Starting, Started, Standing
  <2>3. QED
    BY <1>0, <1>1, <1>2, <1>3, <1>4, <2>1, <2>2 DEF CountGuards
<1>6. CASE EndRead
  <2>1. /\ todo' = <<>> /\ reading = 1
        /\ reads' = Append(reads, ReadData)
    <3>1. Head(todo).slave # "port"
      BY <1>1 DEF ICOUNTER, InterruptCounter
    <3>2. todo' = Tail(todo) /\ reading = 1 /\ reads' = Append(reads, ReadData)
      BY <1>0, <1>6, <3>1 DEF EndRead, Done, Pending, InHandler
    <3>3. QED
      BY <1>0, <1>1, <3>2, MainStep DEF OnScript
  <2>2. pc = "polled" => reads' = <<ReadData>>
    BY <1>0, <2>1 DEF CountGuards
  <2>3. pc = "polled" /\ reads' # <<0>> => Counting
    BY <1>0, <2>1, <2>2 DEF CountGuards
  <2>4. QED
    BY <1>0, <1>1, <1>3, <1>4, <2>1, <2>3 DEF CountGuards
<1>7. QED
  BY <1>5, <1>6

(* recovery_isr starts the counter in its last access.                     *)
LEMMA CountAccess ==
  ASSUME OnScript, Counted, CountGuards, Write \/ BeginRead \/ EndRead, InHandler
  PROVE  CountGuards'
<1>0. /\ UNCHANGED <<program, pc, todo, handling, reads>> /\ handling # "none"
      /\ isrTodo # <<>> /\ Edges(Head(isrTodo)) /\ IsrLeft \in Nat \ {0} /\ program = "recovery"
      /\ isrTodo' = Tail(isrTodo) => IsrLeft' = IsrLeft - 1
  BY HandlerStep DEF Write, BeginRead, EndRead, MayAccess, Done, Pending, InHandler, OnScript, Counted
<1>1. /\ MainLeft' = MainLeft /\ Registered' = Registered /\ ~SettingUp /\ ~SettingUp'
  <2>1. SettingUp' = SettingUp /\ Registered' = Registered /\ MainLeft' = MainLeft
    BY <1>0 DEF SettingUp, TakesTimer, Registered, MainLeft
  <2>2. QED
    BY <1>0, <2>1 DEF CountGuards
<1>2. CASE ~Registered
  <2>1. Isr(handling) = "tick"
    BY <1>0, <1>2 DEF Isr, TakesTimer, OnScript, HandlerOnScript
  <2>2. Head(isrTodo).slave # "counter"
    BY <1>0, <2>1, HandlerAccess DEF OnScript, ClearStatus, Timer
  <2>3. iEn' = 0
    BY <1>0, <1>2, <2>2, CounterEdges DEF CounterRuns, CountGuards
  <2>4. QED
    BY <1>0, <1>1, <1>2, <2>3 DEF CountGuards, Registered
<1>3. CASE Registered
  <2>1. /\ pc \in {"poll", "polled", "sleep"} /\ (pc \in {"poll", "sleep"} => todo = <<>>)
        /\ (pc = "polled" /\ todo = <<>> => reads = <<0>>)
    <3>1. pc \in {"setup", "poll", "polled", "print", "sleep"}
      BY <1>0, <1>3 DEF OnScript, MainOnScript, Places, Registered
    <3>2. pc # "setup" /\ (pc = "poll" => todo = <<>>)
      BY <1>0, <1>1, RecoverySettingUp
    <3>3. QED
      BY <1>0, <3>1, <3>2 DEF CountGuards
  <2>2. ArmedOrCounting
    BY <2>1 DEF CountGuards
  <2>3. Isr(handling) = "recovery"
    BY <1>0, <1>3 DEF Isr, TakesTimer, OnScript, HandlerOnScript
  <2>4. \/ IsrLeft = 3 /\ Head(isrTodo) = Control(0)
        \/ IsrLeft = 2 /\ Head(isrTodo) = ClearStatus
        \/ IsrLeft = 1 /\ Head(isrTodo) = ISTART
    BY <1>0, <2>3, HandlerAccess DEF OnScript
  <2>5. Write
    <3>1. Head(isrTodo).acc.kind = "write"
      BY <2>4 DEF Control, ClearStatus, ISTART, InterruptCounter, Timer, WriteTo
    <3>2. QED
      BY <1>0, <3>1 DEF BeginRead, EndRead, OnScript, Pending, InHandler
  <2>6. IsrLeft' = IsrLeft - 1
    BY <1>0, <2>5 DEF Write, Done
  <2>7. ArmedOrCounting'
    <3>1. Standing
      BY <1>0, <2>2, <2>4 DEF ArmedOrCounting, Armed, Starting, Started
    <3>2. CASE IsrLeft = 3 /\ Head(isrTodo) = Control(0)
      <4>1. Edges(Control(0)) /\ Control(0).slave # "counter" /\ 0 \in {0, 2, 3, 7}
        BY <1>0, <3>2 DEF Control, Timer
      <4>2. control_register' = 0 /\ Standing'
        BY <3>1, <4>1, ControlEdge, CounterEdges, CountsOn
      <4>3. QED
        BY <1>0, <2>6, <3>2, <4>2 DEF ArmedOrCounting, Starting
    <3>3. CASE IsrLeft = 2 /\ Head(isrTodo) = ClearStatus
      <4>1. Edges(ClearStatus) /\ ClearStatus.slave # "counter"
        BY <1>0, <3>3 DEF ClearStatus, Timer
      <4>2. control_register' = control_register /\ Standing'
        BY <3>1, <4>1, ClearEdge, CounterEdges, CountsOn
      <4>3. control_register = 0
        BY <1>0, <2>2, <3>3 DEF ArmedOrCounting, Armed, Starting, Started
      <4>4. QED
        BY <1>0, <2>6, <3>3, <4>2, <4>3 DEF ArmedOrCounting, Starting
    <3>4. CASE IsrLeft = 1 /\ Head(isrTodo) = ISTART
      <4>1. Edges(ISTART) /\ ISTART.slave # "timer"
        BY <1>0, <3>4 DEF ISTART, InterruptCounter
      <4>2. pCounter /\ iRz' = 0 /\ iEn' = 1 /\ sinceStart' = 0 /\ control_register' = control_register
        BY <4>1, CounterEdges
      <4>3. control_register = 0
        BY <1>0, <2>2, <3>4 DEF ArmedOrCounting, Armed, Starting, Started
      <4>4. Counting'
        BY <3>1, <4>2, <4>3 DEF Standing, Counting, pCounter
      <4>5. QED
        BY <2>6, <3>4, <4>4 DEF ArmedOrCounting, Started
    <3>5. QED
      BY <2>4, <3>2, <3>3, <3>4
  <2>8. todo = <<>> => MainLeft = 0
    BY DEF MainLeft
  <2>9. QED
    BY <1>0, <1>1, <1>3, <2>1, <2>7, <2>8 DEF CountGuards
<1>4. QED
  BY <1>2, <1>3

LEMMA CountHandler ==
  ASSUME OnScript, SeenInv, Counted, CountGuards, Interrupt \/ Return, SettingUp' => timeout_occurred' = 0
  PROVE  CountGuards'
<1>0. /\ UNCHANGED <<program, pc, todo, reads>> /\ Edges(Nowhere) /\ program = "recovery"
      /\ reading' = 0
  BY DEF Interrupt, Return, Counted
<1>1. /\ MainLeft' = MainLeft /\ Registered' = Registered /\ SettingUp' = SettingUp
  BY <1>0 DEF SettingUp, TakesTimer, Registered, MainLeft
<1>2. CounterRuns /\ control_register' = control_register
  BY <1>0, CounterEdges DEF Nowhere
<1>3. CASE Interrupt
  <2>1. /\ irq /\ control_register # 0 /\ handling = "none" /\ handling' = "timer"
        /\ isrTodo' = Handler(Isr("timer"))
    <3>1. /\ timerSeen = 1 /\ handling = "none" /\ handling' = "timer"
          /\ isrTodo' = Handler(Isr("timer"))
      BY <1>0, <1>3 DEF Interrupt, InHandler, Interrupted, portInterrupts, Line
    <3>2. irq
      BY <3>1 DEF SeenInv, Stale, Counted
    <3>3. QED
      BY <3>1, <3>2 DEF irq, interrupt_enable
  <2>2. ~SettingUp
    BY <2>1 DEF CountGuards, irq
  <2>3. CASE ~Registered
    <3>1. iEn' = 0
      BY <1>2, <2>3 DEF CountGuards, CounterRuns
    <3>2. QED
      BY <1>0, <1>1, <2>2, <2>3, <3>1 DEF CountGuards, Registered
  <2>4. CASE Registered
    <3>1. /\ pc \in {"poll", "polled", "sleep"} /\ (pc \in {"poll", "sleep"} => todo = <<>>)
          /\ (pc = "polled" /\ todo = <<>> => reads = <<0>>)
      <4>1. pc \in {"setup", "poll", "polled", "print", "sleep"}
        BY <1>0, <2>4 DEF OnScript, MainOnScript, Places, Registered
      <4>2. pc # "setup" /\ (pc = "poll" => todo = <<>>)
        BY <1>0, <2>2, RecoverySettingUp
      <4>3. QED
        BY <2>1, <4>1, <4>2 DEF CountGuards, Counting
    <3>2. Standing /\ control_register = 7
      BY <2>1, <3>1 DEF CountGuards, ArmedOrCounting, Armed, Starting, Started, Counting
    <3>3. IsrLeft' = 3
      <4>1. Isr("timer") = "recovery"
        BY <1>0, <2>4 DEF Isr, TakesTimer
      <4>2. QED
        BY <2>1, <4>1, Handlers DEF IsrLeft
    <3>4. ArmedOrCounting'
      BY <1>2, <2>1, <3>2, <3>3, CountsOn DEF ArmedOrCounting, Armed
    <3>5. todo = <<>> => MainLeft = 0
      BY DEF MainLeft
    <3>6. QED
      BY <1>0, <1>1, <2>1, <2>2, <2>4, <3>1, <3>4, <3>5 DEF CountGuards
  <2>5. QED
    BY <2>3, <2>4
<1>4. CASE Return
  <2>1. handling # "none" /\ handling' = "none" /\ IsrLeft = 0
    BY <1>4, EmptyLists DEF Return, InHandler
  <2>2. ~SettingUp
    BY <2>1 DEF CountGuards
  <2>3. ArmedOrCounting => ArmedOrCounting'
    BY <1>2, <2>1, CountsOn DEF ArmedOrCounting, Armed, Starting, Started
  <2>4. pc = "sleep" => todo = <<>>
    BY <2>1 DEF CountGuards
  <2>5. todo = <<>> => MainLeft = 0
    BY DEF MainLeft
  <2>6. pc = "poll" => todo = <<>>
    BY <1>0, <2>2, RecoverySettingUp
  <2>7. iEn' = iEn
    BY <1>2 DEF CounterRuns
  <2>8. QED
    BY <1>0, <1>1, <2>1, <2>2, <2>3, <2>4, <2>5, <2>6, <2>7 DEF CountGuards
<1>5. QED
  BY <1>3, <1>4

LEMMA CountInvStep ==
  ASSUME OnScript, SeenInv, CountInv, [Next]_vars
  PROVE  CountInv'
<1>1. CASE Next
  <2> SUFFICES ASSUME Counted' PROVE CountGuards'
    BY DEF CountInv
  <2>1. PICK bus : Edges(bus)
    BY <1>1, StepIsEdge
  <2>2. Counted /\ CountGuards
    BY <1>1, <2>1, SameProgram DEF Counted, Edges, CountInv
  <2>3. TimerBits'
    BY <2>1, TimerBitsStep DEF SeenInv
  <2>4. SettingUp' => timeout_occurred' = 0
    BY <2>1, <2>3 DEF Counted, Edges, TimerBits
  <2>5. CASE Compute
    BY <2>2, <2>4, <2>5, CountWait
  <2>6. CASE Write /\ ~InHandler
    BY <2>2, <2>4, <2>6, CountSetup
  <2>7. CASE (BeginRead \/ EndRead) /\ ~InHandler
    BY <2>2, <2>7, CountRead
  <2>8. CASE (Write \/ BeginRead \/ EndRead) /\ InHandler
    BY <2>2, <2>8, CountAccess
  <2>9. CASE Interrupt \/ Return
    BY <2>2, <2>4, <2>9, CountHandler
  <2>10. CASE ~(Compute \/ Write \/ BeginRead \/ EndRead \/ Interrupt \/ Return)
    BY <1>1, <2>2, <2>4, <2>10, CountSteps
  <2>11. QED
    BY <2>5, <2>6, <2>7, <2>8, <2>9, <2>10
<1>2. CASE UNCHANGED vars
  BY <1>2 DEF vars, softVars, timerVars, counterVars, history, CountInv, Counted, CountGuards, Registered,
              SettingUp, TakesTimer, MainLeft, IsrLeft, Standing, Cleared, Counting, ArmedOrCounting,
              Armed, Starting, Started
<1>3. QED
  BY <1>1, <1>2

(* While the counter runs for the recovery measurement it holds the cycles *)
(* since recovery_isr started it, also when the main loop reads it in      *)
(* between or was interrupted in a read: nothing is left over from the     *)
(* measurement before.                                                     *)
THEOREM CountsAreFromTheHandler == Spec => []CountsFromTheHandler
<1>1. Init => CountInv
  <2>1. Init => pc = "boot" /\ iEn = 0 /\ handling = "none" /\ timeout_occurred = 0
    BY DEF Init, CounterInit, TimerInit
  <2>2. QED
    BY <2>1 DEF CountInv, CountGuards, Registered
<1>2. OnScript /\ CountInv => CountsFromTheHandler
  <2> SUFFICES ASSUME OnScript, CountInv, program = "recovery", iEn = 1, ~early
               PROVE  iCounter = sinceStart
    BY DEF CountsFromTheHandler
  <2>1. CountGuards
    BY DEF CountInv, Counted
  <2>2. Registered /\ pc # "setup" /\ (pc = "poll" => todo = <<>>)
    BY <2>1, RecoverySettingUp DEF CountGuards
  <2>3. pc \in {"poll", "polled", "print", "sleep"}
    BY <2>2 DEF OnScript, MainOnScript, Places, Registered
  <2>4. pc = "sleep" /\ todo # <<>> => MainLeft \in {1, 2, 3}
    BY RecoveryAccess DEF OnScript
  <2>5. Counting
    BY <2>1, <2>2, <2>3, <2>4 DEF CountGuards, ArmedOrCounting, Armed, Starting, Started, Standing,
                                 Cleared
  <2>6. QED
    BY <2>5 DEF Counting
<1>3. QED
  BY <1>1, <1>2, CountInvStep, ProgramsFollowTheirLists, TimerIrqIsReal, PTL DEF Spec

-----------------------------------------------------------------------------
(* test_counter: what the reads of the counter show.                       *)

(* The system clock before it is started and after.                        *)
ClockStopped ==
  /\ control_register = 0 /\ counter_is_running = 0 /\ force_reload = 0
  /\ counter_load_value = ResetPeriod
  /\ internal_counter = ResetPeriod /\ timeout_occurred = 0

ClockRuns ==
  /\ control_register = 7 /\ counter_is_running = 1 /\ force_reload = 0
  /\ counter_load_value = ResetPeriod
  /\ internal_counter \in 0 .. ResetPeriod

ClockInv == IF pc = "boot" /\ todo # <<>> THEN ClockStopped ELSE ClockRuns

(* The main program is in the second cycle of a read.                      *)
MainReads == reading = 1 /\ handling = "none"

(* The count is e ahead of a.                                              *)
Ahead(a, e) == iCounter = IF a + e < CounterSpan THEN a + e ELSE a + e - CounterSpan

(* The cycles that may have gone by since the interrupt came up: until it  *)
(* is seen and the handler entered, and then, after a Crossing and before  *)
(* those counted in idle, by the handler's next access.                    *)
Awaited == IF timerSeen = 1 THEN Crossing + idle + 2 - reading ELSE timerLag
Spent ==
  IF handling = "none" THEN 4 * Pause + 6
  ELSE IF IsrLeft = 2 THEN Pause + 2
  ELSE IF IsrLeft = 0 THEN 3 * Pause + 5
  ELSE IF reading = 1 THEN 3 * Pause + 4
  ELSE 2 * Pause + 3

(* The clock was reloaded when it raised the irq.                          *)
TickServed ==
  /\ handling = "none" /\ irq => internal_counter >= ResetPeriod + 1 - Awaited
  /\ handling # "none" =>
       /\ timeout_occurred = 0 \/ IsrLeft = 2
       /\ internal_counter >= ResetPeriod - (Crossing + Spent + idle)

(* Between the two reads of the running counter, e cycles after the first: *)
(* no interrupt was served yet, or one was and the next is still away.     *)
NotServed(e) == handling = "none" /\ e = idle + 2

Served(e) ==
  /\ timeout_occurred = 0 \/ (handling = "timer" /\ IsrLeft = 2)
  /\ e >= 1 /\ e <= Spent + idle + 1
  /\ internal_counter >= ResetPeriod - (Crossing + Spent + idle)

BetweenReads ==
  /\ MainReads => ReadData # reads[1]
  /\ ~MainReads => \E e \in Nat : Ahead(reads[1], e) /\ (NotServed(e) \/ Served(e))

(* What the counter holds and the reads gave, by the accesses left.        *)
CounterOK ==
  /\ iCounter \in 0 .. CounterSpan - 1 /\ iRz \in {0, 1}
  /\ iRz = 1 => idle = 0 /\ reading = 0
  /\ reading = 1 => idle = 0

TestValues ==
  /\ pc = "boot" => iEn = 0
  /\ pc = "done" /\ MainLeft \in {11, 10} => iEn = 0
  /\ pc = "done" /\ MainLeft = 10 =>
       reads = <<>> /\ (iRz = 1 \/ iCounter = 0) /\ (MainReads => ReadData = 0)
  /\ pc = "done" /\ MainLeft = 9 => reads[1] = 0
  /\ pc = "done" /\ MainLeft \in {6, 5} =>
       iEn = 0 /\ iRz = 0 /\ (MainReads => ReadData = iCounter)
  /\ pc = "done" /\ MainLeft = 6 => reads = <<>>
  /\ pc = "done" /\ MainLeft = 5 => reads = <<iCounter>>
  /\ pc = "done" /\ MainLeft = 4 => reads[1] = reads[2]
  /\ pc = "done" /\ MainLeft \in {3, 2} => iEn = 1 /\ iRz = 0
  /\ pc = "done" /\ MainLeft = 3 => reads = <<>>
  /\ pc = "done" /\ MainLeft = 2 => reads = <<reads[1]>> /\ reads[1] \in 0 .. CounterSpan - 1
  /\ pc = "done" /\ MainLeft = 1 => reads[1] # reads[2]

TestWindow ==
  /\ pc = "done" /\ MainLeft = 3 /\ MainReads =>
       ReadData \in 0 .. CounterSpan - 1 /\ Ahead(ReadData, 1)
  /\ pc = "done" /\ MainLeft = 2 => BetweenReads

TestInv ==
  program = "test" =>
    ClockInv /\ (~Resting => TickServed) /\ CounterOK /\ TestValues /\ TestWindow

(* The system clock under its handler: it comes round in its period.       *)
LEMMA ClockEdge ==
  ASSUME ClockRuns, TimerBits, NEW bus, Edges(bus),
         bus.slave # "timer" \/ bus = ClearStatus \/ bus = Timer(ReadFrom(1))
  PROVE  /\ ClockRuns'
         /\ internal_counter' = IF internal_counter = 0 THEN ResetPeriod ELSE internal_counter - 1
         /\ bus = ClearStatus => timeout_occurred' = 0
         /\ timeout_occurred = 0 /\ internal_counter > 0 => timeout_occurred' = 0
         /\ irq <=> timeout_occurred = 1
         /\ irq' <=> timeout_occurred' = 1
<1>1. /\ CountDown /\ RunsOn /\ force_reload' = 0
      /\ RunsOut \/ timeout_occurred' = 0
      /\ bus = ClearStatus => timeout_occurred' = 0
      /\ UNCHANGED <<control_register, period_l_register, period_h_register>>
  <2>1. CASE bus = ClearStatus
    <3>1. Edges(ClearStatus)
      BY <2>1
    <3>2. QED
      BY <2>1, <3>1, ClearEdge
  <2>2. CASE bus = Timer(ReadFrom(1))
    <3>1. Edges(Timer(ReadFrom(1))) /\ 1 \in 0 .. 7
      BY <2>2
    <3>2. Timer(ReadFrom(1)) # ClearStatus
      BY DEF ClearStatus, Timer, ReadFrom, WriteTo
    <3>3. QED
      BY <2>2, <3>1, <3>2, ReadEdge
  <2>3. CASE bus.slave # "timer"
    <3>1. bus # ClearStatus
      BY <2>3 DEF ClearStatus, Timer
    <3>2. QED
      BY <2>3, <3>1, QuietEdge
  <2>4. QED
    BY <2>1, <2>2, <2>3
<1>2. control_register = 7 /\ (control_register \div 2) % 2 = 1 /\ control_register % 2 = 1
  BY DEF ClockRuns
<1>3. counter_load_value' = counter_load_value
  BY <1>1 DEF counter_load_value
<1>4. internal_counter' = IF internal_counter = 0 THEN ResetPeriod ELSE internal_counter - 1
  BY <1>1 DEF CountDown, ClockRuns, counter_is_zero
<1>5. internal_counter' \in 0 .. ResetPeriod
  BY <1>4, ResetPeriodAssumption DEF ClockRuns
<1>6. counter_is_running' = 1
  BY <1>1, <1>2 DEF RunsOn, ClockRuns, control_continuous
<1>7. ClockRuns'
  BY <1>1, <1>3, <1>5, <1>6 DEF ClockRuns
<1>8. timeout_occurred = 0 /\ internal_counter > 0 => timeout_occurred' = 0
  BY <1>1 DEF RunsOut, timeout_event, counter_is_zero
<1>9. (irq <=> timeout_occurred = 1) /\ (irq' <=> timeout_occurred' = 1)
  BY <1>1, <1>2 DEF irq, interrupt_enable
<1>10. QED
  BY <1>1, <1>4, <1>7, <1>8, <1>9

(* Before it is started it stands, and the start lets it run.              *)
LEMMA ClockStarts ==
  ASSUME ClockStopped, NEW bus, Edges(bus)
  PROVE  /\ bus.slave # "timer" \/ bus = ClearStatus \/ bus = Timer(ReadFrom(1)) => ClockStopped'
         /\ bus = Control(7) =>
              ClockRuns' /\ internal_counter' = ResetPeriod /\ timeout_occurred' = 0
<1>0. ResetPeriod > 0 /\ ResetPeriod \in Int
  BY ResetPeriodAssumption
<1>1. CASE bus = Control(7)
  <2>1. Edges(Control(7)) /\ 7 \in {0, 2, 3, 7} /\ Control(7).slave = "timer"
        /\ Control(7) # ClearStatus /\ Control(7) # Timer(ReadFrom(1))
    BY <1>1 DEF Control, ClearStatus, Timer, WriteTo, ReadFrom
  <2>2. /\ CountDown /\ RunsOut
        /\ force_reload' = 0 /\ control_register' = 7 /\ counter_is_running' = 1
        /\ UNCHANGED <<period_l_register, period_h_register>>
    BY <2>1, ControlEdge
  <2>3. ClockRuns' /\ internal_counter' = ResetPeriod /\ timeout_occurred' = 0
    BY <1>0, <2>2 DEF ClockStopped, ClockRuns, CountDown, RunsOut, timeout_event, counter_is_zero,
                      counter_load_value
  <2>4. QED
    BY <1>1, <2>1, <2>3
<1>2. CASE bus # Control(7) /\ (bus.slave # "timer" \/ bus = ClearStatus \/ bus = Timer(ReadFrom(1)))
  <2>1. /\ CountDown /\ RunsOn /\ force_reload' = 0 /\ (RunsOut \/ timeout_occurred' = 0)
        /\ UNCHANGED <<control_register, period_l_register, period_h_register>>
    <3>1. CASE bus = ClearStatus
      <4>1. Edges(ClearStatus)
        BY <3>1
      <4>2. QED
        BY <4>1, ClearEdge
    <3>2. CASE bus = Timer(ReadFrom(1))
      <4>1. Edges(Timer(ReadFrom(1))) /\ 1 \in 0 .. 7
        BY <3>2
      <4>2. QED
        BY <4>1, ReadEdge
    <3>3. CASE bus.slave # "timer"
      BY <3>3, QuietEdge
    <3>4. QED
      BY <1>2, <3>1, <3>2, <3>3
  <2>2. ClockStopped'
    BY <1>0, <2>1 DEF ClockStopped, CountDown, RunsOn, RunsOut, timeout_event, counter_is_zero,
                      counter_load_value
  <2>3. QED
    BY <1>2, <2>2
<1>3. QED
  BY <1>1, <1>2

(* One count on.                                                           *)
LEMMA CountNext ==
  ASSUME CounterOK, pCounter
  PROVE  /\ iCounter' \in 0 .. CounterSpan - 1
         /\ iRz = 1 => iCounter' = 0
         /\ iRz = 0 /\ iEn = 0 => iCounter' = iCounter
         /\ iRz = 0 /\ iEn = 1 =>
              iCounter' = IF iCounter + 1 < CounterSpan THEN iCounter + 1 ELSE 0
<1>1. CounterSpan \in Nat /\ CounterSpan > 0 /\ iCounter \in Nat /\ iCounter < CounterSpan
  BY CounterAssumption DEF CounterOK
<1>2. (iCounter + 1) % CounterSpan = IF iCounter + 1 < CounterSpan THEN iCounter + 1 ELSE 0
  <2>1. CASE iCounter + 1 < CounterSpan
    BY <1>1, <2>1
  <2>2. CASE iCounter + 1 = CounterSpan
    BY <1>1, <2>2
  <2>3. QED
    BY <1>1, <2>1, <2>2
<1>3. QED
  BY <1>1, <1>2 DEF pCounter, CounterOK

LEMMA AheadNext ==
  ASSUME CounterOK, pCounter, iRz = 0, iEn = 1, NEW a \in 0 .. CounterSpan - 1, NEW e \in Nat,
         Ahead(a, e), e + 1 < CounterSpan
  PROVE  iCounter' = IF a + (e + 1) < CounterSpan THEN a + (e + 1) ELSE a + (e + 1) - CounterSpan
<1>1. CounterSpan \in Nat
  BY CounterAssumption
<1>2. QED
  BY <1>1, CountNext DEF Ahead

(* The steps of both tests: the handler's and those that touch no slave,  *)
(* the accesses of the main program, and its start.                        *)
TestWaits(bus) ==
  /\ Edges(bus) /\ bus \in {Nowhere, ClearStatus, Timer(ReadFrom(1))}
  /\ UNCHANGED <<pc, todo, reads>>
  /\ ~MainReads /\ ~MainReads' /\ (reading' = 1 => idle' = 0)

LEMMA TestHandles ==
  ASSUME OnScript, program \in {"test", "test_port"}
  PROVE  /\ ~portInterrupts /\ Isr("timer") = "tick"
         /\ handling \in {"none", "timer"}
         /\ handling # "none" =>
              \/ IsrLeft = 2 /\ isrTodo # <<>> /\ Head(isrTodo) = ClearStatus
              \/ IsrLeft = 1 /\ isrTodo # <<>> /\ Head(isrTodo) = Timer(ReadFrom(1))
              \/ IsrLeft = 0 /\ isrTodo = <<>>
<1>1. handling \in {"none", "timer"}
  BY DEF OnScript, HandlerOnScript
<1>2. ~portInterrupts /\ Isr("timer") = "tick"
  BY DEF portInterrupts, Isr, TakesTimer
<1>3. handling # "none" => Isr(handling) = "tick"
  BY <1>1, <1>2
<1>4. QED
  BY <1>1, <1>2, <1>3, HandlerAccess, EmptyLists DEF OnScript

LEMMA TestSteps ==
  ASSUME OnScript, program \in {"test", "test_port"}, Next
  PROVE  \/ \E bus : TestWaits(bus)
         \/ (Write \/ BeginRead \/ EndRead) /\ ~InHandler
         \/ SetUp
<1>1. CASE Compute
  <2>1. TestWaits(Nowhere)
    BY <1>1 DEF Compute, TestWaits, MainReads
  <2>2. QED
    BY <2>1
<1>2. CASE Interrupt
  <2>1. handling' \in {"timer", "port"}
    BY <1>2 DEF Interrupt, Line
  <2>2. TestWaits(Nowhere)
    BY <1>2, <2>1 DEF Interrupt, TestWaits, MainReads
  <2>3. QED
    BY <2>2
<1>3. CASE Return
  <2>1. TestWaits(Nowhere)
    BY <1>3 DEF Return, TestWaits, MainReads, InHandler
  <2>2. QED
    BY <2>1
<1>4. CASE (Write \/ BeginRead \/ EndRead) /\ InHandler
  <2>1. /\ Edges(Head(isrTodo)) /\ isrTodo # <<>> /\ handling # "none"
        /\ UNCHANGED <<pc, todo, reads, handling>> /\ (reading' = 1 => idle' = 0)
    <3>1. CASE Write
      BY <1>4, <3>1 DEF Write, MayAccess, Done, Pending, InHandler
    <3>2. CASE BeginRead
      BY <1>4, <3>2 DEF BeginRead, MayAccess, Pending, InHandler
    <3>3. CASE EndRead
      BY <1>4, <3>3 DEF EndRead, OnScript, Done, Pending, InHandler
    <3>4. QED
      BY <1>4, <3>1, <3>2, <3>3
  <2>2. Head(isrTodo) \in {ClearStatus, Timer(ReadFrom(1))}
    BY <2>1, TestHandles
  <2>3. TestWaits(Head(isrTodo))
    BY <2>1, <2>2 DEF TestWaits, MainReads
  <2>4. QED
    BY <2>3
<1>5. pc \in {"boot", "done"} /\ ~Registers /\ ~TakesTimer
  BY DEF OnScript, MainOnScript, Places, Registers, TakesTimer
<1>6. ~(Register \/ Loop \/ TestFlag \/ PrintResponse \/ ClearFlag \/ Poll \/ Polled
        \/ PrintRecovery \/ Wake)
  BY <1>5 DEF Register, Loop, TestFlag, PrintResponse, ClearFlag, Poll, Polled, PrintRecovery,
              Wake, Goto, At
<1>7. QED
  BY <1>1, <1>2, <1>3, <1>4, <1>6 DEF Next

(* The clock under every one of them.                                      *)
LEMMA ClockInvWaits ==
  ASSUME OnScript, TimerBits, ClockInv, NEW bus, TestWaits(bus)
  PROVE  ClockInv'
<1>1. CASE pc = "boot" /\ todo # <<>>
  <2>1. ClockStopped /\ Edges(bus) /\ pc' = "boot" /\ todo' # <<>>
        /\ (bus.slave # "timer" \/ bus = ClearStatus \/ bus = Timer(ReadFrom(1)))
    BY <1>1 DEF ClockInv, TestWaits, Nowhere
  <2>2. ClockStopped'
    BY <2>1, ClockStarts
  <2>3. QED
    BY <2>1, <2>2 DEF ClockInv
<1>2. CASE ~(pc = "boot" /\ todo # <<>>)
  <2>1. bus.slave # "timer" \/ bus = ClearStatus \/ bus = Timer(ReadFrom(1))
    BY DEF TestWaits, Nowhere
  <2>2. QED
    BY <1>2, <2>1, ClockEdge DEF ClockInv, TestWaits
<1>3. QED
  BY <1>1, <1>2

(* What was read stays while the main program waits.                       *)
LEMMA ValuesWait ==
  ASSUME OnScript, CounterOK, TestValues, NEW bus, TestWaits(bus)
  PROVE  CounterOK' /\ TestValues'
<1>1. CounterRuns
  BY CounterEdges DEF TestWaits, Nowhere, ClearStatus, Timer
<1>2. /\ iRz' = 0 /\ iEn' = iEn /\ iRz \in {0, 1}
      /\ iCounter' \in 0 .. CounterSpan - 1
      /\ iRz = 1 => iCounter' = 0
      /\ iRz = 0 /\ iEn = 0 => iCounter' = iCounter
  BY <1>1, CountNext DEF CounterRuns, CounterOK
<1>3. CounterOK'
  BY <1>2 DEF CounterOK, TestWaits
<1>4. MainLeft' = MainLeft /\ UNCHANGED <<pc, reads>> /\ ~MainReads'
  BY DEF MainLeft, TestWaits
<1>5. TestValues'
  BY <1>2, <1>4 DEF TestValues
<1>6. QED
  BY <1>3, <1>5

(* The budget of a round of the handler.                                   *)
LEMMA SpentRange ==
  /\ Spent \in Nat /\ Spent <= 4 * Pause + 6
  /\ Spent' \in Nat /\ Spent' <= 4 * Pause + 6
<1>1. Pause \in Nat
  BY PauseAssumption
<1>2. Spent \in {4 * Pause + 6, Pause + 2, 3 * Pause + 5, 3 * Pause + 4, 2 * Pause + 3}
  BY DEF Spent
<1>3. Spent' \in {4 * Pause + 6, Pause + 2, 3 * Pause + 5, 3 * Pause + 4, 2 * Pause + 3}
  BY DEF Spent
<1>4. QED
  BY <1>1, <1>2, <1>3

(* A step within it does not reach the next interrupt or the counter's wrap. *)
LEMMA WithinBudget ==
  ASSUME NEW s \in Nat, NEW t \in Nat, NEW i \in 0 .. Pause, NEW j \in 0 .. Pause,
         s + i + 1 <= t + j, t <= 4 * Pause + 6,
         NEW c \in Nat, c >= ResetPeriod - (Crossing + s + i), NEW e \in Nat, e <= s + i + 1
  PROVE  /\ c > 0 /\ c - 1 >= ResetPeriod - (Crossing + t + j)
         /\ e + 1 <= t + j + 1 /\ e + 1 < CounterSpan
<1>1. Pause \in Nat /\ Crossing \in Nat /\ CounterSpan \in Nat /\ ResetPeriod \in Nat
  BY PauseAssumption, CrossingAssumption, CounterAssumption, ResetPeriodAssumption, HalfSpanAssumption
<1>2. QED
  BY <1>1, TestAssumption

(* What the steps take fits what they are given.                           *)
LEMMA BudgetCovers ==
  ASSUME NEW s \in Nat, NEW t \in Nat, NEW i \in 0 .. Pause, NEW j \in 0 .. Pause,
         \/ t = s /\ j = i + 1
         \/ s = Pause + 2 /\ t = 2 * Pause + 3 /\ j = 0
         \/ s = 2 * Pause + 3 /\ t = 3 * Pause + 4 /\ j = 0
         \/ s = 3 * Pause + 4 /\ t = 3 * Pause + 5 /\ j = i
         \/ s = 3 * Pause + 5 /\ t = 4 * Pause + 6 /\ j = 0
  PROVE  s + i + 1 <= t + j
BY PauseAssumption

(* A cycle of the served window, when the step stays within its budget.    *)
LEMMA ServedOn ==
  ASSUME ClockRuns, TimerBits, CounterOK, pCounter, iRz = 0, iEn = 1,
         idle \in 0 .. Pause, idle' \in 0 .. Pause,
         NEW bus, Edges(bus), bus \in {Nowhere, ClearStatus, Timer(ReadFrom(1))},
         NEW a \in 0 .. CounterSpan - 1, NEW e \in Nat, Ahead(a, e), Served(e),
         Spent + idle + 1 <= Spent' + idle',
         \/ timeout_occurred = 0
         \/ timeout_occurred' = 0
         \/ handling' = "timer" /\ IsrLeft' = 2
  PROVE  Ahead(a, e + 1)' /\ Served(e + 1)'
<1>1. /\ e >= 1 /\ e <= Spent + idle + 1
      /\ internal_counter >= ResetPeriod - (Crossing + Spent + idle)
  BY DEF Served
<1>2. internal_counter \in Nat
  BY ResetPeriodAssumption, HalfSpanAssumption DEF ClockRuns
<1>3. /\ internal_counter > 0 /\ internal_counter - 1 >= ResetPeriod - (Crossing + Spent' + idle')
      /\ e + 1 <= Spent' + idle' + 1 /\ e + 1 < CounterSpan
  BY <1>1, <1>2, SpentRange, WithinBudget
<1>4. bus.slave # "timer" \/ bus = ClearStatus \/ bus = Timer(ReadFrom(1))
  BY DEF Nowhere
<1>5. /\ internal_counter' = IF internal_counter = 0 THEN ResetPeriod ELSE internal_counter - 1
      /\ timeout_occurred = 0 /\ internal_counter > 0 => timeout_occurred' = 0
  BY <1>4, ClockEdge
<1>6. Ahead(a, e + 1)'
  BY <1>3, AheadNext DEF Ahead
<1>7. timeout_occurred' = 0 \/ (handling' = "timer" /\ IsrLeft' = 2)
  BY <1>3, <1>5
<1>8. internal_counter' = internal_counter - 1 /\ e + 1 >= 1
  BY <1>1, <1>2, <1>3, <1>5
<1>9. Served(e + 1)'
  BY <1>3, <1>7, <1>8 DEF Served
<1>10. QED
  BY <1>6, <1>9

(* How each of the waiting steps moves the budget.                         *)
LEMMA BudgetSteps ==
  ASSUME OnScript, SeenInv, program = "test", Next, ~Resting, pc = "done" \/ handling # "none",
         NEW bus, TestWaits(bus)
  PROVE  \/ /\ Compute /\ idle' = idle + 1 /\ UNCHANGED <<handling, IsrLeft>>
            /\ Spent' = Spent
         \/ /\ handling = "none" /\ handling' = "timer" /\ IsrLeft' = 2 /\ idle' = 0
            /\ irq
         \/ /\ handling = "timer" /\ IsrLeft = 2 /\ timeout_occurred' = 0
            /\ Spent = Pause + 2 /\ Spent' = 2 * Pause + 3 /\ idle' = 0
         \/ /\ handling = "timer" /\ IsrLeft = 1
            /\ Spent = 2 * Pause + 3 /\ Spent' = 3 * Pause + 4 /\ idle' = 0
         \/ /\ handling = "timer" /\ IsrLeft = 1
            /\ Spent = 3 * Pause + 4 /\ Spent' = 3 * Pause + 5 /\ idle' = idle
         \/ /\ handling = "timer" /\ IsrLeft = 0
            /\ Spent = 3 * Pause + 5 /\ Spent' = 4 * Pause + 6 /\ idle' = 0
<1>0. /\ ~portInterrupts /\ Isr("timer") = "tick" /\ handling \in {"none", "timer"}
      /\ handling # "none" =>
              \/ IsrLeft = 2 /\ isrTodo # <<>> /\ Head(isrTodo) = ClearStatus
              \/ IsrLeft = 1 /\ isrTodo # <<>> /\ Head(isrTodo) = Timer(ReadFrom(1))
              \/ IsrLeft = 0 /\ isrTodo = <<>>
  BY TestHandles
<1>1. CASE Compute
  <2>1. UNCHANGED <<handling, isrTodo, reading>> /\ idle' = idle + 1
    BY <1>1 DEF Compute, Asleep
  <2>2. IsrLeft' = IsrLeft
    BY <2>1 DEF IsrLeft
  <2>3. Spent' = Spent
    BY <2>1, <2>2 DEF Spent
  <2>4. QED
    BY <1>1, <2>1, <2>2, <2>3
<1>2. CASE Interrupt
  <2>0. timerSeen = 1 /\ handling = "none"
    BY <1>0, <1>2 DEF Interrupt, InHandler, Interrupted
  <2>1. irq /\ handling = "none" /\ handling' = "timer" /\ isrTodo' = Handler("tick") /\ idle' = 0
    BY <1>0, <1>2, <2>0 DEF Interrupt, Line, SeenInv, Stale, TakesTimer
  <2>2. IsrLeft' = 2
    BY <2>1, Handlers DEF IsrLeft
  <2>3. QED
    BY <2>1, <2>2
<1>3. CASE Return
  <2>1. /\ handling = "timer" /\ handling' = "none" /\ IsrLeft = 0 /\ idle' = 0
    BY <1>0, <1>3, EmptyLists DEF Return, InHandler
  <2>2. Spent = 3 * Pause + 5 /\ Spent' = 4 * Pause + 6
    BY <2>1 DEF Spent
  <2>3. QED
    BY <2>1, <2>2
<1>4. CASE Write /\ InHandler
  <2>1. /\ handling = "timer" /\ handling' = handling /\ isrTodo # <<>> /\ reading = 0
        /\ reading' = 0 /\ idle' = 0 /\ Edges(Head(isrTodo))
        /\ isrTodo' = Tail(isrTodo) /\ Head(isrTodo).acc.kind = "write"
    BY <1>0, <1>4 DEF Write, MayAccess, Done, Pending, InHandler
  <2>2. Timer(ReadFrom(1)).acc.kind = "read"
    BY DEF Timer, ReadFrom
  <2>3. IsrLeft = 2 /\ Head(isrTodo) = ClearStatus /\ IsrLeft' = 1
    BY <1>0, <2>1, <2>2, HandlerStep DEF OnScript
  <2>4. Spent = Pause + 2 /\ Spent' = 2 * Pause + 3
    BY <2>1, <2>3 DEF Spent
  <2>5. timeout_occurred' = 0
    BY <2>1, <2>3, ClearEdge
  <2>6. QED
    BY <2>1, <2>3, <2>4, <2>5
<1>5. CASE BeginRead /\ InHandler
  <2>1. /\ handling = "timer" /\ handling' = handling /\ isrTodo # <<>> /\ reading = 0
        /\ reading' = 1 /\ idle' = 0 /\ isrTodo' = isrTodo /\ Head(isrTodo).acc.kind = "read"
    BY <1>0, <1>5 DEF BeginRead, MayAccess, Pending, InHandler
  <2>2. ClearStatus.acc.kind = "write"
    BY DEF ClearStatus, Timer, WriteTo
  <2>3. IsrLeft = 1 /\ IsrLeft' = IsrLeft
    BY <1>0, <2>1, <2>2 DEF IsrLeft
  <2>4. Spent = 2 * Pause + 3 /\ Spent' = 3 * Pause + 4
    BY <2>1, <2>3 DEF Spent
  <2>5. QED
    BY <2>1, <2>3, <2>4
<1>6. CASE EndRead /\ InHandler
  <2>1. /\ handling = "timer" /\ handling' = handling /\ isrTodo # <<>> /\ reading = 1
        /\ reading' = 0 /\ idle' = idle /\ isrTodo' = Tail(isrTodo)
        /\ Head(isrTodo).acc.kind = "read"
    BY <1>0, <1>6 DEF EndRead, OnScript, Done, Pending, InHandler
  <2>2. ClearStatus.acc.kind = "write"
    BY DEF ClearStatus, Timer, WriteTo
  <2>3. IsrLeft = 1
    BY <1>0, <2>1, <2>2
  <2>4. IsrLeft' = 0
    BY <2>1, <2>3, HandlerStep DEF OnScript
  <2>5. Spent = 3 * Pause + 4 /\ Spent' = 3 * Pause + 5
    BY <2>1, <2>3, <2>4 DEF Spent
  <2>6. QED
    BY <2>1, <2>3, <2>5
<1>7. CASE (Write \/ EndRead) /\ ~InHandler
  <2>1. todo' = Tail(todo) /\ todo' = todo /\ todo # <<>>
    BY <1>7 DEF Write, EndRead, MayAccess, Pending, Done, OnScript, TestWaits, InHandler
  <2>2. MainLeft' = MainLeft - 1 /\ MainLeft \in Nat
    BY <2>1, MainStep DEF OnScript
  <2>3. MainLeft' = MainLeft
    BY <2>1 DEF MainLeft
  <2>4. QED
    BY <2>2, <2>3
<1>8. CASE BeginRead /\ ~InHandler
  BY <1>8 DEF BeginRead, TestWaits, MainReads, InHandler
<1>9. CASE ~(Compute \/ Write \/ BeginRead \/ EndRead \/ Interrupt \/ Return)
  <2>1. handling = "none" /\ todo = <<>>
    BY <1>9 DEF Next, Register, SetUp, Loop, TestFlag, PrintResponse, ClearFlag, Poll, Polled,
                PrintRecovery, Wake, Goto, At, MainRuns
  <2>2. QED
    BY <2>1 DEF Resting
<1>10. QED
  BY <1>1, <1>2, <1>3, <1>4, <1>5, <1>6, <1>7, <1>8, <1>9

(* The clock sees the start of the timer and its handler, nothing else.    *)
LEMMA TestEdges ==
  ASSUME OnScript, program = "test", Next
  PROVE  \E bus :
           /\ Edges(bus)
           /\ \/ bus.slave # "timer" \/ bus = ClearStatus \/ bus = Timer(ReadFrom(1))
              \/ pc = "boot" /\ todo # <<>> /\ bus = Control(7)
<1>1. CASE \E bus : TestWaits(bus)
  BY <1>1 DEF TestWaits, Nowhere
<1>2. CASE (Write \/ BeginRead \/ EndRead) /\ ~InHandler
  <2>1. Edges(Head(todo)) /\ todo # <<>> /\ MainOnScript
    BY <1>2 DEF Write, BeginRead, EndRead, MayAccess, Pending, OnScript, InHandler
  <2>2. CASE pc = "boot"
    BY <2>1, <2>2, BootAccess
  <2>3. CASE pc # "boot"
    <3>1. Head(todo) \in {IRZ, ICOUNTER, ISTART, ISTOP}
      BY <2>1, <2>3, TestAccess
    <3>2. Head(todo).slave # "timer"
      BY <3>1 DEF IRZ, ICOUNTER, ISTART, ISTOP, InterruptCounter
    <3>3. QED
      BY <2>1, <3>2
  <2>4. QED
    BY <2>2, <2>3
<1>3. CASE SetUp
  <2>1. Edges(Nowhere) /\ Nowhere.slave # "timer"
    BY <1>3 DEF SetUp, Goto, Nowhere
  <2>2. QED
    BY <2>1
<1>4. QED
  BY <1>1, <1>2, <1>3, TestSteps

(* With the irq in sight the main program only ends what it has begun.     *)
LEMMA MainPauses ==
  ASSUME OnScript, Next, ~Resting, handling = "none", ~Interrupt
  PROVE  /\ handling' = "none"
         /\ timerSeen = 1 => \/ idle' = idle + 1 /\ reading' = reading
                             \/ idle' = idle /\ reading = 1 /\ reading' = 0
<1>1. CASE Compute
  BY <1>1 DEF Compute, Asleep, Interrupted
<1>2. CASE EndRead
  BY <1>2 DEF EndRead
<1>3. CASE Write \/ BeginRead
  BY <1>3 DEF Write, BeginRead, MayAccess, Interrupted, InHandler
<1>4. CASE Return
  BY <1>4 DEF Return, InHandler
<1>5. CASE ~(Compute \/ EndRead \/ Write \/ BeginRead \/ Return)
  BY <1>5 DEF Next, Register, SetUp, Loop, TestFlag, PrintResponse, ClearFlag, Poll, Polled,
              PrintRecovery, Wake, Goto, At, MainRuns, Interrupted
<1>6. QED
  BY <1>1, <1>2, <1>3, <1>4, <1>5

(* The clock's round is longer than an irq of it is up, its handler runs   *)
(* and the program waits.                                                  *)
LEMMA TickServedStep ==
  ASSUME OnScript, OnScript', SeenInv, SeenInv', program = "test", Next, ClockInv, ClockInv',
         ~Resting => TickServed, ~Resting'
  PROVE  TickServed'
<1>0. /\ Pause \in Nat /\ Crossing \in Nat /\ ResetPeriod \in Nat
      /\ Crossing + Pause + 2 < ResetPeriod
      /\ idle \in 0 .. Pause /\ idle' \in 0 .. Pause /\ reading \in {0, 1} /\ reading' \in {0, 1}
      /\ LagInv /\ LagInv' /\ TimerBits /\ ~early
  <2>1. ~early
    BY DEF SeenInv, TakesTimer
  <2>2. Pause \in Nat /\ Crossing \in Nat /\ ResetPeriod \in Nat
    BY PauseAssumption, CrossingAssumption, ResetPeriodAssumption, HalfSpanAssumption
  <2>3. Crossing + Pause + 2 < ResetPeriod
    BY <2>2, TestAssumption
  <2>4. QED
    BY <2>1, <2>2, <2>3 DEF SeenInv, OnScript
<1>2. ~Resting /\ TickServed
  <2>1. SUFFICES ASSUME Resting PROVE FALSE
    OBVIOUS
  <2>2. CASE \E bus : TestWaits(bus)
    BY <2>1, <2>2 DEF TestWaits, Resting
  <2>3. CASE (Write \/ BeginRead \/ EndRead) /\ ~InHandler
    BY <2>1, <2>3 DEF Write, BeginRead, EndRead, MayAccess, Pending, OnScript, InHandler, Resting
  <2>4. CASE SetUp
    BY <2>1, <2>4 DEF SetUp, Goto, At, Resting, Registers, TakesTimer
  <2>5. QED
    BY <2>2, <2>3, <2>4, TestSteps
<1>3. PICK bus : /\ Edges(bus)
                 /\ \/ bus.slave # "timer" \/ bus = ClearStatus \/ bus = Timer(ReadFrom(1))
                    \/ pc = "boot" /\ todo # <<>> /\ bus = Control(7)
  BY TestEdges
<1>4. CASE pc = "boot" /\ todo # <<>>
  <2>1. internal_counter' = ResetPeriod /\ timeout_occurred' = 0
    <3>1. ClockStopped
      BY <1>4 DEF ClockInv
    <3>2. CASE bus = Control(7)
      BY <1>3, <3>1, <3>2, ClockStarts
    <3>3. CASE bus # Control(7)
      BY <1>3, <3>1, <3>3, ClockStarts DEF ClockStopped
    <3>4. QED
      BY <3>2, <3>3
  <2>2. ~irq'
    BY <2>1 DEF irq
  <2>3. ResetPeriod >= ResetPeriod - (Crossing + Spent' + idle')
    <3> DEFINE t == Spent'  j == idle'
    <3>1. t \in Nat /\ j \in Nat
      BY <1>0, SpentRange
    <3> HIDE DEF t, j
    <3>2. ResetPeriod >= ResetPeriod - (Crossing + t + j)
      BY <1>0, <3>1
    <3>3. QED
      BY <3>2 DEF t, j
  <2>4. QED
    BY <2>1, <2>2, <2>3 DEF TickServed
<1>5. CASE ~(pc = "boot" /\ todo # <<>>)
  <2>1. /\ internal_counter' = IF internal_counter = 0 THEN ResetPeriod ELSE internal_counter - 1
        /\ timeout_occurred = 0 /\ internal_counter > 0 => timeout_occurred' = 0
        /\ (irq <=> timeout_occurred = 1) /\ (irq' <=> timeout_occurred' = 1)
        /\ timeout_occurred \in {0, 1} /\ internal_counter \in Nat
    <3>1. ClockRuns
      BY <1>5 DEF ClockInv
    <3>2. QED
      BY <1>0, <1>3, <1>5, <3>1, ClockEdge DEF TimerBits, ClockRuns
  <2>2. CASE handling # "none"
    <3>1. PICK b : TestWaits(b)
      <4>1. ~SetUp
        BY <2>2 DEF SetUp, Goto, At, MainRuns
      <4>2. QED
        BY <2>2, <4>1, TestSteps DEF InHandler
    <3>2. /\ timeout_occurred = 0 \/ IsrLeft = 2
          /\ internal_counter >= ResetPeriod - (Crossing + Spent + idle)
      BY <1>2, <2>2 DEF TickServed
    <3>3. \/ Spent' = Spent /\ idle' = idle + 1
          \/ Spent = Pause + 2 /\ Spent' = 2 * Pause + 3 /\ idle' = 0
          \/ Spent = 2 * Pause + 3 /\ Spent' = 3 * Pause + 4 /\ idle' = 0
          \/ Spent = 3 * Pause + 4 /\ Spent' = 3 * Pause + 5 /\ idle' = idle
          \/ Spent = 3 * Pause + 5 /\ Spent' = 4 * Pause + 6 /\ idle' = 0
      BY <1>2, <2>2, <3>1, BudgetSteps
    <3>4. /\ internal_counter > 0
          /\ internal_counter - 1 >= ResetPeriod - (Crossing + Spent' + idle')
      <4> DEFINE s == Spent  t == Spent'  i == idle  j == idle'
      <4>1. /\ s \in Nat /\ t \in Nat /\ t <= 4 * Pause + 6 /\ i \in 0 .. Pause /\ j \in 0 .. Pause
        BY <1>0, SpentRange
      <4>2. s + i + 1 <= t + j
        <5> HIDE DEF s, t, i, j
        <5>1. \/ t = s /\ j = i + 1
              \/ s = Pause + 2 /\ t = 2 * Pause + 3 /\ j = 0
              \/ s = 2 * Pause + 3 /\ t = 3 * Pause + 4 /\ j = 0
              \/ s = 3 * Pause + 4 /\ t = 3 * Pause + 5 /\ j = i
              \/ s = 3 * Pause + 5 /\ t = 4 * Pause + 6 /\ j = 0
          BY <3>3 DEF s, t, i, j
        <5>2. QED
          BY <4>1, <5>1, BudgetCovers
      <4>3. internal_counter >= ResetPeriod - (Crossing + s + i)
        BY <3>2
      <4> HIDE DEF s, t, i, j
      <4>4. 0 \in Nat /\ 0 <= s + i + 1
        BY <4>1
      <4>5. /\ internal_counter > 0
            /\ internal_counter - 1 >= ResetPeriod - (Crossing + t + j)
        BY <2>1, <4>1, <4>2, <4>3, <4>4, WithinBudget
      <4>6. QED
        BY <4>5 DEF t, j
    <3>5. timeout_occurred' = 0 \/ (handling' = "timer" /\ IsrLeft' = 2)
      <4>1. CASE timeout_occurred = 0
        BY <2>1, <3>4, <4>1
      <4>2. CASE IsrLeft = 2
        <5>1. \/ UNCHANGED <<handling, IsrLeft>>
              \/ timeout_occurred' = 0
          BY <1>2, <2>2, <3>1, <4>2, BudgetSteps
        <5>2. handling = "timer"
          BY <2>2, TestHandles
        <5>3. QED
          BY <4>2, <5>1, <5>2
      <4>3. QED
        BY <3>2, <4>1, <4>2
    <3>6. internal_counter' = internal_counter - 1
      BY <2>1, <3>4
    <3>7. internal_counter' >= ResetPeriod - (Crossing + Spent' + idle')
      BY <3>4, <3>6
    <3>8. handling' = "none" => ~irq'
      BY <2>1, <3>5
    <3>9. QED
      BY <3>5, <3>7, <3>8 DEF TickServed
  <2>3. CASE handling = "none" /\ ~irq
    <3>1. timerSeen = 0
      BY <1>0, <2>3 DEF SeenInv, LagInv, Stale
    <3>2. ~Interrupt
      BY <3>1, TestHandles DEF Interrupt, Interrupted
    <3>3. handling' = "none"
      BY <1>2, <2>3, <3>2, MainPauses
    <3>4. ASSUME irq' PROVE internal_counter' >= ResetPeriod + 1 - Awaited'
      <4>1. timerSeen' = 0 /\ timerLag' = 1
        BY <1>0, <1>3, <2>3, <3>1, <3>4, LagStep
      <4>2. Awaited' = 1
        BY <4>1 DEF Awaited
      <4>3. internal_counter' = ResetPeriod
        BY <2>1, <2>3, <3>4
      <4>4. QED
        BY <1>0, <4>2, <4>3
    <3>5. QED
      BY <3>3, <3>4 DEF TickServed
  <2>4. CASE handling = "none" /\ irq
    <3>1. internal_counter >= ResetPeriod + 1 - Awaited
      BY <1>2, <2>4 DEF TickServed
    <3>2. /\ timerSeen \in {0, 1} /\ timerLag \in 0 .. Crossing
          /\ timerSeen' \in {0, 1} /\ timerLag' \in 0 .. Crossing
      BY <1>0 DEF LagInv
    <3>3. Awaited \in Nat /\ Awaited <= Crossing + Pause + 2
      <4>1. CASE timerSeen = 1
        <5>1. Awaited = Crossing + idle + 2 - reading
          BY <4>1 DEF Awaited
        <5>2. QED
          BY <1>0, <5>1
      <4>2. CASE timerSeen = 0
        <5>1. Awaited = timerLag
          BY <4>2 DEF Awaited
        <5>2. QED
          BY <1>0, <3>2, <5>1
      <4>3. QED
        BY <3>2, <4>1, <4>2
    <3>4. internal_counter > 0 /\ internal_counter' = internal_counter - 1
      <4> DEFINE a == Awaited
      <4>1. a \in Nat /\ a <= Crossing + Pause + 2 /\ internal_counter >= ResetPeriod + 1 - a
        BY <3>1, <3>3
      <4> HIDE DEF a
      <4>2. internal_counter > 0
        BY <1>0, <2>1, <4>1
      <4>3. QED
        BY <2>1, <4>2
    <3>5. CASE Interrupt
      <4>1. reading = 0 /\ timerSeen = 1 /\ handling' = "timer" /\ isrTodo' = Handler("tick") /\ idle' = 0
        BY <3>5, TestHandles DEF Interrupt, Interrupted, Line
      <4>2. IsrLeft' = 2
        BY <4>1, Handlers DEF IsrLeft
      <4>3. Spent' = Pause + 2
        BY <4>1, <4>2 DEF Spent
      <4>4. Awaited = Crossing + idle + 2
        BY <1>0, <4>1 DEF Awaited
      <4>5. internal_counter - 1 >= ResetPeriod - (Crossing + (Pause + 2) + 0)
        BY <1>0, <2>1, <3>1, <4>4
      <4>6. internal_counter' >= ResetPeriod - (Crossing + Spent' + idle')
        BY <3>4, <4>1, <4>3, <4>5
      <4>7. QED
        BY <4>1, <4>2, <4>6 DEF TickServed
    <3>6. CASE ~Interrupt
      <4>1. /\ handling' = "none"
            /\ timerSeen = 1 => \/ idle' = idle + 1 /\ reading' = reading
                                \/ idle' = idle /\ reading = 1 /\ reading' = 0
        BY <1>2, <2>4, <3>6, MainPauses
      <4>2. ASSUME irq' PROVE internal_counter' >= ResetPeriod + 1 - Awaited'
        <5> DEFINE a == Awaited  b == Awaited'  s == timerSeen  s1 == timerSeen'
                   l == timerLag  l1 == timerLag'  i == idle  i1 == idle'
                   r == reading  r1 == reading'
        <5>1. /\ s \in {0, 1} /\ s1 \in {0, 1} /\ l \in 0 .. Crossing /\ l1 \in 0 .. Crossing
              /\ i \in 0 .. Pause /\ i1 \in 0 .. Pause /\ r \in {0, 1} /\ r1 \in {0, 1}
          BY <1>0, <3>2
        <5>2. /\ s = 1 => a = Crossing + i + 2 - r
              /\ s = 0 => a = l
          BY DEF Awaited
        <5>3. /\ s1 = 1 => b = Crossing + i1 + 2 - r1
              /\ s1 = 0 => b = l1
          BY DEF Awaited
        <5>4. /\ s = 1 => s1 = 1
              /\ s = 0 /\ s1 = 0 => l1 = l + 1
          BY <1>0, <1>3, <2>4, <4>2, LagStep
        <5>5. s = 1 => ((i1 = i + 1 /\ r1 = r) \/ (i1 = i /\ r = 1 /\ r1 = 0))
          BY <4>1
        <5>6. internal_counter >= ResetPeriod + 1 - a
          BY <3>1
        <5> HIDE DEF a, b, s, s1, l, l1, i, i1, r, r1
        <5>7. a \in Nat /\ b \in Nat /\ b >= a + 1
          <6>1. CASE s = 0 /\ s1 = 0
            BY <1>0, <5>1, <5>2, <5>3, <5>4, <6>1
          <6>2. CASE s = 0 /\ s1 = 1
            BY <1>0, <5>1, <5>2, <5>3, <6>2
          <6>3. CASE s = 1
            BY <1>0, <5>1, <5>2, <5>3, <5>4, <5>5, <6>3
          <6>4. QED
            BY <5>1, <6>1, <6>2, <6>3
        <5>8. internal_counter - 1 >= ResetPeriod + 1 - b
          BY <1>0, <2>1, <5>6, <5>7
        <5>9. QED
          BY <3>4, <5>8 DEF b
      <4>3. QED
        BY <4>1, <4>2 DEF TickServed
    <3>7. QED
      BY <3>5, <3>6
  <2>5. QED
    BY <2>2, <2>3, <2>4
<1>6. QED
  BY <1>4, <1>5

(* The reads of the running counter stay less than a round of it apart     *)
(* while the main program waits between them.                              *)
LEMMA WindowWaits ==
  ASSUME OnScript, OnScript', SeenInv, program = "test", Next, ClockInv, CounterOK, TestValues,
         pc = "done", MainLeft = 2, BetweenReads, TickServed', NEW bus, TestWaits(bus)
  PROVE  BetweenReads'
<1>0. /\ idle \in 0 .. Pause /\ idle' \in 0 .. Pause
      /\ Pause \in Nat /\ CounterSpan \in Nat /\ ResetPeriod \in Nat /\ internal_counter \in Nat
      /\ ClockRuns /\ ~Resting /\ TimerBits
  <2>1. ClockRuns /\ ~Resting
    BY EmptyLists DEF ClockInv, Resting
  <2>2. QED
    BY <2>1, PauseAssumption, CounterAssumption, ResetPeriodAssumption, HalfSpanAssumption
    DEF OnScript, ClockRuns, SeenInv
<1>1. /\ Edges(bus) /\ bus \in {Nowhere, ClearStatus, Timer(ReadFrom(1))}
      /\ reads' = reads /\ ~MainReads /\ ~MainReads'
  BY DEF TestWaits
<1>2. iRz = 0 /\ iEn = 1 /\ reads[1] \in 0 .. CounterSpan - 1
  BY DEF TestValues
<1>3. pCounter
  BY <1>1, CounterEdges DEF CounterRuns, Nowhere, ClearStatus, Timer
<1>4. PICK e \in Nat : Ahead(reads[1], e) /\ (NotServed(e) \/ Served(e))
  BY <1>1 DEF BetweenReads
<1>5. bus.slave # "timer" \/ bus = ClearStatus \/ bus = Timer(ReadFrom(1))
  BY <1>1 DEF Nowhere
<1>6. /\ internal_counter' = IF internal_counter = 0 THEN ResetPeriod ELSE internal_counter - 1
      /\ timeout_occurred = 0 /\ internal_counter > 0 => timeout_occurred' = 0
      /\ (irq <=> timeout_occurred = 1) /\ (irq' <=> timeout_occurred' = 1)
      /\ timeout_occurred \in {0, 1}
  BY <1>0, <1>1, <1>5, ClockEdge DEF TimerBits
<1>7. Ahead(reads[1], e + 1)' /\ (NotServed(e + 1)' \/ Served(e + 1)')
  <2> DEFINE a == reads[1]
  <2>0. a' = a /\ a \in 0 .. CounterSpan - 1
    BY <1>1, <1>2
  <2> HIDE DEF a
  <2>1. CASE Served(e)
    <3>1. /\ Spent + idle + 1 <= Spent' + idle'
          /\ timeout_occurred = 0 \/ timeout_occurred' = 0 \/ (handling' = "timer" /\ IsrLeft' = 2)
      <4>1. timeout_occurred = 0 \/ (handling = "timer" /\ IsrLeft = 2)
        BY <2>1 DEF Served
      <4>2. ~(handling = "none" /\ irq)
        BY <1>6, <4>1
      <4>3. \/ Spent' = Spent /\ idle' = idle + 1
            \/ Spent = Pause + 2 /\ Spent' = 2 * Pause + 3 /\ idle' = 0
            \/ Spent = 2 * Pause + 3 /\ Spent' = 3 * Pause + 4 /\ idle' = 0
            \/ Spent = 3 * Pause + 4 /\ Spent' = 3 * Pause + 5 /\ idle' = idle
            \/ Spent = 3 * Pause + 5 /\ Spent' = 4 * Pause + 6 /\ idle' = 0
        BY <1>0, <4>2, BudgetSteps
      <4>4. Spent + idle + 1 <= Spent' + idle'
        BY <1>0, <4>3, SpentRange, BudgetCovers
      <4>5. timeout_occurred = 0 \/ timeout_occurred' = 0 \/ (handling' = "timer" /\ IsrLeft' = 2)
        BY <1>0, <4>1, <4>2, BudgetSteps
      <4>6. QED
        BY <4>4, <4>5
    <3>2. Ahead(a, e)
      BY <1>4 DEF a
    <3>3. Ahead(a, e + 1)' /\ Served(e + 1)'
      BY <1>0, <1>1, <1>2, <1>3, <2>0, <2>1, <3>1, <3>2, ServedOn
    <3>4. QED
      BY <2>0, <3>3 DEF a
  <2>2. CASE NotServed(e)
    <3>1. handling = "none" /\ e = idle + 2
      BY <2>2 DEF NotServed
    <3>2. e + 1 < CounterSpan
      BY <1>0, <3>1, TestAssumption
    <3>3. Ahead(a, e)
      BY <1>4 DEF a
    <3>4. iCounter' = IF a + (e + 1) < CounterSpan THEN a + (e + 1) ELSE a + (e + 1) - CounterSpan
      BY <1>2, <1>3, <2>0, <3>2, <3>3, AheadNext
    <3>5. Ahead(reads[1], e + 1)'
      BY <2>0, <3>4 DEF Ahead, a
    <3>6. \/ idle' = idle + 1 /\ handling' = "none"
          \/ handling' = "timer" /\ IsrLeft' = 2 /\ idle' = 0
      BY <1>0, <3>1, BudgetSteps
    <3>7. CASE idle' = idle + 1 /\ handling' = "none"
      <4>1. e + 1 = idle' + 2
        BY <1>0, <3>1, <3>7
      <4>2. NotServed(e + 1)'
        BY <3>7, <4>1 DEF NotServed
      <4>3. QED
        BY <3>5, <4>2
    <3>8. CASE handling' = "timer" /\ IsrLeft' = 2 /\ idle' = 0
      <4>1. Spent' = Pause + 2
        BY <3>8 DEF Spent
      <4>2. e + 1 >= 1 /\ e + 1 <= (Pause + 2) + 0 + 1
        BY <1>0, <3>1
      <4>3. internal_counter' >= ResetPeriod - (Crossing + Spent' + idle')
        BY <3>8 DEF TickServed
      <4>4. Served(e + 1)'
        BY <3>8, <4>1, <4>2, <4>3 DEF Served
      <4>5. QED
        BY <3>5, <4>4
    <3>9. QED
      BY <3>6, <3>7, <3>8
  <2>3. QED
    BY <1>4, <2>1, <2>2
<1>8. e + 1 \in Nat
  OBVIOUS
<1>9. QED
  BY <1>1, <1>7, <1>8 DEF BetweenReads

(* A read of the counter begins: at the first of the two it gives what the *)
(* count is ahead of, at the second something else.                        *)
LEMMA TestReads ==
  ASSUME OnScript, program = "test", TimerBits, ClockInv, CounterOK, TestValues, TestWindow,
         BeginRead, ~InHandler
  PROVE  ClockInv' /\ CounterOK' /\ TestValues' /\ TestWindow'
<1>0. /\ todo # <<>> /\ idle > 0 /\ reading = 0 /\ handling = "none"
      /\ UNCHANGED <<pc, todo, reads, handling, isrTodo>> /\ reading' = 1 /\ idle' = 0
      /\ Edges(Head(todo)) /\ Head(todo).acc.kind = "read"
  <2>1. Gap \in Nat /\ Gap > 0 /\ idle \in Nat
    BY PauseAssumption, CrossingAssumption DEF OnScript
  <2>2. QED
    BY <2>1 DEF BeginRead, MayAccess, Pending, InHandler
<1>1. pc = "done" /\ MainLeft \in {10, 8, 6, 5, 3, 2} /\ Head(todo) = ICOUNTER
  <2>1. pc # "boot"
    <3>1. Control(7).acc.kind = "write"
      BY DEF Control, Timer, WriteTo
    <3>2. QED
      BY <1>0, <3>1, BootAccess DEF OnScript
  <2>2. IRZ.acc.kind = "write" /\ ISTART.acc.kind = "write" /\ ISTOP.acc.kind = "write"
    BY DEF IRZ, ISTART, ISTOP, InterruptCounter, WriteTo
  <2>3. QED
    BY <1>0, <2>1, <2>2, TestAccess DEF OnScript
<1>2. Edges(ICOUNTER) /\ ICOUNTER.slave # "timer"
  BY <1>0, <1>1 DEF ICOUNTER, InterruptCounter
<1>3. CounterRuns /\ ReadData' = iCounter
  BY <1>2, CounterEdges
<1>4. ClockRuns
  BY <1>1 DEF ClockInv
<1>5. ClockRuns'
  BY <1>2, <1>4, ClockEdge
<1>6. ClockInv'
  BY <1>0, <1>1, <1>5 DEF ClockInv
<1>7. /\ iRz = 0 /\ iRz' = 0 /\ iEn' = iEn /\ iCounter \in 0 .. CounterSpan - 1
      /\ iCounter' \in 0 .. CounterSpan - 1
      /\ iEn = 0 => iCounter' = iCounter
      /\ iEn = 1 => iCounter' = IF iCounter + 1 < CounterSpan THEN iCounter + 1 ELSE 0
  BY <1>0, <1>3, CountNext DEF CounterOK, CounterRuns
<1>8. CounterOK'
  BY <1>0, <1>7 DEF CounterOK
<1>9. MainLeft' = MainLeft /\ MainReads' /\ ~MainReads
  BY <1>0 DEF MainLeft, MainReads
<1>10. TestValues'
  BY <1>0, <1>1, <1>3, <1>7, <1>9 DEF TestValues
<1>11. ASSUME MainLeft = 3
       PROVE  ReadData' \in 0 .. CounterSpan - 1 /\ Ahead(ReadData, 1)'
  <2>1. iEn = 1 /\ CounterSpan \in Nat
    BY <1>1, <1>11, CounterAssumption DEF TestValues
  <2>2. QED
    BY <1>3, <1>7, <2>1 DEF Ahead
<1>12. ASSUME MainLeft = 2 PROVE ReadData' # reads[1]'
  <2>0. /\ Pause \in Nat /\ CounterSpan \in Nat /\ idle \in 0 .. Pause
        /\ reads[1] \in 0 .. CounterSpan - 1
    BY <1>1, <1>12, PauseAssumption, CounterAssumption DEF OnScript, TestValues
  <2>1. PICK e \in Nat : Ahead(reads[1], e) /\ (NotServed(e) \/ Served(e))
    BY <1>1, <1>9, <1>12 DEF TestWindow, BetweenReads
  <2>2. e >= 1 /\ e < CounterSpan
    <3>1. CASE NotServed(e)
      BY <2>0, <3>1, TestAssumption DEF NotServed
    <3>2. CASE Served(e)
      <4>1. e >= 1 /\ e <= Spent + idle + 1
        BY <3>2 DEF Served
      <4>2. Spent = 4 * Pause + 6
        BY <1>0 DEF Spent
      <4>3. QED
        BY <2>0, <4>1, <4>2, TestAssumption
    <3>3. QED
      BY <2>1, <3>1, <3>2
  <2>3. iCounter # reads[1]
    BY <2>0, <2>1, <2>2 DEF Ahead
  <2>4. QED
    BY <1>0, <1>3, <2>3
<1>13. TestWindow'
  BY <1>0, <1>9, <1>11, <1>12 DEF TestWindow, BetweenReads
<1>14. QED
  BY <1>6, <1>8, <1>10, <1>13

(* The accesses that write: the start of the clock, and what resets,       *)
(* starts and stops the counter.                                           *)
LEMMA TestWrites ==
  ASSUME OnScript, program = "test", TimerBits, ClockInv, CounterOK, TestValues, Write, ~InHandler
  PROVE  ClockInv' /\ CounterOK' /\ TestValues' /\ TestWindow'
<1>0. /\ todo # <<>> /\ handling = "none" /\ UNCHANGED <<pc, handling>> /\ todo' = Tail(todo)
      /\ reads' = <<>> /\ reading' = 0 /\ idle' = 0 /\ ~MainReads'
      /\ Edges(Head(todo)) /\ Head(todo).acc.kind = "write"
  BY DEF Write, MayAccess, Done, Pending, InHandler, MainReads
<1>1. MainLeft' = MainLeft - 1 /\ (todo' = <<>> <=> MainLeft = 1)
  BY <1>0, MainStep DEF OnScript
<1>2. ASSUME pCounter, iRz' \in {0, 1} PROVE CounterOK'
  BY <1>0, <1>2, CountNext DEF CounterOK
<1>3. CASE pc = "boot"
  <2>1. Head(todo) = Control(7) /\ todo' = <<>>
    BY <1>0, <1>1, <1>3, BootAccess DEF OnScript
  <2>2. Edges(Control(7)) /\ ClockStopped
    BY <1>0, <1>3, <2>1 DEF ClockInv
  <2>3. ClockRuns'
    BY <2>2, ClockStarts
  <2>4. CounterRuns
    BY <2>2, CounterEdges DEF Control, Timer
  <2>5. CounterOK'
    BY <1>2, <2>4 DEF CounterRuns
  <2>6. ClockInv' /\ TestValues' /\ TestWindow'
    BY <1>0, <1>3, <2>1, <2>3, <2>4 DEF ClockInv, TestValues, TestWindow, CounterRuns
  <2>7. QED
    BY <2>5, <2>6
<1>4. CASE pc # "boot"
  <2>1. /\ pc = "done"
        /\ \/ MainLeft = 11 /\ Head(todo) = IRZ
           \/ MainLeft \in {9, 4} /\ Head(todo) = ISTART
           \/ MainLeft \in {7, 1} /\ Head(todo) = ISTOP
    <3>1. ICOUNTER.acc.kind = "read"
      BY DEF ICOUNTER, InterruptCounter, ReadFrom
    <3>2. QED
      BY <1>0, <1>4, <3>1, TestAccess DEF OnScript
  <2>2. Head(todo).slave # "timer"
    BY <2>1 DEF IRZ, ISTART, ISTOP, InterruptCounter
  <2>3. ClockInv'
    <3>1. ClockRuns
      BY <1>4 DEF ClockInv
    <3>2. ClockRuns'
      BY <1>0, <2>2, <3>1, ClockEdge
    <3>3. QED
      BY <1>0, <1>4, <3>2 DEF ClockInv
  <2>4. CASE MainLeft = 11 /\ Head(todo) = IRZ
    <3>1. Edges(IRZ)
      BY <1>0, <2>4
    <3>2. pCounter /\ iRz' = 1 /\ iEn' = iEn
      BY <3>1, CounterEdges
    <3>3. MainLeft' = 10 /\ iEn = 0
      BY <1>1, <2>1, <2>4 DEF TestValues
    <3>4. TestValues' /\ TestWindow'
      BY <1>0, <2>1, <3>2, <3>3 DEF TestValues, TestWindow
    <3>5. QED
      BY <1>2, <2>3, <3>2, <3>4
  <2>5. CASE MainLeft \in {9, 4} /\ Head(todo) = ISTART
    <3>1. Edges(ISTART)
      BY <1>0, <2>5
    <3>2. pCounter /\ iRz' = 0 /\ iEn' = 1
      BY <3>1, CounterEdges
    <3>3. MainLeft' \in {8, 3}
      BY <1>1, <2>5
    <3>4. TestValues' /\ TestWindow'
      BY <1>0, <2>1, <3>2, <3>3 DEF TestValues, TestWindow
    <3>5. QED
      BY <1>2, <2>3, <3>2, <3>4
  <2>6. CASE MainLeft \in {7, 1} /\ Head(todo) = ISTOP
    <3>1. Edges(ISTOP)
      BY <1>0, <2>6
    <3>2. pCounter /\ iRz' = 0 /\ iEn' = 0
      BY <3>1, CounterEdges
    <3>3. MainLeft' \in {6, 0}
      BY <1>1, <2>6
    <3>4. TestValues' /\ TestWindow'
      BY <1>0, <2>1, <3>2, <3>3 DEF TestValues, TestWindow
    <3>5. QED
      BY <1>2, <2>3, <3>2, <3>4
  <2>7. QED
    BY <2>1, <2>4, <2>5, <2>6
<1>5. QED
  BY <1>3, <1>4

(* A second read joins the first.                                          *)
LEMMA TwoReads ==
  ASSUME NEW a, NEW b
  PROVE  Append(<<a>>, b)[1] = a /\ Append(<<a>>, b)[2] = b
OBVIOUS

(* A read of the counter ends, and its answer joins those before it.       *)
LEMMA TestReadEnds ==
  ASSUME OnScript, program = "test", TimerBits, ClockInv, CounterOK, TestValues, TestWindow,
         EndRead, ~InHandler
  PROVE  ClockInv' /\ CounterOK' /\ TestValues' /\ TestWindow'
<1>0. /\ todo # <<>> /\ handling = "none" /\ UNCHANGED <<pc, handling>> /\ todo' = Tail(todo)
      /\ reading = 1 /\ reading' = 0 /\ idle' = idle /\ MainReads /\ ~MainReads'
      /\ Edges(Head(todo)) /\ Head(todo).acc.kind = "read"
      /\ reads' = Append(reads, IF Head(todo).slave = "port" THEN portReadData ELSE ReadData)
  BY DEF EndRead, OnScript, Done, Pending, InHandler, MainReads
<1>1. pc = "done" /\ MainLeft \in {10, 8, 6, 5, 3, 2} /\ Head(todo) = ICOUNTER
  <2>1. pc # "boot"
    <3>1. Control(7).acc.kind = "write"
      BY DEF Control, Timer, WriteTo
    <3>2. QED
      BY <1>0, <3>1, BootAccess DEF OnScript
  <2>2. IRZ.acc.kind = "write" /\ ISTART.acc.kind = "write" /\ ISTOP.acc.kind = "write"
    BY DEF IRZ, ISTART, ISTOP, InterruptCounter, WriteTo
  <2>3. QED
    BY <1>0, <2>1, <2>2, TestAccess DEF OnScript
<1>2. Edges(ICOUNTER) /\ ICOUNTER.slave = "counter"
  BY <1>0, <1>1 DEF ICOUNTER, InterruptCounter
<1>3. CounterRuns /\ reads' = Append(reads, ReadData)
  BY <1>0, <1>1, <1>2, CounterEdges
<1>4. ClockRuns'
  BY <1>1, <1>2, ClockEdge DEF ClockInv
<1>5. ClockInv'
  BY <1>0, <1>1, <1>4 DEF ClockInv
<1>6. /\ iRz = 0 /\ iRz' = 0 /\ iEn' = iEn /\ idle = 0 /\ idle' = 0
      /\ iCounter \in 0 .. CounterSpan - 1 /\ iCounter' \in 0 .. CounterSpan - 1
      /\ iEn = 0 => iCounter' = iCounter
      /\ iEn = 1 => iCounter' = IF iCounter + 1 < CounterSpan THEN iCounter + 1 ELSE 0
  BY <1>0, <1>3, CountNext DEF CounterOK, CounterRuns
<1>7. CounterOK'
  BY <1>0, <1>6 DEF CounterOK
<1>8. MainLeft' = MainLeft - 1
  BY <1>0, MainStep DEF OnScript
<1>9. CASE MainLeft = 10
  <2>1. MainLeft' = 9 /\ reads = <<>> /\ ReadData = 0
    BY <1>0, <1>1, <1>8, <1>9 DEF TestValues
  <2>2. reads'[1] = 0
    BY <1>3, <2>1
  <2>3. TestValues' /\ TestWindow'
    BY <1>0, <1>1, <2>1, <2>2 DEF TestValues, TestWindow
  <2>4. QED
    BY <1>5, <1>7, <2>3
<1>10. CASE MainLeft = 8
  <2>1. MainLeft' = 7
    BY <1>8, <1>10
  <2>2. TestValues' /\ TestWindow'
    BY <1>0, <1>1, <2>1 DEF TestValues, TestWindow
  <2>3. QED
    BY <1>5, <1>7, <2>2
<1>11. CASE MainLeft = 6
  <2>1. MainLeft' = 5 /\ reads = <<>> /\ ReadData = iCounter /\ iEn = 0
    BY <1>0, <1>1, <1>8, <1>11 DEF TestValues
  <2>2. reads' = <<iCounter'>>
    BY <1>3, <1>6, <2>1
  <2>3. TestValues' /\ TestWindow'
    BY <1>0, <1>1, <1>6, <2>1, <2>2 DEF TestValues, TestWindow
  <2>4. QED
    BY <1>5, <1>7, <2>3
<1>12. CASE MainLeft = 5
  <2>1. MainLeft' = 4 /\ reads = <<iCounter>> /\ ReadData = iCounter
    BY <1>0, <1>1, <1>8, <1>12 DEF TestValues
  <2>2. reads'[1] = reads'[2]
    BY <1>3, <2>1
  <2>3. TestValues' /\ TestWindow'
    BY <1>0, <1>1, <2>1, <2>2 DEF TestValues, TestWindow
  <2>4. QED
    BY <1>5, <1>7, <2>3
<1>13. CASE MainLeft = 3
  <2>1. MainLeft' = 2 /\ reads = <<>> /\ iEn = 1
    BY <1>1, <1>8, <1>13 DEF TestValues
  <2>2. ReadData \in 0 .. CounterSpan - 1 /\ Ahead(ReadData, 1)
    BY <1>0, <1>1, <1>13 DEF TestWindow
  <2>3. reads' = <<ReadData>> /\ reads'[1] = ReadData
    BY <1>3, <2>1
  <2>4. CounterSpan \in Nat /\ 2 < CounterSpan
    BY PauseAssumption, CounterAssumption, TestAssumption
  <2>5. iCounter' = IF ReadData + 2 < CounterSpan THEN ReadData + 2 ELSE ReadData + 2 - CounterSpan
    BY <1>6, <2>1, <2>2, <2>4 DEF Ahead
  <2>6. Ahead(reads[1], 2)'
    BY <2>3, <2>5 DEF Ahead
  <2>7. NotServed(2)'
    BY <1>0, <1>6 DEF NotServed
  <2>8. BetweenReads'
    BY <1>0, <2>6, <2>7 DEF BetweenReads
  <2>9. TestValues'
    BY <1>0, <1>1, <1>6, <2>1, <2>2, <2>3 DEF TestValues
  <2>10. TestWindow'
    BY <1>0, <2>1, <2>8 DEF TestWindow
  <2>11. QED
    BY <1>5, <1>7, <2>9, <2>10
<1>14. CASE MainLeft = 2
  <2>1. MainLeft' = 1 /\ reads = <<reads[1]>>
    BY <1>1, <1>8, <1>14 DEF TestValues
  <2>2. ReadData # reads[1]
    BY <1>0, <1>1, <1>14 DEF TestWindow, BetweenReads
  <2>3. reads'[1] # reads'[2]
    <3> DEFINE a == reads[1]  b == ReadData
    <3>1. reads = <<a>> /\ a # b /\ reads' = Append(reads, b)
      BY <1>3, <2>1, <2>2
    <3> HIDE DEF a, b
    <3>2. QED
      BY <3>1, TwoReads
  <2>4. TestValues' /\ TestWindow'
    BY <1>0, <1>1, <2>1, <2>3 DEF TestValues, TestWindow
  <2>5. QED
    BY <1>5, <1>7, <2>4
<1>15. QED
  BY <1>1, <1>9, <1>10, <1>11, <1>12, <1>13, <1>14

(* main calls test_counter.                                                *)
LEMMA TestStarts ==
  ASSUME OnScript, program = "test", TimerBits, ClockInv, CounterOK, TestValues, SetUp
  PROVE  ClockInv' /\ CounterOK' /\ TestValues' /\ TestWindow'
<1>1. /\ pc = "boot" /\ todo = <<>> /\ pc' = "done" /\ todo' = Setup("test") /\ reads' = <<>>
      /\ idle' = 0 /\ reading' = 0 /\ handling' = "none" /\ Edges(Nowhere) /\ ~MainReads'
  BY AfterSetups DEF SetUp, Goto, At, MainRuns, Registers, TakesTimer, MainReads
<1>2. MainLeft' = 11
  BY <1>1, TestSetup DEF MainLeft
<1>3. CounterRuns
  BY <1>1, CounterEdges DEF Nowhere
<1>4. ClockRuns'
  BY <1>1, ClockEdge DEF ClockInv, Nowhere
<1>5. CounterOK'
  BY <1>1, <1>3, CountNext DEF CounterOK, CounterRuns
<1>6. ClockInv'
  BY <1>1, <1>4 DEF ClockInv
<1>7. TestValues' /\ TestWindow'
  BY <1>1, <1>2, <1>3 DEF TestValues, TestWindow, CounterRuns
<1>8. QED
  BY <1>5, <1>6, <1>7

LEMMA TestInvStep ==
  ASSUME OnScript, OnScript', SeenInv, SeenInv', TestInv, [Next]_vars
  PROVE  TestInv'
<1>0. TimerBits
  BY DEF SeenInv
<1>1. CASE UNCHANGED vars
  BY <1>1 DEF vars, irqVars, softVars, timerVars, counterVars, history, TestInv, ClockInv,
              ClockStopped, ClockRuns, counter_load_value, Resting, TickServed, Awaited, CounterOK,
              TestValues, TestWindow, BetweenReads, Ahead, NotServed, Served, Spent, MainReads,
              MainLeft, IsrLeft, irq, interrupt_enable
<1>2. CASE Next
  <2> SUFFICES ASSUME program = "test"
               PROVE  /\ ClockInv' /\ (~Resting' => TickServed')
                      /\ CounterOK' /\ TestValues' /\ TestWindow'
    BY <1>2, SameProgram DEF TestInv
  <2>1. ClockInv /\ (~Resting => TickServed) /\ CounterOK /\ TestValues /\ TestWindow
    BY DEF TestInv
  <2>2. ClockInv' => (~Resting' => TickServed')
    BY <1>2, <2>1, TickServedStep
  <2>3. ASSUME NEW bus, TestWaits(bus) PROVE TestWindow'
    <3>1. /\ UNCHANGED <<pc, todo>> /\ ~MainReads' /\ MainLeft' = MainLeft
      BY <2>3 DEF TestWaits, MainLeft
    <3>2. pc = "done" /\ MainLeft = 2 => BetweenReads'
      <4>1. SUFFICES ASSUME pc = "done", MainLeft = 2 PROVE BetweenReads'
        OBVIOUS
      <4>2. ~Resting'
        BY <3>1, <4>1, EmptyLists DEF Resting
      <4>3. ClockInv'
        BY <1>0, <2>1, <2>3, ClockInvWaits
      <4>4. QED
        BY <1>2, <2>1, <2>3, <2>2, <4>1, <4>2, <4>3, WindowWaits DEF TestWindow
    <3>3. QED
      BY <3>1, <3>2 DEF TestWindow
  <2>4. CASE \E bus : TestWaits(bus)
    BY <1>0, <2>1, <2>3, <2>4, <2>2, ClockInvWaits, ValuesWait
  <2>5. CASE Write /\ ~InHandler
    BY <1>0, <2>1, <2>5, <2>2, TestWrites
  <2>6. CASE BeginRead /\ ~InHandler
    BY <1>0, <2>1, <2>6, <2>2, TestReads
  <2>7. CASE EndRead /\ ~InHandler
    BY <1>0, <2>1, <2>7, <2>2, TestReadEnds
  <2>8. CASE SetUp
    BY <1>0, <2>1, <2>8, <2>2, TestStarts
  <2>9. QED
    BY <1>2, <2>4, <2>5, <2>6, <2>7, <2>8, TestSteps
<1>3. QED
  BY <1>1, <1>2

(* A period is made of its halves.                                         *)
LEMMA Division ==
  ASSUME NEW a \in Int, NEW b \in Int, b > 0
  PROVE  a = (a \div b) * b + (a % b)
OBVIOUS

LEMMA TestInvInit ==
  ASSUME Init
  PROVE  TestInv
<1>1. /\ pc = "boot" /\ todo = <<Control(7)>> /\ todo # <<>> /\ reading = 0 /\ idle = 0
      /\ handling = "none" /\ TimerInit /\ CounterInit
  BY DEF Init
<1>2. counter_load_value = ResetPeriod
  <2>1. ResetPeriod \in Int /\ HalfSpan \in Int /\ HalfSpan > 0
    BY ResetPeriodAssumption, HalfSpanAssumption
  <2>2. ResetPeriod = (ResetPeriod \div HalfSpan) * HalfSpan + (ResetPeriod % HalfSpan)
    BY <2>1, Division
  <2>3. QED
    BY <1>1, <2>2 DEF TimerInit, counter_load_value
<1>3. ClockInv
  BY <1>1, <1>2 DEF TimerInit, ClockInv, ClockStopped
<1>4. CounterOK /\ TestValues /\ TestWindow
  BY <1>1, CounterAssumption DEF CounterInit, CounterOK, TestValues, TestWindow
<1>5. TickServed
  BY <1>1 DEF TimerInit, irq, TickServed
<1>6. QED
  BY <1>3, <1>4, <1>5 DEF TestInv

-----------------------------------------------------------------------------
(* test_parallel_port: what the reads of the port show.                    *)

(* The register holds what it held or what was written, the direction is   *)
(* set before the first read, and the reads gave the register.             *)
PortTested ==
  /\ iRegPort \subseteq Lines
  /\ pc = "done" /\ MainLeft \in 0 .. 7 => iRegDir = Lines
  /\ pc = "done" /\ MainLeft \in 0 .. 3 => iRegPort = OddLines
  /\ pc = "done" /\ MainLeft \in {7, 6, 3, 2} /\ MainReads => portReadData = iRegPort
  /\ pc = "done" /\ MainLeft \in {7, 3} => reads = <<>>
  /\ pc = "done" /\ MainLeft \in {6, 2} => reads = <<iRegPort>>
  /\ pc = "done" /\ MainLeft \in {5, 1} => reads[1] = iRegPort /\ reads[2] = iRegPort

PortInv == program = "test_port" => PortTested

(* The port under the accesses of the programs.                            *)
LEMMA PortAccesses ==
  ASSUME NEW bus, Edges(bus)
  PROVE  /\ bus.slave # "port" => UNCHANGED <<iRegDir, iRegPort>>
         /\ bus = IREGDIR(Lines) => iRegDir' = Lines /\ UNCHANGED iRegPort
         /\ bus = IREGPORT(OddLines) => iRegPort' = OddLines /\ UNCHANGED iRegDir
         /\ bus = ReadPort(0) => UNCHANGED <<iRegDir, iRegPort>>
         /\ bus = ReadPort(1) => portReadData' = iRegPort /\ UNCHANGED <<iRegDir, iRegPort>>
         /\ bus = ReadPort(2) => portReadData' = iRegPin /\ UNCHANGED <<iRegDir, iRegPort>>
<1>1. PortEdge(IF bus.slave = "port" THEN bus.acc ELSE NoAccess)
  BY DEF Edges
<1>2. CASE bus.slave # "port"
  BY <1>1, <1>2 DEF PortEdge, PortWrite, Writes, NoAccess, IREGDIR, IREGPORT, ReadPort, Port
<1>3. CASE bus \in {IREGDIR(Lines), IREGPORT(OddLines)}
  BY <1>1, <1>3 DEF PortEdge, PortWrite, Writes, WriteTo, ReadFrom, IREGDIR, IREGPORT, ReadPort, Port
<1>4. CASE bus = ReadPort(0)
  BY <1>1, <1>4 DEF PortEdge, PortWrite, Writes, WriteTo, ReadFrom, IREGDIR, IREGPORT, ReadPort, Port
<1>5. CASE bus = ReadPort(1)
  BY <1>1, <1>5 DEF PortEdge, PortWrite, PortRead, Writes, Reads, WriteTo, ReadFrom, IREGDIR,
                    IREGPORT, ReadPort, Port
<1>6. CASE bus = ReadPort(2)
  BY <1>1, <1>6 DEF PortEdge, PortWrite, PortRead, Writes, Reads, WriteTo, ReadFrom, IREGDIR,
                    IREGPORT, ReadPort, Port
<1>7. CASE bus.slave = "port" /\ bus \notin {IREGDIR(Lines), IREGPORT(OddLines), ReadPort(0),
                                             ReadPort(1), ReadPort(2)}
  BY <1>7
<1>8. QED
  BY <1>2, <1>3, <1>4, <1>5, <1>6, <1>7

(* The outputs' pins show the register.                                    *)
LEMMA PinsShowRegister ==
  ASSUME iRegDir = Lines, iRegPort \subseteq Lines
  PROVE  iRegPin = iRegPort
BY LinesAssumption DEF iRegPin

LEMMA PortTestReads ==
  ASSUME OnScript, program = "test_port", PortTested, (BeginRead \/ EndRead) /\ ~InHandler
  PROVE  PortTested'
<1>0. /\ todo # <<>> /\ handling = "none" /\ UNCHANGED <<pc, handling>>
      /\ Edges(Head(todo)) /\ Head(todo).acc.kind = "read"
  BY DEF BeginRead, EndRead, MayAccess, OnScript, Pending, InHandler
<1>1. /\ pc = "done"
      /\ \/ MainLeft \in {7, 3} /\ Head(todo) = ReadPort(1)
         \/ MainLeft \in {6, 2} /\ Head(todo) = ReadPort(2)
         \/ MainLeft \in {5, 1} /\ Head(todo) = ReadPort(0)
  <2>1. pc # "boot"
    <3>1. Control(7).acc.kind = "write"
      BY DEF Control, Timer, WriteTo
    <3>2. QED
      BY <1>0, <3>1, BootAccess DEF OnScript
  <2>2. IREGDIR(Lines).acc.kind = "write" /\ IREGPORT(OddLines).acc.kind = "write"
    BY DEF IREGDIR, IREGPORT, Port, WriteTo
  <2>3. QED
    BY <1>0, <2>1, <2>2, TestPortAccess DEF OnScript
<1>2. UNCHANGED <<iRegDir, iRegPort>>
  BY <1>0, <1>1, PortAccesses
<1>3. iRegDir = Lines /\ iRegPort \subseteq Lines /\ iRegPin = iRegPort
  BY <1>1, PinsShowRegister DEF PortTested
<1>4. CASE BeginRead
  <2>1. UNCHANGED <<todo, reads>> /\ MainLeft' = MainLeft
    BY <1>4 DEF BeginRead, MainLeft
  <2>2. MainLeft \in {7, 6, 3, 2} => portReadData' = iRegPort
    BY <1>0, <1>1, <1>3, PortAccesses
  <2>3. QED
    BY <1>0, <1>1, <1>2, <1>3, <2>1, <2>2 DEF PortTested
<1>5. CASE EndRead
  <2>1. /\ todo' = Tail(todo) /\ MainReads /\ ~MainReads'
        /\ reads' = Append(reads, IF Head(todo).slave = "port" THEN portReadData ELSE ReadData)
    BY <1>0, <1>5 DEF EndRead, Done, Pending, InHandler, MainReads
  <2>2. reads' = Append(reads, portReadData)
    BY <1>1, <2>1 DEF ReadPort, Port
  <2>3. MainLeft' = MainLeft - 1
    BY <1>0, <2>1, MainStep DEF OnScript
  <2>4. CASE MainLeft \in {7, 3}
    <3>1. portReadData = iRegPort /\ reads = <<>> /\ MainLeft' \in {6, 2}
      BY <1>1, <2>1, <2>3, <2>4 DEF PortTested
    <3>2. reads' = <<iRegPort'>>
      BY <1>2, <2>2, <3>1
    <3>3. MainLeft' = 2 => iRegPort = OddLines
      BY <1>1, <2>3, <2>4 DEF PortTested
    <3>4. QED
      BY <1>0, <1>2, <1>3, <2>1, <3>1, <3>2, <3>3 DEF PortTested
  <2>5. CASE MainLeft \in {6, 2}
    <3>1. portReadData = iRegPort /\ reads = <<iRegPort>> /\ MainLeft' \in {5, 1}
      BY <1>1, <2>1, <2>3, <2>5 DEF PortTested
    <3>2. reads'[1] = iRegPort' /\ reads'[2] = iRegPort'
      <4>1. reads' = Append(<<iRegPort>>, iRegPort)
        BY <2>2, <3>1
      <4>2. QED
        BY <1>2, <4>1, TwoReads
    <3>3. MainLeft' = 1 => iRegPort = OddLines
      BY <1>1, <2>3, <2>5 DEF PortTested
    <3>4. QED
      BY <1>0, <1>2, <1>3, <2>1, <3>1, <3>2, <3>3 DEF PortTested
  <2>6. CASE MainLeft \in {5, 1}
    <3>1. MainLeft' \in {4, 0} /\ (MainLeft' = 0 => iRegPort = OddLines)
      BY <1>1, <2>3, <2>6 DEF PortTested
    <3>2. QED
      BY <1>0, <1>2, <1>3, <2>1, <3>1 DEF PortTested
  <2>7. QED
    BY <1>1, <2>4, <2>5, <2>6
<1>6. QED
  BY <1>4, <1>5

LEMMA PortTestWrites ==
  ASSUME OnScript, program = "test_port", PortTested, Write, ~InHandler
  PROVE  PortTested'
<1>0. /\ todo # <<>> /\ handling = "none" /\ UNCHANGED <<pc, handling>> /\ todo' = Tail(todo)
      /\ reads' = <<>> /\ ~MainReads' /\ Edges(Head(todo)) /\ Head(todo).acc.kind = "write"
  BY DEF Write, MayAccess, Done, Pending, InHandler, MainReads
<1>1. CASE pc = "boot"
  <2>1. Head(todo).slave # "port"
    BY <1>0, <1>1, BootAccess DEF OnScript, Control, Timer
  <2>2. QED
    BY <1>0, <1>1, <2>1, PortAccesses DEF PortTested
<1>2. CASE pc # "boot"
  <2>1. /\ pc = "done"
        /\ \/ MainLeft = 8 /\ Head(todo) = IREGDIR(Lines)
           \/ MainLeft = 4 /\ Head(todo) = IREGPORT(OddLines)
    <3>1. \A a \in 0 .. 2 : ReadPort(a).acc.kind = "read"
      BY DEF ReadPort, Port, ReadFrom
    <3>2. QED
      BY <1>0, <1>2, <3>1, TestPortAccess DEF OnScript
  <2>2. MainLeft' = MainLeft - 1
    BY <1>0, MainStep DEF OnScript
  <2>3. CASE MainLeft = 8 /\ Head(todo) = IREGDIR(Lines)
    <3>1. iRegDir' = Lines /\ iRegPort' = iRegPort
      BY <1>0, <2>3, PortAccesses
    <3>2. MainLeft' = 7
      BY <2>2, <2>3
    <3>3. QED
      BY <1>0, <2>1, <3>1, <3>2 DEF PortTested
  <2>4. CASE MainLeft = 4 /\ Head(todo) = IREGPORT(OddLines)
    <3>1. iRegPort' = OddLines /\ iRegDir' = iRegDir
      BY <1>0, <2>4, PortAccesses
    <3>2. MainLeft' = 3 /\ iRegDir = Lines
      BY <2>1, <2>2, <2>4 DEF PortTested
    <3>3. OddLines \subseteq Lines
      BY DEF OddLines
    <3>4. QED
      BY <1>0, <2>1, <3>1, <3>2, <3>3 DEF PortTested
  <2>5. QED
    BY <2>1, <2>3, <2>4
<1>3. QED
  BY <1>1, <1>2

LEMMA PortInvStep ==
  ASSUME OnScript, PortInv, [Next]_vars
  PROVE  PortInv'
<1>1. CASE UNCHANGED vars
  BY <1>1 DEF vars, softVars, portVars, PortInv, PortTested, MainLeft, MainReads
<1>2. CASE Next
  <2> SUFFICES ASSUME program = "test_port", PortTested PROVE PortTested'
    BY <1>2, SameProgram DEF PortInv
  <2>1. CASE \E bus : TestWaits(bus)
    <3>1. PICK bus : TestWaits(bus)
      BY <2>1
    <3>2. bus.slave # "port" /\ Edges(bus) /\ UNCHANGED <<pc, todo, reads>> /\ ~MainReads'
      BY <3>1 DEF TestWaits, Nowhere, ClearStatus, Timer
    <3>3. UNCHANGED <<iRegDir, iRegPort>> /\ MainLeft' = MainLeft
      BY <3>2, PortAccesses DEF MainLeft
    <3>4. QED
      BY <3>2, <3>3 DEF PortTested
  <2>2. CASE SetUp
    <3>1. /\ pc' = "done" /\ todo' = Setup("test_port") /\ Edges(Nowhere) /\ ~MainReads'
      BY <2>2, AfterSetups DEF SetUp, Goto, At, MainRuns, MainReads
    <3>2. MainLeft' = 8 /\ UNCHANGED <<iRegDir, iRegPort>>
      BY <3>1, TestPortSetup, PortAccesses DEF MainLeft, Nowhere
    <3>3. QED
      BY <3>1, <3>2 DEF PortTested
  <2>3. QED
    BY <1>2, <2>1, <2>2, TestSteps, PortTestReads, PortTestWrites
<1>3. QED
  BY <1>1, <1>2

(* counter.c:19 and 24 and parallel_port_test.c:9 hold of every counter    *)
(* and port: a reset reads 0, two reads of the stopped counter agree, two  *)
(* of the running one differ although the system clock's handler may run   *)
(* between them, and the pins show the port's register whatever is         *)
(* connected to them.                                                      *)
THEOREM TestsSucceed == Spec => []TestSucceeds
<1>1. Init => PortInv
  BY LinesAssumption DEF Init, PortInit, PortInv, PortTested
<1>2. OnScript /\ TestInv /\ PortInv => TestSucceeds
  <2> SUFFICES ASSUME OnScript, TestInv, PortInv PROVE TestSucceeds
    OBVIOUS
  <2>1. ASSUME program = "test", pc = "done"
        PROVE  /\ MainLeft = 9 => reads[1] = 0
               /\ MainLeft = 4 => reads[1] = reads[2]
               /\ MainLeft = 1 => reads[1] # reads[2]
    BY <2>1 DEF TestInv, TestValues
  <2>2. ASSUME program = "test_port", pc = "done"
        PROVE  /\ MainLeft = 5 => reads[1] = reads[2]
               /\ MainLeft = 1 => reads[1] = reads[2] /\ reads[1] = OddLines
    BY <2>2 DEF PortInv, PortTested
  <2>3. QED
    BY <2>1, <2>2 DEF TestSucceeds, MainLeft
<1>3. QED
  BY <1>1, <1>2, TestInvInit, TestInvStep, PortInvStep, ProgramsFollowTheirLists,
     TimerIrqIsReal, PTL DEF Spec
=============================================================================
