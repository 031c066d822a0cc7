----------------------------- MODULE SwapSystem -----------------------------
(***************************************************************************)
(* The accelerator driven by service.c.  The processor runs                *)
(* bit_reshuffle_hardware_accelerator, or the test function around it, and *)
(* its bus accesses reach the slave port of SwapAccelerator.  Every action *)
(* is one clock cycle: the processor's side of it and Edge.                *)
(*                                                                         *)
(* Two facts about the processor's bus shape the cycles.  The slave has    *)
(* one read wait state and no write wait state, so a read takes two cycles *)
(* and a write one.  And no two accesses are back to back: the register    *)
(* offsets are global variables, so a load stands between any two of them. *)
(***************************************************************************)
EXTENDS SwapAccelerator

CONSTANTS
  Jobs,       (* the argument triples the program calls the driver with    *)
  InitMem     (* contents of the memory when the program starts            *)

ASSUME JobsAssumption == Jobs \subseteq [src : Addr, dst : Addr, lgt : Lgt]
ASSUME MemAssumption == InitMem \in [WordIndex -> Word]

VARIABLES
  pc,        (* what the driver does next                                  *)
  job,       (* its arguments, those of the last call once it returned     *)
  reading,   (* register whose read is in its wait state, or NoRegister    *)
  quiet      (* 1 when the cycle before carried no access                  *)

NoRegister == 8
noJob == [src |-> 0, dst |-> 0, lgt |-> 0]
driverVars == <<pc, job, reading, quiet>>
vars == <<hwVars, driverVars>>

ProgramSteps == {"add", "lgt", "res", "go"}

-----------------------------------------------------------------------------
Init ==
  /\ HwInit
  /\ mem = InitMem
  /\ pc = "boot"
  /\ job = noJob
  /\ reading = NoRegister
  /\ quiet = 1

(* The processor may use the bus in this cycle.                            *)
BusFree == reading = NoRegister /\ quiet = 1

(* The processor computes, or fetches from elsewhere.                      *)
Compute ==
  /\ reading = NoRegister
  /\ quiet' = 1
  /\ UNCHANGED <<pc, job, reading>>
  /\ Edge(NoAccess)

(* The program calls the driver.                                           *)
Call(j) ==
  /\ pc \in {"boot", "ready"} /\ reading = NoRegister
  /\ pc' = "add"
  /\ job' = j
  /\ quiet' = 1
  /\ UNCHANGED reading
  /\ Edge(NoAccess)

(* The test function starts a second operation on the parameters that are  *)
(* still in the registers.                                                 *)
CallAgain ==
  /\ pc = "ready" /\ reading = NoRegister
  /\ pc' = "go"
  /\ quiet' = 1
  /\ UNCHANGED <<job, reading>>
  /\ Edge(NoAccess)

(* The IOWR at pc, then the driver is at next.                             *)
Write(at, a, d, next) ==
  /\ pc = at /\ BusFree
  /\ pc' = next
  /\ quiet' = 0
  /\ UNCHANGED <<job, reading>>
  /\ Edge(WriteTo(a, d))

WriteSource == Write("add", 0, job.src, "lgt")

(* A slip: the result address is left out.                                 *)
Slip_NoResultAddress == Write("lgt", 1, job.lgt, "go")

WriteLength == Write("lgt", 1, job.lgt, "res")
WriteResult == Write("res", 3, job.dst, "go")
WriteStart == Write("go", 2, 1, "poll")

(* The test function also writes its operation flag, at an address the     *)
(* accelerator ignores.                                                    *)
WriteOperation == \E op \in Bit : Write("go", 4, op, "go")

(* First cycle of an IORD: the polling loop reads finish, printRegisters   *)
(* the four others, anywhere in the test function.                         *)
BeginRead(a) ==
  /\ BusFree
  /\ reading' = a
  /\ quiet' = 0
  /\ UNCHANGED <<pc, job>>
  /\ Edge(ReadFrom(a))

BeginPoll == pc = "poll" /\ BeginRead(5)
PrintRegister == pc \in ProgramSteps \cup {"poll"} /\ \E a \in 0 .. 3 : BeginRead(a)

(* A slip: the driver returns after one read of finish, whatever it says.  *)
Slip_PollOnce ==
  /\ reading # NoRegister
  /\ reading' = NoRegister
  /\ quiet' = 0
  /\ pc' = IF reading = 5 THEN "ready" ELSE pc
  /\ UNCHANGED job
  /\ Edge(ReadFrom(reading))

(* Second cycle: the processor takes sReadData.  A set finish ends the     *)
(* polling loop and the driver returns.                                    *)
EndRead ==
  /\ reading # NoRegister
  /\ reading' = NoRegister
  /\ quiet' = 0
  /\ pc' = IF reading = 5 /\ sReadData = 1 THEN "ready" ELSE pc
  /\ UNCHANGED job
  /\ Edge(ReadFrom(reading))

Drive == WriteSource \/ WriteLength \/ WriteResult \/ WriteStart \/ BeginPoll

Next ==
  \/ Compute
  \/ \E j \in Jobs : Call(j)
  \/ CallAgain
  \/ WriteSource \/ WriteLength \/ WriteResult \/ WriteStart \/ WriteOperation
  \/ BeginPoll \/ PrintRegister
  \/ EndRead

(* The clock does not stop, the memory does not stall a request for ever,  *)
(* and the processor gets to its next access however many prints precede   *)
(* it: they are finitely many.                                             *)
Fairness ==
  /\ WF_vars(Next)
  /\ WF_vars(Next /\ mWaitRequest' = 0)
  /\ SF_vars(Drive)

Spec == Init /\ [][Next]_vars
FairSpec == Spec /\ Fairness

-----------------------------------------------------------------------------
TypeOK ==
  /\ HwTypeOK
  /\ pc \in ProgramSteps \cup {"boot", "ready", "poll"}
  /\ job \in [src : Addr, dst : Addr, lgt : Lgt]
  /\ reading \in 0 .. 8
  /\ quiet \in Bit

(* A run is pending from the start pulse until the FSM has left            *)
(* LOAD_PARAMETERS.                                                        *)
Pending == start = 1 \/ state = "LOAD_PARAMETERS"
Running == state \notin {"IDLE", "LOAD_PARAMETERS"}

(* When the polling loop (service.c:24) is about to see finish set, the    *)
(* run it started is over: the start pulse was consumed, the FSM is back   *)
(* in IDLE and no request is left on the memory bus.  A finish flag left   *)
(* over from the run before must never be taken for this one's.            *)
FinishIsNotStale ==
  reading = 5 /\ sReadData = 1 => state = "IDLE" /\ start = 0 /\ mWrite = 0 /\ mRead = 0

(* The FSM looks at start in IDLE only, and the pulse lasts one cycle: a   *)
(* pulse that meets any other state is lost and the driver polls for ever. *)
StartIsSeen == start = 1 => state = "IDLE" /\ pc = "poll"

(* While a driver waits the accelerator works on that driver's arguments,  *)
(* and it never works when no driver waits.                                *)
WorksForTheCaller ==
  /\ Pending \/ Running => pc = "poll"
  /\ Pending => <<RegAddStart, RegLgt, ResultRegAddStart>> = <<job.src, job.lgt, job.dst>>

(* What the test function prints to compare "Address in DMA" with "Address *)
(* in CPU" (service.c:49-51): a register reads back as it was written.     *)
ReadsBackParameters ==
  pc = "poll" =>
    /\ reading = 0 => sReadData = job.src
    /\ reading = 1 => sReadData = job.lgt
    /\ reading = 3 => sReadData = job.dst

(* The inductive invariant behind the four above and the refinement below: *)
(* what pc says of the FSM, of the registers programmed so far, and of the *)
(* answer to a read that is in its second cycle.                           *)
Programmed ==
  /\ pc # "boot" => job \in Jobs
  /\ pc \in {"lgt", "res", "go", "poll", "ready"} => RegAddStart = job.src
  /\ pc \in {"res", "go", "poll", "ready"} => RegLgt = job.lgt
  /\ pc \in {"go", "poll", "ready"} => ResultRegAddStart = job.dst

AnswerIsCurrent ==
  /\ reading = 5 => pc = "poll" /\ start = 0
                     /\ (sReadData = 1 => state = "IDLE" /\ finish = 1)
  /\ pc = "poll" => /\ reading = 0 => sReadData = RegAddStart
                    /\ reading = 1 => sReadData = RegLgt
                    /\ reading = 3 => sReadData = ResultRegAddStart

OneRunAtATime ==
  /\ pc # "poll" => state = "IDLE" /\ start = 0
  /\ start = 1 => state = "IDLE" /\ quiet = 0 /\ reading = NoRegister
  /\ finish = 1 => state = "IDLE"

IInv ==
  /\ TypeOK
  /\ RequestMatchesState
  /\ WordInFlight
  /\ Programmed
  /\ AnswerIsCurrent
  /\ OneRunAtATime

(* The words of a window of n strides that starts at byte address a.       *)
Window(a, n) == {WordOf(NthAddress(a, k)) : k \in 0 .. n - 1}

(* The accelerator changes no word but those of the result window of the   *)
(* call that is waiting for it (lgt + 1 words, as WAIT_FOR_WRITE counts).  *)
WritesOnlyTheWindow ==
  [][\A w \in WordIndex : mem'[w] # mem[w] =>
       pc = "poll" /\ w \in Window(job.dst, job.lgt + 1)]_vars

(* The same with the window the documentation gives: "if the size of the   *)
(* array is 10 then the length is simply 10" (report.tex:226).             *)
WritesOnlyTheArray ==
  [][\A w \in WordIndex : mem'[w] # mem[w] =>
       pc = "poll" /\ w \in Window(job.dst, job.lgt)]_vars

(* A stalled memory request stays on the bus unchanged.                    *)
HoldsRequests == [][HoldsRequest]_vars

(* Every call returns: the pulse is seen, the FSM runs to its last word    *)
(* and the polling loop reads the flag.                                    *)
CallsReturn == pc \in ProgramSteps \cup {"poll"} ~> pc = "ready"

-----------------------------------------------------------------------------
(* The refinement mapping.  Until LOAD_PARAMETERS the words owed are those *)
(* of the parameter registers, then those of the counters; a finished run  *)
(* has left its counters on the last word, so the next one is past it.     *)
srcBar == IF Pending THEN RegAddStart ELSE IF Running THEN CntAdd ELSE Advance(CntAdd)
dstBar ==
  IF Pending THEN ResultRegAddStart ELSE IF Running THEN CntResultAdd ELSE Advance(CntResultAdd)
leftBar == IF Pending THEN RegLgt + 1 ELSE IF Running THEN CntLgt + 1 ELSE 0

Abstract == INSTANCE BitReshuffle WITH
  busy <- IF pc = "poll" THEN 1 ELSE 0, src <- srcBar, dst <- dstBar, left <- leftBar

(* The clocked system implements BitReshuffle: the driver returns when the *)
(* words are in memory, and the FSM and bus only ever do its copies.       *)
ImplementsBitReshuffle == Abstract!Spec
=============================================================================
