-------------------------- MODULE SwapSystem_proofs --------------------------
(***************************************************************************)
(* The driver and the accelerator for every memory, stride, length, word   *)
(* set, transform and set of calls: type correctness, the inductive        *)
(* invariant IInv and what follows from it, the bus protocol, and that the *)
(* clocked system implements BitReshuffle.                                 *)
(***************************************************************************)
EXTENDS SwapSystem, SwapAccelerator_proofs, CallRecord

-----------------------------------------------------------------------------
(* Every step is one edge of the accelerator under a legal access.         *)
LEMMA NextIsAnEdge ==
  ASSUME TypeOK, Next
  PROVE  \E acc : ValidAccess(acc) /\ Edge(acc)
<1> USE DEF ValidAccess, NoAccess, WriteTo, ReadFrom, TypeOK, Bit
<1>1. CASE Compute
  BY <1>1 DEF Compute
<1>2. CASE \E j \in Jobs : Call(j)
  BY <1>2 DEF Call
<1>3. CASE CallAgain
  BY <1>3 DEF CallAgain
<1>4. CASE WriteSource
  BY <1>4 DEF WriteSource, Write, Addr
<1>5. CASE WriteLength
  BY <1>5 DEF WriteLength, Write, Lgt
<1>6. CASE WriteResult
  BY <1>6 DEF WriteResult, Write, Addr
<1>7. CASE WriteStart
  BY <1>7 DEF WriteStart, Write
<1>8. CASE WriteOperation
  BY <1>8 DEF WriteOperation, Write
<1>9. CASE BeginPoll
  BY <1>9 DEF BeginPoll, BeginRead
<1>10. CASE PrintRegister
  BY <1>10 DEF PrintRegister, BeginRead
<1>11. CASE EndRead
  BY <1>11 DEF EndRead, NoRegister
<1>12. QED
  BY <1>1, <1>2, <1>3, <1>4, <1>5, <1>6, <1>7, <1>8, <1>9, <1>10, <1>11 DEF Next

(* The driver's own variables keep their types.                            *)
LEMMA DriverType ==
  ASSUME TypeOK, Next
  PROVE  /\ pc' \in ProgramSteps \cup {"boot", "ready", "poll"}
         /\ job' \in [src : Addr, dst : Addr, lgt : Lgt]
         /\ reading' \in 0 .. 8 /\ quiet' \in Bit
BY JobsAssumption
DEF TypeOK, Next, Compute, Call, CallAgain, Write, WriteSource, WriteLength, WriteResult,
    WriteStart, WriteOperation, BeginRead, BeginPoll, PrintRegister, EndRead,
    ProgramSteps, NoRegister, Bit

(* Every signal, counter and driver variable stays in its range.           *)
THEOREM TypeCorrect == Spec => []TypeOK
<1>1. Init => TypeOK
  BY InitType, MemAssumption, AddrSpaceAssumption, LgtAssumption
  DEF Init, TypeOK, noJob, NoRegister, Addr, Lgt, Bit
<1>2. TypeOK /\ [Next]_vars => TypeOK'
  <2> SUFFICES ASSUME TypeOK, [Next]_vars PROVE TypeOK'
    OBVIOUS
  <2>1. CASE Next
    BY <2>1, NextIsAnEdge, EdgeType, DriverType DEF TypeOK
  <2>2. CASE UNCHANGED vars
    BY <2>2 DEF vars, hwVars, driverVars, parameters, counters, request, TypeOK, HwTypeOK
  <2>3. QED
    BY <2>1, <2>2
<1>3. QED
  BY <1>1, <1>2, PTL DEF Spec

-----------------------------------------------------------------------------
(* The parts of IInv that only the accelerator and the memory touch.       *)

(* The master port asks for a word in exactly two states.                  *)
LEMMA EdgeRequest ==
  ASSUME HwTypeOK, RequestMatchesState, TransitionMasterFSM
  PROVE  RequestMatchesState'
BY DEF RequestMatchesState, TransitionMasterFSM, Idle, LoadParameters, RdAcc, WaitRd,
       Calculate, SendWriteRequest, WaitForWrite, NextWord, LastWord, request,
       HwTypeOK, Bit, States

(* Memory changes only where and when a write request is taken.            *)
LEMMA MemoryStep ==
  ASSUME HwTypeOK, RequestMatchesState, WordInFlight, Memory
  PROVE  mem' = IF state = "WAIT_FOR_WRITE" /\ mWaitRequest = 0
                THEN [mem EXCEPT ![WordOf(CntResultAdd)] = Transform[mem[WordOf(CntAdd)]]]
                ELSE mem
BY DEF HwTypeOK, RequestMatchesState, WordInFlight, Memory, Bit

(* The word at hand stays the transform of what its source holds.          *)
LEMMA EdgeWordInFlight ==
  ASSUME HwTypeOK, RequestMatchesState, WordInFlight, TransitionMasterFSM, Memory
  PROVE  WordInFlight'
<1> USE DEF WordInFlight, counters, request, HwTypeOK, States, Bit
<1>0. mem' = IF state = "WAIT_FOR_WRITE" /\ mWaitRequest = 0
             THEN [mem EXCEPT ![WordOf(CntResultAdd)] = Transform[mem[WordOf(CntAdd)]]]
             ELSE mem
  BY MemoryStep
<1>1. CASE Idle
  BY <1>0, <1>1 DEF Idle
<1>2. CASE LoadParameters
  BY <1>0, <1>2 DEF LoadParameters
<1>3. CASE RdAcc
  BY <1>0, <1>3 DEF RdAcc
<1>4. CASE WaitRd
  BY <1>0, <1>4 DEF WaitRd
<1>5. CASE Calculate
  BY <1>0, <1>5 DEF Calculate
<1>6. CASE SendWriteRequest
  BY <1>0, <1>6 DEF SendWriteRequest
<1>7. CASE WaitForWrite
  BY <1>0, <1>7 DEF WaitForWrite, NextWord, LastWord
<1>8. QED
  BY <1>1, <1>2, <1>3, <1>4, <1>5, <1>6, <1>7 DEF TransitionMasterFSM

-----------------------------------------------------------------------------
(* What the FSM does to state and finish, all that the driver's side of    *)
(* the invariant needs to know of it.                                      *)
LEMMA FsmProgress ==
  ASSUME HwTypeOK, TransitionMasterFSM
  PROVE  /\ state = "IDLE" /\ start = 0 => state' = "IDLE" /\ finish' = finish
         /\ state = "IDLE" /\ start = 1 => state' = "LOAD_PARAMETERS" /\ finish' = 0
         /\ state # "IDLE" => (state' = "IDLE" /\ finish' = 1) \/ (state' # "IDLE" /\ finish' = finish)
<1> USE DEF HwTypeOK, Bit
<1>1. CASE Idle
  BY <1>1 DEF Idle
<1>2. CASE LoadParameters \/ RdAcc \/ Calculate \/ SendWriteRequest
  BY <1>2 DEF LoadParameters, RdAcc, Calculate, SendWriteRequest
<1>3. CASE WaitRd
  BY <1>3 DEF WaitRd
<1>4. CASE WaitForWrite
  BY <1>4 DEF WaitForWrite, NextWord, LastWord
<1>5. QED
  BY <1>1, <1>2, <1>3, <1>4 DEF TransitionMasterFSM

(* The driver's side of IInv.                                              *)
DriverInv == Programmed /\ AnswerIsCurrent /\ OneRunAtATime

(* Each action of the driver keeps it: start is written only in IDLE, and  *)
(* the cycle that follows a start write is too early for a read of finish. *)
LEMMA DriverStep ==
  ASSUME TypeOK, DriverInv, Next
  PROVE  DriverInv'
<1>0. HwTypeOK /\ TransitionMasterFSM
  BY NextIsAnEdge DEF TypeOK, Edge
<1>a. /\ state = "IDLE" /\ start = 0 => state' = "IDLE" /\ finish' = finish
      /\ state = "IDLE" /\ start = 1 => state' = "LOAD_PARAMETERS" /\ finish' = 0
      /\ state # "IDLE" => (state' = "IDLE" /\ finish' = 1) \/ (state' # "IDLE" /\ finish' = finish)
  BY <1>0, FsmProgress
<1>b. start \in Bit
  BY <1>0 DEF HwTypeOK
<1> USE DEF DriverInv, Programmed, AnswerIsCurrent, OneRunAtATime, TypeOK, Edge,
            SlaveWriteProcess, SlaveReadProcess, Reads, Writes, NoAccess, WriteTo, ReadFrom,
            BusFree, NoRegister, Bit
<1>1. CASE Compute
  BY <1>1, <1>a, <1>b DEF Compute
<1>2. CASE \E j \in Jobs : Call(j)
  BY <1>2, <1>a DEF Call
<1>3. CASE CallAgain
  BY <1>3, <1>a DEF CallAgain
<1>4. CASE WriteSource
  BY <1>4, <1>a DEF WriteSource, Write
<1>5. CASE WriteLength
  BY <1>5, <1>a DEF WriteLength, Write
<1>6. CASE WriteResult
  BY <1>6, <1>a DEF WriteResult, Write
<1>7. CASE WriteStart
  BY <1>7, <1>a DEF WriteStart, Write
<1>8. CASE WriteOperation
  BY <1>8, <1>a DEF WriteOperation, Write
<1>9. CASE BeginPoll
  BY <1>9, <1>a, <1>b, RegisterMap DEF BeginPoll, BeginRead
<1>10. CASE PrintRegister
  BY <1>10, <1>a, <1>b, RegisterMap DEF PrintRegister, BeginRead
<1>11. CASE EndRead
  BY <1>11, <1>a, <1>b, RegisterMap DEF EndRead
<1>12. QED
  BY <1>1, <1>2, <1>3, <1>4, <1>5, <1>6, <1>7, <1>8, <1>9, <1>10, <1>11 DEF Next

-----------------------------------------------------------------------------
(* IInv is an invariant of the clocked system.                             *)
THEOREM InductiveInvariant == Spec => []IInv
<1>1. Init => IInv
  <2> SUFFICES ASSUME Init PROVE IInv
    OBVIOUS
  <2>1. TypeOK
    BY InitType, MemAssumption, AddrSpaceAssumption, LgtAssumption
    DEF Init, TypeOK, noJob, NoRegister, Addr, Lgt, Bit
  <2>2. RequestMatchesState /\ WordInFlight
    BY DEF Init, HwInit, RequestMatchesState, WordInFlight
  <2>3. DriverInv
    BY DEF Init, HwInit, DriverInv, Programmed, AnswerIsCurrent, OneRunAtATime, NoRegister
  <2>4. QED
    BY <2>1, <2>2, <2>3 DEF IInv, DriverInv
<1>2. TypeOK' /\ IInv /\ [Next]_vars => IInv'
  <2> SUFFICES ASSUME TypeOK', IInv, [Next]_vars PROVE IInv'
    OBVIOUS
  <2>1. CASE Next
    <3>1. HwTypeOK /\ TransitionMasterFSM /\ Memory
      BY <2>1, NextIsAnEdge DEF Edge, IInv, TypeOK
    <3>2. RequestMatchesState'
      BY <3>1, EdgeRequest DEF IInv
    <3>3. WordInFlight'
      BY <3>1, EdgeWordInFlight DEF IInv
    <3>4. DriverInv'
      BY <2>1, DriverStep DEF IInv, DriverInv
    <3>5. QED
      BY <3>2, <3>3, <3>4 DEF IInv, DriverInv
  <2>2. CASE UNCHANGED vars
    BY <2>2 DEF vars, hwVars, driverVars, parameters, counters, request, IInv,
                RequestMatchesState, WordInFlight, Programmed, AnswerIsCurrent, OneRunAtATime
  <2>3. QED
    BY <2>1, <2>2
<1>3. QED
  BY <1>1, <1>2, TypeCorrect, PTL DEF Spec

(* What the invariant says of the four properties of the driver.           *)
LEMMA DriverSafety ==
  ASSUME IInv
  PROVE  FinishIsNotStale /\ StartIsSeen /\ WorksForTheCaller /\ ReadsBackParameters
<1>1. start \in Bit /\ mRead \in Bit /\ mWrite \in Bit
  BY DEF IInv, TypeOK, HwTypeOK
<1>2. FinishIsNotStale
  BY <1>1 DEF IInv, AnswerIsCurrent, RequestMatchesState, FinishIsNotStale, Bit
<1>3. StartIsSeen
  BY DEF IInv, OneRunAtATime, StartIsSeen
<1>4. WorksForTheCaller
  BY <1>1 DEF IInv, OneRunAtATime, Programmed, WorksForTheCaller, Pending, Running, Bit
<1>5. ReadsBackParameters
  BY DEF IInv, Programmed, AnswerIsCurrent, ReadsBackParameters
<1>6. QED
  BY <1>2, <1>3, <1>4, <1>5

(* The polling loop of service.c:24 never takes a finish flag left by the  *)
(* run before for the end of its own.                                      *)
THEOREM NoStaleFinish == Spec => []FinishIsNotStale
<1>1. IInv => FinishIsNotStale
  BY DriverSafety
<1>2. QED
  BY <1>1, InductiveInvariant, PTL

(* No start pulse meets another state than IDLE.                           *)
THEOREM NoStartIsLost == Spec => []StartIsSeen
<1>1. IInv => StartIsSeen
  BY DriverSafety
<1>2. QED
  BY <1>1, InductiveInvariant, PTL

(* The accelerator runs for a waiting caller only, with its arguments.     *)
THEOREM CallersArguments == Spec => []WorksForTheCaller
<1>1. IInv => WorksForTheCaller
  BY DriverSafety
<1>2. QED
  BY <1>1, InductiveInvariant, PTL

(* The parameter registers read back as written while the run is under way.*)
THEOREM ReadBack == Spec => []ReadsBackParameters
<1>1. IInv => ReadsBackParameters
  BY DriverSafety
<1>2. QED
  BY <1>1, InductiveInvariant, PTL

(* A stalled request stays on the memory bus unchanged.                    *)
THEOREM RequestsAreHeld == Spec => HoldsRequests
<1>1. IInv /\ [Next]_vars => [HoldsRequest]_vars
  <2> SUFFICES ASSUME IInv, Next, (mRead = 1 \/ mWrite = 1), mWaitRequest = 1
               PROVE  UNCHANGED request
    BY DEF HoldsRequest
  <2>1. TransitionMasterFSM
    BY NextIsAnEdge DEF IInv, Edge
  <2>2. state \in {"WAIT_RD", "WAIT_FOR_WRITE"}
    BY DEF IInv, RequestMatchesState
  <2>3. QED
    BY <2>1, <2>2 DEF TransitionMasterFSM, Idle, LoadParameters, RdAcc, WaitRd, Calculate,
                      SendWriteRequest, WaitForWrite, request
<1>2. QED
  BY <1>1, InductiveInvariant, PTL DEF Spec, HoldsRequests

-----------------------------------------------------------------------------
(* The refinement: one lemma for the FSM's side of a step, one for the     *)
(* driver's, and the theorem that puts them together.                      *)

(* As long as the parameters of a pending run stand still and no new pulse *)
(* comes, an edge either copies the word at hand or changes nothing that   *)
(* BitReshuffle can see.                                                   *)
LEMMA FsmCopies ==
  ASSUME IInv, TransitionMasterFSM, Memory, start' = 0,
         UNCHANGED parameters \/ ~(Pending \/ Running)
  PROVE  \/ /\ leftBar > 0
            /\ mem' = [mem EXCEPT ![WordOf(dstBar)] = Transform[mem[WordOf(srcBar)]]]
            /\ srcBar' = Advance(srcBar) /\ dstBar' = Advance(dstBar)
            /\ leftBar' = leftBar - 1
         \/ UNCHANGED <<srcBar, dstBar, leftBar, mem>>
<1>0. mem' = IF state = "WAIT_FOR_WRITE" /\ mWaitRequest = 0
             THEN [mem EXCEPT ![WordOf(CntResultAdd)] = Transform[mem[WordOf(CntAdd)]]]
             ELSE mem
  BY MemoryStep DEF IInv, TypeOK
<1>1. start \in Bit /\ CntLgt \in Nat /\ mWaitRequest \in Bit
  BY LgtAssumption DEF IInv, TypeOK, HwTypeOK, Lgt
<1>2. start = 1 => state = "IDLE"
  BY DEF IInv, OneRunAtATime
<1> USE DEF srcBar, dstBar, leftBar, Pending, Running, parameters, counters, request, Bit
<1>3. CASE Idle
  BY <1>0, <1>1, <1>3 DEF Idle
<1>4. CASE LoadParameters
  BY <1>0, <1>1, <1>2, <1>4 DEF LoadParameters
<1>5. CASE RdAcc \/ Calculate \/ SendWriteRequest
  BY <1>0, <1>1, <1>2, <1>5 DEF RdAcc, Calculate, SendWriteRequest
<1>6. CASE WaitRd
  BY <1>0, <1>1, <1>2, <1>6 DEF WaitRd
<1>7. CASE WaitForWrite
  <2>0. srcBar = CntAdd /\ dstBar = CntResultAdd /\ leftBar = CntLgt + 1
    BY <1>1, <1>2, <1>7 DEF WaitForWrite
  <2>1. CASE mWaitRequest = 1
    <3>1. state' = state /\ UNCHANGED counters
      BY <1>7, <2>1 DEF WaitForWrite
    <3>2. QED
      BY <1>0, <1>7, <2>0, <2>1, <3>1 DEF WaitForWrite
  <2>2. CASE mWaitRequest = 0 /\ NextWord
    <3>1. srcBar' = CntAdd' /\ dstBar' = CntResultAdd' /\ leftBar' = CntLgt' + 1
      BY <2>2 DEF NextWord
    <3>2. leftBar > 0 /\ leftBar' = leftBar - 1
      BY <1>1, <2>0, <2>2, <3>1 DEF NextWord
    <3>3. mem' = [mem EXCEPT ![WordOf(dstBar)] = Transform[mem[WordOf(srcBar)]]]
      BY <1>0, <1>7, <2>0, <2>2 DEF WaitForWrite
    <3>4. srcBar' = Advance(srcBar) /\ dstBar' = Advance(dstBar)
      BY <2>0, <2>2, <3>1 DEF NextWord
    <3>5. QED
      BY <3>2, <3>3, <3>4
  <2>3. CASE mWaitRequest = 0 /\ LastWord
    <3>1. srcBar' = Advance(CntAdd') /\ dstBar' = Advance(CntResultAdd') /\ leftBar' = 0
      BY <2>3 DEF LastWord
    <3>2. leftBar > 0 /\ leftBar' = leftBar - 1
      BY <1>1, <2>0, <2>3, <3>1 DEF LastWord
    <3>3. mem' = [mem EXCEPT ![WordOf(dstBar)] = Transform[mem[WordOf(srcBar)]]]
      BY <1>0, <1>7, <2>0, <2>3 DEF WaitForWrite
    <3>4. srcBar' = Advance(srcBar) /\ dstBar' = Advance(dstBar)
      BY <2>0, <2>3, <3>1 DEF LastWord
    <3>5. QED
      BY <3>2, <3>3, <3>4
  <2>4. QED
    BY <1>1, <1>7, <2>1, <2>2, <2>3 DEF WaitForWrite
<1>8. QED
  BY <1>3, <1>4, <1>5, <1>6, <1>7 DEF TransitionMasterFSM

(* The driver's side: besides the write that starts a run and the read     *)
(* that ends the polling loop, a step neither begins nor ends a call, and  *)
(* it leaves the parameters alone while the driver waits.                  *)
LEMMA DriverSide ==
  ASSUME IInv, Next
  PROVE  \/ WriteStart
         \/ EndRead /\ reading = 5 /\ sReadData = 1
         \/ /\ pc = "poll" <=> pc' = "poll"
            /\ start' = 0
            /\ UNCHANGED parameters \/ pc # "poll"
<1> USE DEF parameters, Edge, SlaveWriteProcess, Writes, NoAccess, WriteTo, ReadFrom
<1>1. CASE Compute \/ CallAgain \/ \E j \in Jobs : Call(j)
  BY <1>1 DEF Compute, CallAgain, Call
<1>2. CASE WriteSource \/ WriteLength \/ WriteResult
  BY <1>2 DEF WriteSource, WriteLength, WriteResult, Write
<1>3. CASE WriteOperation
  BY <1>3 DEF WriteOperation, Write
<1>4. CASE BeginPoll \/ PrintRegister
  BY <1>4 DEF BeginPoll, PrintRegister, BeginRead
<1>5. CASE EndRead
  BY <1>5 DEF EndRead
<1>6. QED
  BY <1>1, <1>2, <1>3, <1>4, <1>5 DEF Next

(* A step of the clocked system is the beginning of an abstract call, with *)
(* the arguments of the driver that writes start; or one of the abstract   *)
(* copies or the abstract return; or nothing that BitReshuffle can see.    *)
LEMMA StepIsAbstract ==
  ASSUME IInv, Next
  PROVE  \/ pc = "go" /\ pc' = "poll" /\ job \in Jobs /\ Abstract!Begin(job)
         \/ /\ ~(pc = "go" /\ pc' = "poll")
            /\ Abstract!CopyWord \/ Abstract!Return \/ UNCHANGED Abstract!vars
<1>1. TransitionMasterFSM /\ Memory
  BY NextIsAnEdge DEF IInv, Edge
<1>2. CASE WriteStart
  <2>1. state = "IDLE" /\ start = 0 /\ job \in Jobs
    BY <1>2 DEF IInv, OneRunAtATime, Programmed, WriteStart, Write
  <2>2. leftBar = 0
    BY <2>1 DEF leftBar, Pending, Running
  <2>3. mem' = mem
    BY <1>1, <2>1, MemoryStep DEF IInv, TypeOK
  <2>4. /\ srcBar' = job.src /\ dstBar' = job.dst /\ leftBar' = job.lgt + 1
    BY <1>2 DEF IInv, Programmed, WriteStart, Write, Edge, SlaveWriteProcess, Writes, WriteTo,
                srcBar, dstBar, leftBar, Pending
  <2>5. pc = "go" /\ pc' = "poll"
    BY <1>2 DEF WriteStart, Write
  <2>6. QED
    BY <2>1, <2>3, <2>4, <2>5 DEF Abstract!Begin
<1>3. CASE EndRead /\ reading = 5 /\ sReadData = 1
  <2>1. pc = "poll" /\ start = 0 /\ state = "IDLE"
    BY <1>3 DEF IInv, AnswerIsCurrent
  <2>2. start' = 0 /\ pc' = "ready"
    BY <1>3 DEF EndRead, Edge, SlaveWriteProcess, Writes, ReadFrom
  <2>3. mem' = mem
    BY <1>1, <2>1, MemoryStep DEF IInv, TypeOK
  <2>4. state' = "IDLE" /\ UNCHANGED counters
    BY <1>1, <2>1 DEF TransitionMasterFSM, Idle, LoadParameters, RdAcc, WaitRd, Calculate,
                     SendWriteRequest, WaitForWrite
  <2>5. leftBar = 0 /\ UNCHANGED <<srcBar, dstBar, leftBar>>
    BY <2>1, <2>2, <2>4 DEF srcBar, dstBar, leftBar, Pending, Running, counters
  <2>6. QED
    BY <2>1, <2>2, <2>3, <2>5 DEF Abstract!Return
<1>4. CASE /\ pc = "poll" <=> pc' = "poll"
           /\ start' = 0
           /\ UNCHANGED parameters \/ pc # "poll"
  <2>1. UNCHANGED parameters \/ ~(Pending \/ Running)
    BY <1>4 DEF IInv, OneRunAtATime, Pending, Running
  <2>2. CASE UNCHANGED <<srcBar, dstBar, leftBar, mem>>
    BY <1>4, <2>2 DEF Abstract!vars
  <2>3. CASE /\ leftBar > 0
             /\ mem' = [mem EXCEPT ![WordOf(dstBar)] = Transform[mem[WordOf(srcBar)]]]
             /\ srcBar' = Advance(srcBar) /\ dstBar' = Advance(dstBar)
             /\ leftBar' = leftBar - 1
    BY <1>4, <2>3 DEF Abstract!CopyWord, Abstract!Advance, Abstract!WordOf, Advance, WordOf
  <2>4. QED
    BY <1>1, <1>4, <2>1, <2>2, <2>3, FsmCopies
<1>5. QED
  BY <1>2, <1>3, <1>4, DriverSide

(* The clocked system implements BitReshuffle: the write of start begins   *)
(* the abstract run, the memory's acceptance of a write is the abstract    *)
(* copy, the read of a set finish is the return, all else stutters.        *)
THEOREM Refinement == Spec => ImplementsBitReshuffle
<1>1. Init => Abstract!Init
  BY InitType, MemAssumption, AdvanceType
  DEF Init, HwInit, HwTypeOK, Abstract!Init, srcBar, dstBar, leftBar, Pending, Running,
      Abstract!Addr, Addr
<1>2. IInv /\ [Next]_vars => [Abstract!Next]_(Abstract!vars)
  <2> SUFFICES ASSUME IInv, [Next]_vars PROVE [Abstract!Next]_(Abstract!vars)
    OBVIOUS
  <2>1. CASE Next
    BY <2>1, StepIsAbstract DEF Abstract!Next
  <2>2. CASE UNCHANGED vars
    BY <2>2 DEF vars, hwVars, driverVars, parameters, counters, Abstract!vars,
                srcBar, dstBar, leftBar, Pending, Running
  <2>3. QED
    BY <2>1, <2>2
<1>3. QED
  BY <1>1, <1>2, InductiveInvariant, PTL DEF Spec, ImplementsBitReshuffle, Abstract!Spec

-----------------------------------------------------------------------------
(* While words are owed a driver waits for them, and the destination       *)
(* counter is as many strides on as words are done.                        *)
OnTrack ==
  leftBar > 0 =>
    /\ pc = "poll"
    /\ leftBar <= job.lgt + 1
    /\ dstBar = NthAddress(job.dst, (job.lgt + 1) - leftBar)

(* The words owed are a number, and none are when no driver waits.         *)
LEMMA LeftType ==
  ASSUME IInv
  PROVE  /\ leftBar \in Nat
         /\ leftBar > 0 => Pending \/ Running
         /\ Pending \/ Running => pc = "poll"
<1>1. RegLgt \in Nat /\ CntLgt \in Nat /\ start \in Bit
  BY LgtAssumption DEF IInv, TypeOK, HwTypeOK, Lgt
<1>2. leftBar \in Nat /\ (leftBar > 0 => Pending \/ Running)
  BY <1>1 DEF leftBar
<1>3. Pending \/ Running => pc = "poll"
  BY <1>1 DEF IInv, OneRunAtATime, Pending, Running, Bit
<1>4. QED
  BY <1>2, <1>3

(* The arguments of a call stay as they are until it returns.              *)
LEMMA JobIsKept ==
  ASSUME Next, pc \in {"go", "poll"}
  PROVE  job' = job
BY DEF Next, Compute, Call, CallAgain, WriteSource, WriteLength, WriteResult, WriteStart,
       WriteOperation, Write, BeginPoll, PrintRegister, BeginRead, EndRead

(* A step keeps the destination on track and changes at most the word it   *)
(* is at.                                                                  *)
LEMMA OnTrackStep ==
  ASSUME IInv, IInv', OnTrack, Next
  PROVE  /\ OnTrack'
         /\ \/ mem' = mem
            \/ leftBar > 0 /\ \E v : mem' = [mem EXCEPT ![WordOf(dstBar)] = v]
<1>1. TransitionMasterFSM /\ Memory
  BY NextIsAnEdge DEF IInv, Edge
<1>2. job.dst \in Int /\ job.lgt \in Int
  BY AddrSpaceAssumption, LgtAssumption DEF IInv, TypeOK, Addr, Lgt
<1>3. CASE WriteStart
  <2>1. state = "IDLE" /\ job' = job /\ pc' = "poll"
    BY <1>3, JobIsKept DEF IInv, OneRunAtATime, WriteStart, Write
  <2>2. mem' = mem
    BY <1>1, <2>1, MemoryStep DEF IInv, TypeOK
  <2>3. dstBar' = job.dst /\ leftBar' = job.lgt + 1
    BY <1>3 DEF IInv, Programmed, WriteStart, Write, Edge, SlaveWriteProcess, Writes, WriteTo,
                dstBar, leftBar, Pending
  <2>4. dstBar' = NthAddress(job.dst, 0)
    BY <2>3, FirstAddress DEF IInv, TypeOK
  <2>5. (job.lgt + 1) - leftBar' = 0 /\ leftBar' <= job.lgt + 1
    BY <1>2, <2>3
  <2>6. dstBar' = NthAddress(job.dst, (job.lgt + 1) - leftBar')
    BY <2>4, <2>5
  <2>7. QED
    BY <2>1, <2>2, <2>5, <2>6 DEF OnTrack, NthAddress
<1>4. CASE EndRead /\ reading = 5 /\ sReadData = 1
  <2>1. pc = "poll" /\ start = 0 /\ state = "IDLE"
    BY <1>4 DEF IInv, AnswerIsCurrent
  <2>2. mem' = mem
    BY <1>1, <2>1, MemoryStep DEF IInv, TypeOK
  <2>3. state' = "IDLE" /\ start' = 0
    BY <1>1, <1>4, <2>1
    DEF TransitionMasterFSM, Idle, LoadParameters, RdAcc, WaitRd, Calculate, SendWriteRequest,
        WaitForWrite, EndRead, Edge, SlaveWriteProcess, Writes, ReadFrom
  <2>4. leftBar' = 0
    BY <2>3 DEF leftBar, Pending, Running
  <2>5. QED
    BY <2>2, <2>4 DEF OnTrack
<1>5. CASE /\ pc = "poll" <=> pc' = "poll"
           /\ start' = 0
           /\ UNCHANGED parameters \/ pc # "poll"
  <2>1. UNCHANGED parameters \/ ~(Pending \/ Running)
    BY <1>5, LeftType
  <2>2. leftBar > 0 => pc = "poll" /\ pc' = "poll" /\ job' = job
    BY <1>5, JobIsKept, LeftType
  <2>3. CASE UNCHANGED <<srcBar, dstBar, leftBar, mem>>
    BY <2>2, <2>3 DEF OnTrack, NthAddress
  <2>4. CASE /\ leftBar > 0
             /\ mem' = [mem EXCEPT ![WordOf(dstBar)] = Transform[mem[WordOf(srcBar)]]]
             /\ srcBar' = Advance(srcBar) /\ dstBar' = Advance(dstBar)
             /\ leftBar' = leftBar - 1
    <3>1. leftBar \in Int
      BY LeftType
    <3>2. (job.lgt + 1) - leftBar \in Int /\ (job.lgt + 1) - leftBar' = ((job.lgt + 1) - leftBar) + 1
      BY <1>2, <2>4, <3>1
    <3>3. dstBar' = NthAddress(job.dst, (job.lgt + 1) - leftBar')
      BY <1>2, <2>4, <3>2, NextAddress DEF OnTrack
    <3>4. leftBar' <= job.lgt + 1
      BY <1>2, <2>4, <3>1 DEF OnTrack
    <3>5. OnTrack'
      BY <2>2, <2>4, <3>3, <3>4 DEF OnTrack, NthAddress
    <3>6. QED
      BY <2>4, <3>5
  <2>5. QED
    BY <1>1, <1>5, <2>1, <2>3, <2>4, FsmCopies
<1>6. QED
  BY <1>3, <1>4, <1>5, DriverSide

(* The accelerator writes lgt + 1 words from the caller's destination on,  *)
(* one stride apart, and changes no other word of the memory.              *)
THEOREM OnlyTheWindow == Spec => WritesOnlyTheWindow
<1>1. Init => OnTrack
  BY DEF Init, HwInit, OnTrack, leftBar, Pending, Running
<1>2. IInv /\ IInv' /\ OnTrack /\ [Next]_vars =>
        /\ OnTrack'
        /\ [\A w \in WordIndex : mem'[w] # mem[w] =>
             pc = "poll" /\ w \in Window(job.dst, job.lgt + 1)]_vars
  <2> SUFFICES ASSUME IInv, IInv', OnTrack, [Next]_vars
               PROVE  /\ OnTrack'
                      /\ [\A w \in WordIndex : mem'[w] # mem[w] =>
                           pc = "poll" /\ w \in Window(job.dst, job.lgt + 1)]_vars
    OBVIOUS
  <2>1. CASE Next
    <3>1. CASE mem' = mem
      BY <2>1, <3>1, OnTrackStep
    <3>2. ASSUME leftBar > 0, NEW v, mem' = [mem EXCEPT ![WordOf(dstBar)] = v],
                 NEW w \in WordIndex, mem'[w] # mem[w]
          PROVE  pc = "poll" /\ w \in Window(job.dst, job.lgt + 1)
      <4>1. w = WordOf(dstBar)
        BY <3>2 DEF IInv, TypeOK, HwTypeOK
      <4>2. (job.lgt + 1) - leftBar \in 0 .. (job.lgt + 1) - 1
        BY <3>2, LeftType, LgtAssumption DEF OnTrack, IInv, TypeOK, Lgt
      <4>3. QED
        BY <3>2, <4>1, <4>2 DEF OnTrack, Window
    <3>3. QED
      BY <2>1, <3>1, <3>2, OnTrackStep
  <2>2. CASE UNCHANGED vars
    BY <2>2 DEF vars, hwVars, driverVars, parameters, counters, request, OnTrack,
                dstBar, leftBar, Pending, Running, NthAddress
  <2>3. QED
    BY <2>1, <2>2
<1>3. QED
  BY <1>1, <1>2, InductiveInvariant, PTL DEF Spec, WritesOnlyTheWindow

-----------------------------------------------------------------------------
(* What a call leaves in memory, said with CallRecord: the clocked system  *)
(* records a call at the write of start, and a word when one less is owed. *)
Remember ==
  IF pc = "go" /\ pc' = "poll" THEN RecordCall(job)
  ELSE IF leftBar' < leftBar THEN RecordWord
  ELSE UNCHANGED record

HistorySpec == Init /\ RecordInit /\ [][Next /\ Remember]_<<vars, record>>

(* The inductive invariant: words handled and words owed add up, the       *)
(* address counters are as many strides from the arguments as words are    *)
(* handled, the words handled hold what they should, and the others what   *)
(* they held.                                                              *)
CallType ==
  /\ args \in [src : Addr, dst : Addr, lgt : Lgt]
  /\ handled \in Nat /\ handled <= args.lgt + 1
  /\ leftBar \in Nat
  /\ mem \in [WordIndex -> Word] /\ before \in [WordIndex -> Word]

InStep ==
  leftBar > 0 => /\ handled + leftBar = args.lgt + 1
                 /\ srcBar = NthAddress(args.src, handled)
                 /\ dstBar = NthAddress(args.dst, handled)

CallInv == CallType /\ InStep /\ ResultIsTheTransform /\ RestIsUntouched

(* The arguments and the count are numbers, and the counters strides of    *)
(* the arguments select words.                                             *)
LEMMA CallNumbers ==
  ASSUME CallType
  PROVE  /\ args.src \in Int /\ args.dst \in Int /\ args.lgt \in Int /\ handled \in Nat
         /\ \A k \in Int : SourceWord(k) \in WordIndex /\ ResultWord(k) \in WordIndex
<1>1. args.src \in Int /\ args.dst \in Int /\ args.lgt \in Int /\ handled \in Nat
  BY AddrSpaceAssumption, LgtAssumption DEF CallType, Addr, Lgt
<1>2. ASSUME NEW k \in Int, NEW a \in Int PROVE WordOf(NthAddress(a, k)) \in WordIndex
  <2>1. NthAddress(a, k) \in Addr
    BY AddrSpaceAssumption, StrideAssumption DEF NthAddress, Addr
  <2>2. QED
    BY <2>1, WordOfType
<1>3. QED
  BY <1>1, <1>2 DEF SourceWord, ResultWord

(* The beginning of a call: nothing is handled, nothing has changed.       *)
LEMMA CallBegins ==
  ASSUME IInv, CallInv, job \in Jobs, pc = "go", pc' = "poll", Abstract!Begin(job), Remember
  PROVE  CallInv'
<1>1. /\ args' = job /\ handled' = 0 /\ before' = mem /\ mem' = mem
      /\ srcBar' = job.src /\ dstBar' = job.dst /\ leftBar' = job.lgt + 1
  BY DEF Remember, RecordCall, Abstract!Begin
<1>2. job \in [src : Addr, dst : Addr, lgt : Lgt] /\ job.lgt \in Nat
  BY JobsAssumption, LgtAssumption DEF Lgt
<1>3. CallType'
  BY <1>1, <1>2 DEF CallInv, CallType
<1>4. NthAddress(job.src, 0) = job.src /\ NthAddress(job.dst, 0) = job.dst
  BY <1>2, FirstAddress
<1>5. InStep'
  BY <1>1, <1>2, <1>4 DEF InStep, NthAddress
<1>6. ResultIsTheTransform' /\ RestIsUntouched'
  BY <1>1 DEF ResultIsTheTransform, RestIsUntouched, Done
<1>7. QED
  BY <1>3, <1>5, <1>6 DEF CallInv

(* A copy: the word at hand was still what the call found, if no result    *)
(* before it went there; and it destroys no result that is undisturbed.    *)
LEMMA CallCopies ==
  ASSUME IInv, IInv', CallInv, Abstract!CopyWord, RecordWord
  PROVE  CallInv'
<1> DEFINE m == handled
<1>1. /\ leftBar > 0 /\ leftBar' = leftBar - 1
      /\ mem' = [mem EXCEPT ![WordOf(dstBar)] = Transform[mem[WordOf(srcBar)]]]
      /\ srcBar' = Advance(srcBar) /\ dstBar' = Advance(dstBar)
  BY DEF Abstract!CopyWord, Abstract!Advance, Abstract!WordOf, Advance, WordOf
<1>2. args' = args /\ before' = before /\ handled' = m + 1
  BY DEF RecordWord
<1>3. CallType /\ InStep
  BY DEF CallInv
<1>4. args.src \in Int /\ args.dst \in Int /\ args.lgt \in Int /\ m \in Nat
  BY <1>3, CallNumbers
<1>5. m + leftBar = args.lgt + 1 /\ leftBar \in Nat /\ m <= args.lgt
  BY <1>1, <1>3, <1>4 DEF CallType, InStep
<1>6. /\ \A k : /\ SourceWord(k)' = SourceWord(k) /\ ResultWord(k)' = ResultWord(k)
                /\ Undisturbed(k)' = Undisturbed(k)
      /\ Done = 0 .. m - 1 /\ Done' = 0 .. m
  BY <1>2, <1>4 DEF SourceWord, ResultWord, Undisturbed, NthAddress, Done
<1>7. WordOf(srcBar) = SourceWord(m) /\ WordOf(dstBar) = ResultWord(m)
  BY <1>1, <1>3 DEF InStep, SourceWord, ResultWord
<1>8. \A k \in Int : SourceWord(k) \in WordIndex /\ ResultWord(k) \in WordIndex
  BY <1>3, CallNumbers
<1>9. mem' = [mem EXCEPT ![ResultWord(m)] = Transform[mem[SourceWord(m)]]]
  BY <1>1, <1>7
<1>10. CallType'
  BY <1>1, <1>2, <1>3, <1>4, <1>5 DEF CallType, IInv, TypeOK, HwTypeOK
<1>11. InStep'
  <2>1. /\ srcBar' = NthAddress(args.src, m + 1) /\ dstBar' = NthAddress(args.dst, m + 1)
    BY <1>1, <1>3, <1>4, NextAddress DEF InStep
  <2>2. (m + 1) + leftBar' = args.lgt + 1
    BY <1>1, <1>4, <1>5
  <2>3. QED
    BY <1>2, <2>1, <2>2 DEF InStep, NthAddress
<1>12. ResultIsTheTransform'
  <2> SUFFICES ASSUME NEW k \in 0 .. m, Undisturbed(k)
               PROVE  mem'[ResultWord(k)] = Transform[before[SourceWord(k)]]
    BY <1>2, <1>6 DEF ResultIsTheTransform
  <2>1. CASE k = m
    <3>1. \A i \in 0 .. m - 1 : SourceWord(m) # ResultWord(i)
      BY <2>1 DEF Undisturbed
    <3>2. mem[SourceWord(m)] = before[SourceWord(m)]
      BY <1>4, <1>6, <1>8, <3>1 DEF CallInv, RestIsUntouched
    <3>3. QED
      BY <1>3, <1>4, <1>8, <1>9, <2>1, <3>2 DEF CallType
  <2>2. CASE k # m
    <3>1. m \in k + 1 .. args.lgt /\ k \in 0 .. m - 1
      BY <1>4, <1>5, <2>2
    <3>2. ResultWord(k) # ResultWord(m)
      BY <3>1 DEF Undisturbed
    <3>3. mem'[ResultWord(k)] = mem[ResultWord(k)]
      BY <1>3, <1>8, <1>9, <3>1, <3>2 DEF CallType
    <3>4. QED
      BY <1>6, <3>1, <3>3 DEF CallInv, ResultIsTheTransform
  <2>3. QED
    BY <2>1, <2>2
<1>13. RestIsUntouched'
  <2> SUFFICES ASSUME NEW w \in WordIndex, \A k \in 0 .. m : w # ResultWord(k)
               PROVE  mem'[w] = before[w]
    BY <1>2, <1>6 DEF RestIsUntouched
  <2>1. w # ResultWord(m) /\ \A k \in 0 .. m - 1 : w # ResultWord(k)
    BY <1>4
  <2>2. mem'[w] = mem[w]
    BY <1>3, <1>9, <2>1 DEF CallType
  <2>3. QED
    BY <1>6, <2>1, <2>2 DEF CallInv, RestIsUntouched
<1>14. QED
  BY <1>10, <1>11, <1>12, <1>13 DEF CallInv

(* The return, and the cycles in which nothing is copied.                  *)
LEMMA CallRests ==
  ASSUME CallInv, Abstract!Return \/ UNCHANGED Abstract!vars, UNCHANGED record
  PROVE  CallInv'
<1>1. UNCHANGED <<srcBar, dstBar, leftBar, mem>>
  BY DEF Abstract!Return, Abstract!vars
<1>2. args' = args /\ before' = before /\ handled' = handled
  BY DEF record
<1>3. /\ \A k : /\ SourceWord(k)' = SourceWord(k) /\ ResultWord(k)' = ResultWord(k)
                /\ Undisturbed(k)' = Undisturbed(k)
      /\ Done' = Done
  BY <1>2 DEF SourceWord, ResultWord, Undisturbed, NthAddress, Done
<1>4. CallType' /\ InStep'
  BY <1>1, <1>2 DEF CallInv, CallType, InStep, NthAddress
<1>5. ResultIsTheTransform' /\ RestIsUntouched'
  BY <1>1, <1>2, <1>3 DEF CallInv, ResultIsTheTransform, RestIsUntouched
<1>6. QED
  BY <1>4, <1>5 DEF CallInv

(* It is an invariant of the clocked system with its record of the calls.  *)
LEMMA CallInvariant == HistorySpec => [](IInv /\ CallInv)
<1>1. HistorySpec => Spec
  <2>1. [Next /\ Remember]_<<vars, record>> => [Next]_vars
    OBVIOUS
  <2>2. QED
    BY <2>1, PTL DEF HistorySpec, Spec
<1>2. Init /\ RecordInit => CallInv
  <2> SUFFICES ASSUME Init, RecordInit PROVE CallInv
    OBVIOUS
  <2>1. leftBar = 0
    BY DEF Init, HwInit, leftBar, Pending, Running
  <2>2. args \in [src : Addr, dst : Addr, lgt : Lgt] /\ args.lgt = 0
    BY AddrSpaceAssumption, LgtAssumption DEF RecordInit, noArgs, Addr, Lgt
  <2>3. CallType /\ InStep
    BY <2>1, <2>2, MemAssumption DEF CallType, InStep, Init, RecordInit
  <2>4. ResultIsTheTransform /\ RestIsUntouched
    BY DEF RecordInit, ResultIsTheTransform, RestIsUntouched, Done
  <2>5. QED
    BY <2>3, <2>4 DEF CallInv
<1>3. IInv /\ IInv' /\ CallInv /\ [Next /\ Remember]_<<vars, record>> => CallInv'
  <2> SUFFICES ASSUME IInv, IInv', CallInv, [Next /\ Remember]_<<vars, record>>
               PROVE  CallInv'
    OBVIOUS
  <2>0. leftBar \in Nat
    BY DEF CallInv, CallType
  <2>1. CASE Next /\ Remember
    <3>1. CASE pc = "go" /\ pc' = "poll" /\ job \in Jobs /\ Abstract!Begin(job)
      BY <2>1, <3>1, CallBegins
    <3>2. CASE ~(pc = "go" /\ pc' = "poll") /\ Abstract!CopyWord
      <4>1. leftBar' < leftBar
        BY <2>0, <3>2 DEF Abstract!CopyWord
      <4>2. RecordWord
        BY <2>1, <3>2, <4>1 DEF Remember
      <4>3. QED
        BY <3>2, <4>2, CallCopies
    <3>3. CASE /\ ~(pc = "go" /\ pc' = "poll")
               /\ Abstract!Return \/ UNCHANGED Abstract!vars
      <4>1. ~(leftBar' < leftBar)
        BY <2>0, <3>3 DEF Abstract!Return, Abstract!vars
      <4>2. UNCHANGED record
        BY <2>1, <3>3, <4>1 DEF Remember
      <4>3. QED
        BY <3>3, <4>2, CallRests
    <3>4. QED
      BY <2>1, <3>1, <3>2, <3>3, StepIsAbstract
  <2>2. CASE UNCHANGED <<vars, record>>
    <3>1. UNCHANGED Abstract!vars /\ UNCHANGED record
      BY <2>2 DEF vars, hwVars, driverVars, parameters, counters, Abstract!vars,
                  srcBar, dstBar, leftBar, Pending, Running
    <3>2. QED
      BY <3>1, CallRests
  <2>3. QED
    BY <2>1, <2>2
<1>4. QED
  BY <1>1, <1>2, <1>3, InductiveInvariant, PTL DEF HistorySpec

(* What bit_reshuffle_hardware_accelerator leaves in the result array is   *)
(* the transform of what it found in the data array, word for word, for    *)
(* every placement of the two arrays that spares the word, at every moment *)
(* of the run.                                                             *)
THEOREM ResultsAreTransforms == HistorySpec => []ResultIsTheTransform
<1>1. CallInv => ResultIsTheTransform
  BY DEF CallInv
<1>2. QED
  BY <1>1, CallInvariant, PTL

(* And every other word of the memory still holds what the call found.     *)
THEOREM OthersAreKept == HistorySpec => []RestIsUntouched
<1>1. CallInv => RestIsUntouched
  BY DEF CallInv
<1>2. QED
  BY <1>1, CallInvariant, PTL
=============================================================================
