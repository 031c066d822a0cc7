-------------------------- MODULE SwapBench_proofs --------------------------
(***************************************************************************)
(* The accelerator under any bus master and any reset, for every memory,   *)
(* stride, length, transform and set of parameters: the inductive          *)
(* invariant and what follows from it.                                     *)
(***************************************************************************)
EXTENDS SwapBench, SwapAccelerator_proofs

(* Everything the bench drives is something a bus master may drive.        *)
LEMMA AccessesAreValid == \A acc \in Accesses : ValidAccess(acc)
<1>1. Source \subseteq Nat /\ Destination \subseteq Nat /\ Length \subseteq Nat
  BY BenchAssumption, AddrSpaceAssumption, LgtAssumption DEF Addr, Lgt
<1>2. QED
  BY <1>1, BenchAssumption DEF Accesses, ValidAccess, NoAccess, WriteTo, ReadFrom, Bit

(* The initial values are in range.                                        *)
LEMMA BenchInitType == Init => TypeOK
BY InitType, BenchAssumption, AddrSpaceAssumption, LgtAssumption
DEF Init, TypeOK, noParameters, Addr, Lgt, Bit

(* Neither a clock edge nor a reset takes a signal out of its range.       *)
LEMMA BenchStepType ==
  ASSUME TypeOK, [Next]_vars
  PROVE  TypeOK'
<1>1. CASE \E acc \in Accesses : Clock(acc)
  <2>1. PICK acc \in Accesses : Clock(acc)
    BY <1>1
  <2>2. HwTypeOK'
    BY <2>1, AccessesAreValid, EdgeType DEF Clock, TypeOK
  <2>3. /\ loaded' \in [src : Addr, dst : Addr, lgt : Lgt]
        /\ cut' \in Bit /\ sent' \in 0 .. 2
    BY <2>1 DEF Clock, TypeOK, HwTypeOK, Bit
  <2>4. QED
    BY <2>2, <2>3 DEF TypeOK
<1>2. CASE Reset
  <2>1. mem' \in [WordIndex -> Word] /\ mWaitRequest' \in Bit
    BY <1>2, MemoryType DEF Reset, ResetEdge, TypeOK
  <2>2. QED
    BY <1>2, <2>1, AddrSpaceAssumption, LgtAssumption, WordAssumption
    DEF Reset, ResetEdge, TypeOK, HwTypeOK, request, noParameters, Addr, Lgt, Bit
<1>3. CASE UNCHANGED vars
  BY <1>3 DEF vars, hwVars, parameters, counters, request, TypeOK, HwTypeOK
<1>4. QED
  BY <1>1, <1>2, <1>3 DEF Next

-----------------------------------------------------------------------------
(* A load puts the counters at the parameters; a word handled moves both   *)
(* one stride on; nothing else moves them.                                 *)
LEMMA LoadIsAtHand ==
  ASSUME TypeOK, LoadParameters,
         loaded' = [src |-> RegAddStart, dst |-> ResultRegAddStart, lgt |-> RegLgt]
  PROVE  CntAdd' = AtHand(loaded.src)' /\ CntResultAdd' = AtHand(loaded.dst)'
<1>1. RegLgt \in Int /\ RegLgt - RegLgt = 0
  BY LgtAssumption DEF TypeOK, HwTypeOK, Lgt
<1>2. /\ NthAddress(RegAddStart, 0) = RegAddStart
      /\ NthAddress(ResultRegAddStart, 0) = ResultRegAddStart
  BY FirstAddress DEF TypeOK, HwTypeOK
<1>3. /\ AtHand(loaded.src)' = NthAddress(RegAddStart, RegLgt - RegLgt)
      /\ AtHand(loaded.dst)' = NthAddress(ResultRegAddStart, RegLgt - RegLgt)
  BY DEF AtHand, LoadParameters, NthAddress
<1>4. QED
  BY <1>1, <1>2, <1>3 DEF LoadParameters

(* A word handled moves the address one stride on.                         *)
LEMMA NextIsAtHand ==
  ASSUME TypeOK, CntLgt' = CntLgt - 1, loaded' = loaded, NEW a \in Addr
  PROVE  NthAddress(a, loaded'.lgt - CntLgt') = Advance(AtHand(a))
<1>1. CntLgt \in Int /\ loaded.lgt \in Int /\ a \in Int
  BY LgtAssumption, AddrSpaceAssumption DEF TypeOK, HwTypeOK, Lgt, Addr
<1>2. loaded.lgt - CntLgt \in Int /\ loaded'.lgt - CntLgt' = (loaded.lgt - CntLgt) + 1
  BY <1>1
<1>3. Advance(NthAddress(a, loaded.lgt - CntLgt)) = NthAddress(a, (loaded.lgt - CntLgt) + 1)
  BY <1>1, <1>2, NextAddress
<1>4. QED
  BY <1>2, <1>3 DEF AtHand

(* Without a load or a word handled they stay.                             *)
LEMMA SameIsAtHand ==
  ASSUME loaded' = loaded, CntLgt' = CntLgt
  PROVE  AtHand(loaded.src)' = AtHand(loaded.src) /\ AtHand(loaded.dst)' = AtHand(loaded.dst)
BY DEF AtHand, NthAddress

-----------------------------------------------------------------------------
(* One clock edge, state by state of the FSM.                              *)
ClockHistory ==
  /\ loaded' = IF state = "LOAD_PARAMETERS"
               THEN [src |-> RegAddStart, dst |-> ResultRegAddStart, lgt |-> RegLgt]
               ELSE loaded
  /\ cut' = IF state = "IDLE" /\ start = 1 THEN 0 ELSE cut
  /\ sent' = IF cut = 1 /\ state = "SEND_WRITE_REQUEST" /\ sent < 2 THEN sent + 1 ELSE sent

(* Counters and requests stay in step with the load.                       *)
LEMMA EdgeInStep ==
  ASSUME TypeOK, RequestMatchesState, InStep, TransitionMasterFSM, ClockHistory
  PROVE  InStep'
<1> USE DEF ClockHistory, Working
<1>1. CASE Idle
  BY <1>1 DEF Idle, InStep, counters
<1>2. CASE LoadParameters
  BY <1>2, LoadIsAtHand DEF LoadParameters, InStep
<1>3. CASE RdAcc \/ WaitRd \/ Calculate \/ SendWriteRequest
  <2>1. /\ loaded' = loaded /\ UNCHANGED counters /\ state # "IDLE" /\ cut' = cut
    BY <1>3 DEF RdAcc, WaitRd, Calculate, SendWriteRequest
  <2>2. /\ AtHand(loaded.src)' = AtHand(loaded.src) /\ AtHand(loaded.dst)' = AtHand(loaded.dst)
        /\ CntAdd' = CntAdd /\ CntResultAdd' = CntResultAdd
    BY <2>1, SameIsAtHand DEF counters
  <2>3. Working
    BY <1>3 DEF RdAcc, WaitRd, Calculate, SendWriteRequest
  <2>4. /\ cut = 0 /\ state' = "WAIT_RD" => mAddress' = CntAdd
        /\ cut = 0 /\ state' = "WAIT_FOR_WRITE" => mAddress' = CntResultAdd
    BY <1>3 DEF RdAcc, WaitRd, Calculate, SendWriteRequest, InStep, request
  <2>5. QED
    BY <2>1, <2>2, <2>3, <2>4 DEF InStep
<1>4. CASE WaitForWrite
  <2>1. loaded' = loaded /\ cut' = cut /\ mAddress' = mAddress /\ Working
    BY <1>4 DEF WaitForWrite
  <2>2. CASE mWaitRequest = 0 /\ NextWord
    <3>1. loaded.src \in Addr /\ loaded.dst \in Addr
      BY DEF TypeOK
    <3>2. /\ NthAddress(loaded.src, loaded'.lgt - CntLgt') = Advance(AtHand(loaded.src))
          /\ NthAddress(loaded.dst, loaded'.lgt - CntLgt') = Advance(AtHand(loaded.dst))
      BY <2>1, <2>2, <3>1, NextIsAtHand DEF NextWord
    <3>3. /\ AtHand(loaded.src)' = NthAddress(loaded.src, loaded'.lgt - CntLgt')
          /\ AtHand(loaded.dst)' = NthAddress(loaded.dst, loaded'.lgt - CntLgt')
      BY <2>1 DEF AtHand, NthAddress
    <3>4. QED
      BY <2>1, <2>2, <3>2, <3>3 DEF NextWord, InStep
  <2>3. CASE mWaitRequest = 0 /\ LastWord
    BY <2>1, <2>3 DEF LastWord, InStep
  <2>4. CASE UNCHANGED <<state, counters>>
    <3>1. CntLgt' = CntLgt /\ CntAdd' = CntAdd /\ CntResultAdd' = CntResultAdd /\ state' = state
      BY <2>4 DEF counters
    <3>2. QED
      BY <2>1, <3>1, SameIsAtHand DEF InStep
  <2>5. QED
    BY <1>4, <2>2, <2>3, <2>4 DEF WaitForWrite
<1>5. QED
  BY <1>1, <1>2, <1>3, <1>4 DEF TransitionMasterFSM

(* After a reset: the FSM goes on with counters at 0 and sends one word.   *)
LEMMA EdgeAfterReset ==
  ASSUME TypeOK, RequestMatchesState, AfterReset, TransitionMasterFSM, ClockHistory
  PROVE  AfterReset'
<1> USE DEF ClockHistory, AfterReset, Working, Loading, TypeOK, HwTypeOK, Bit,
            RequestMatchesState, counters, request
<1>1. CASE Idle
  BY <1>1 DEF Idle
<1>2. CASE LoadParameters
  BY <1>2 DEF LoadParameters
<1>3. CASE RdAcc
  BY <1>3 DEF RdAcc
<1>4. CASE WaitRd
  BY <1>4 DEF WaitRd
<1>5. CASE Calculate
  BY <1>5 DEF Calculate
<1>6. CASE SendWriteRequest
  BY <1>6 DEF SendWriteRequest
<1>7. CASE WaitForWrite
  BY <1>7 DEF WaitForWrite, NextWord, LastWord
<1>8. QED
  BY <1>1, <1>2, <1>3, <1>4, <1>5, <1>6, <1>7 DEF TransitionMasterFSM

(* The master port asks in two states, and finish is set on the way out.   *)
LEMMA EdgeFlags ==
  ASSUME TypeOK, RequestMatchesState, finish = 1 => state = "IDLE", TransitionMasterFSM
  PROVE  RequestMatchesState' /\ (finish' = 1 => state' = "IDLE")
BY DEF RequestMatchesState, TransitionMasterFSM, Idle, LoadParameters, RdAcc, WaitRd,
       Calculate, SendWriteRequest, WaitForWrite, NextWord, LastWord, request,
       TypeOK, HwTypeOK, Bit, States

-----------------------------------------------------------------------------
(* A cycle or a reset keeps the invariant.                                 *)
LEMMA BenchStepInv ==
  ASSUME IInv, [Next]_vars
  PROVE  IInv'
<1>1. TypeOK'
  BY BenchStepType DEF IInv
<1>2. CASE \E acc \in Accesses : Clock(acc)
  <2>1. TransitionMasterFSM /\ ClockHistory
    BY <1>2 DEF Clock, Edge, ClockHistory
  <2>2. QED
    BY <1>1, <2>1, EdgeInStep, EdgeAfterReset, EdgeFlags DEF IInv
<1>3. CASE Reset
  <2>1. AtHand(loaded.src)' = 0 /\ AtHand(loaded.dst)' = 0
    <3>1. 0 \in Addr
      BY AddrSpaceAssumption DEF Addr
    <3>2. NthAddress(0, 0) = 0
      BY <3>1, FirstAddress
    <3>3. loaded'.src = 0 /\ loaded'.dst = 0 /\ loaded'.lgt - CntLgt' = 0
      BY <1>3 DEF Reset, ResetEdge, noParameters
    <3>4. QED
      BY <3>2, <3>3 DEF AtHand, NthAddress
  <2>2. InStep'
    BY <1>3, <2>1 DEF Reset, ResetEdge, InStep
  <2>3. AfterReset'
    BY <1>3 DEF Reset, ResetEdge, AfterReset
  <2>4. RequestMatchesState' /\ (finish' = 1 => state' = "IDLE")
    BY <1>3 DEF IInv, Reset, ResetEdge, RequestMatchesState, request
  <2>5. QED
    BY <1>1, <2>2, <2>3, <2>4 DEF IInv
<1>4. CASE UNCHANGED vars
  BY <1>1, <1>4, SameIsAtHand
  DEF vars, hwVars, parameters, counters, request, IInv, InStep, AfterReset, Working, Loading,
      RequestMatchesState
<1>5. QED
  BY <1>2, <1>3, <1>4 DEF Next

(* Every bench keeps the invariant, whatever its master writes and when    *)
(* and however often it resets.                                            *)
THEOREM BenchInvariant == Spec => []IInv
<1>1. Init => IInv
  BY BenchInitType
  DEF Init, HwInit, IInv, InStep, AfterReset, Working, Loading, RequestMatchesState
<1>2. IInv /\ [Next]_vars => IInv'
  BY BenchStepInv
<1>3. QED
  BY <1>1, <1>2, PTL DEF Spec

(* What follows from it in one state.                                      *)
LEMMA BenchSafety ==
  ASSUME IInv
  PROVE  RetainsParameters /\ FinishMeansIdle /\ ResidueIsOneWord /\ RequestMatchesState
<1> USE DEF IInv, InStep, AfterReset, RequestMatchesState, Working, Loading
<1>1. mRead \in Bit /\ mWrite \in Bit /\ cut \in Bit
  BY DEF TypeOK, HwTypeOK
<1>2. RetainsParameters
  BY DEF RetainsParameters
<1>3. FinishMeansIdle
  BY <1>1 DEF FinishMeansIdle, Bit
<1>4. ResidueIsOneWord
  BY DEF ResidueIsOneWord
<1>5. QED
  BY <1>2, <1>3, <1>4

(* The working copies stay in step with the parameters they were loaded    *)
(* from, whatever is written to the registers meanwhile.                   *)
THEOREM CopiesAreRetained == Spec => []RetainsParameters
<1>1. IInv => RetainsParameters
  BY BenchSafety
<1>2. QED
  BY <1>1, BenchInvariant, PTL

(* finish is up only when nothing runs.                                    *)
THEOREM FinishIsTrue == Spec => []FinishMeansIdle
<1>1. IInv => FinishMeansIdle
  BY BenchSafety
<1>2. QED
  BY <1>1, BenchInvariant, PTL

(* A reset leaves at most one stray word.                                  *)
THEOREM OneWordIsLeft == Spec => []ResidueIsOneWord
<1>1. IInv => ResidueIsOneWord
  BY BenchSafety
<1>2. QED
  BY <1>1, BenchInvariant, PTL

(* The master port reads and writes in the two waiting states only.        *)
THEOREM RequestsAreLegal == Spec => []RequestMatchesState
<1>1. IInv => RequestMatchesState
  BY BenchSafety
<1>2. QED
  BY <1>1, BenchInvariant, PTL

(* A stalled request outlives everything, resets included.                 *)
THEOREM RequestsOutliveResets == Spec => HoldsRequests
<1>1. IInv /\ [Next]_vars => [HoldsRequest]_vars
  <2> SUFFICES ASSUME IInv, Next, mRead = 1 \/ mWrite = 1, mWaitRequest = 1
               PROVE  UNCHANGED request
    BY DEF HoldsRequest
  <2>1. state \in {"WAIT_RD", "WAIT_FOR_WRITE"}
    BY DEF IInv, RequestMatchesState
  <2>2. CASE \E acc \in Accesses : Clock(acc)
    <3>1. TransitionMasterFSM
      BY <2>2 DEF Clock, Edge
    <3>2. WaitRd \/ WaitForWrite
      BY <2>1, <3>1
      DEF TransitionMasterFSM, Idle, LoadParameters, RdAcc, Calculate, SendWriteRequest
    <3>3. QED
      BY <3>2 DEF WaitRd, WaitForWrite, request
  <2>3. CASE Reset
    BY <2>3 DEF Reset, ResetEdge
  <2>4. QED
    BY <2>2, <2>3 DEF Next
<1>2. QED
  BY <1>1, BenchInvariant, PTL DEF Spec, HoldsRequests
=============================================================================
