--------------------------- MODULE SwapAccelerator ---------------------------
(***************************************************************************)
(* The swap accelerator of hw/hdl/swap.vhd, one clock edge at a time: an   *)
(* Avalon slave with four parameter registers and a finish flag, and a     *)
(* master FSM that reads words from memory, permutes their bits and writes *)
(* them back without the processor's help.                                 *)
(*                                                                         *)
(* Edge(acc) is one rising edge of Clk: the three clocked processes of the *)
(* entity and the memory behind the master port step together, every one   *)
(* from the values the signals had before the edge.  acc is what the bus   *)
(* master drives on the slave port in that cycle; the modules that compose *)
(* this one (SwapSystem, SwapBench) decide which accesses happen.          *)
(***************************************************************************)
EXTENDS WordMemory, AvalonSlave

States == {"IDLE", "LOAD_PARAMETERS", "RD_ACC", "WAIT_RD", "CALCULATE",
           "SEND_WRITE_REQUEST", "WAIT_FOR_WRITE"}

VARIABLES
  RegAddStart, RegLgt, ResultRegAddStart,   (* the slave's parameters      *)
  start,            (* one-cycle pulse made of a write to address 2        *)
  finish,           (* status flag read at address 5                       *)
  sReadData,        (* registered read data of the slave port              *)
  state,
  CntAdd, CntLgt, CntResultAdd,             (* the FSM's working copies    *)
  DataRd, Result,
  mAddress, mByteEnable, mRead, mWrite, mWriteData,   (* master port, out  *)
  mWaitRequest                                        (* master port, in   *)

parameters == <<RegAddStart, RegLgt, ResultRegAddStart>>
counters == <<CntAdd, CntLgt, CntResultAdd>>
request == <<mAddress, mByteEnable, mRead, mWrite, mWriteData>>
hwVars == <<parameters, start, finish, sReadData, state, counters, DataRd,
            Result, request, mWaitRequest, mem>>

-----------------------------------------------------------------------------
(* slaveWriteProcess.  start falls back to 0 on every edge that does not   *)
(* write it, so it is a pulse of one cycle.                                *)
SlaveWriteProcess(acc) ==
  /\ RegAddStart' = IF Writes(acc, 0) THEN acc.data ELSE RegAddStart
  /\ RegLgt' = IF Writes(acc, 1) THEN acc.data ELSE RegLgt
  /\ start' = IF Writes(acc, 2) THEN acc.data % 2 ELSE 0
  /\ ResultRegAddStart' = IF Writes(acc, 3) THEN acc.data ELSE ResultRegAddStart

(* A slip: two neighbouring addresses of the read map exchanged.           *)
Slip_Readable(a) == <<RegAddStart, RegLgt, start, 0, ResultRegAddStart, finish, 0, 0>>[a + 1]

(* The register map as it reads: address 4, 6 and 7 give 0.                *)
Readable(a) == <<RegAddStart, RegLgt, start, ResultRegAddStart, 0, finish, 0, 0>>[a + 1]

(* slaveReadProcess: the answer to a read is visible one cycle later.      *)
SlaveReadProcess(acc) ==
  sReadData' = IF Reads(acc) THEN Readable(acc.addr) ELSE sReadData

-----------------------------------------------------------------------------
(* transitionMasterFSM, one action per state.                              *)

(* A slip: finish is left set when the next run starts.                    *)
Slip_IdleKeepsFinish ==
  /\ state = "IDLE"
  /\ mAddress' = 0 /\ mByteEnable' = 0 /\ mWrite' = 0 /\ mRead' = 0
  /\ state' = IF start = 1 THEN "LOAD_PARAMETERS" ELSE "IDLE"
  /\ UNCHANGED <<finish, counters, DataRd, Result, mWriteData>>

Idle ==
  /\ state = "IDLE"
  /\ mAddress' = 0
  /\ mByteEnable' = 0
  /\ mWrite' = 0
  /\ mRead' = 0
  /\ state' = IF start = 1 THEN "LOAD_PARAMETERS" ELSE "IDLE"
  /\ finish' = IF start = 1 THEN 0 ELSE finish
  /\ UNCHANGED <<counters, DataRd, Result, mWriteData>>

LoadParameters ==
  /\ state = "LOAD_PARAMETERS"
  /\ CntAdd' = RegAddStart
  /\ CntLgt' = RegLgt
  /\ CntResultAdd' = ResultRegAddStart
  /\ Result' = 0
  /\ state' = "RD_ACC"
  /\ UNCHANGED <<finish, DataRd, request>>

(* A slip: the address comes from the register, not from its copy.         *)
Slip_RdAccFromRegister ==
  /\ state = "RD_ACC"
  /\ mAddress' = RegAddStart
  /\ mByteEnable' = 1 /\ mRead' = 1 /\ mWrite' = 0
  /\ state' = "WAIT_RD"
  /\ UNCHANGED <<finish, counters, DataRd, Result, mWriteData>>

RdAcc ==
  /\ state = "RD_ACC"
  /\ mAddress' = CntAdd
  /\ mByteEnable' = 1
  /\ mRead' = 1
  /\ mWrite' = 0
  /\ state' = "WAIT_RD"
  /\ UNCHANGED <<finish, counters, DataRd, Result, mWriteData>>

(* Two slips: the request is withdrawn after one cycle, stalled or not;    *)
(* and it is not withdrawn when the word has come.                         *)
Slip_WaitRdOneCycle ==
  /\ state = "WAIT_RD"
  /\ mRead' = 0
  /\ IF mWaitRequest = 0
     THEN DataRd' = mem[WordOf(mAddress)] /\ state' = "CALCULATE"
     ELSE UNCHANGED <<DataRd, state>>
  /\ UNCHANGED <<finish, counters, Result, mAddress, mByteEnable, mWrite, mWriteData>>

Slip_WaitRdKeepsRead ==
  /\ state = "WAIT_RD"
  /\ IF mWaitRequest = 0
     THEN DataRd' = mem[WordOf(mAddress)] /\ state' = "CALCULATE"
     ELSE UNCHANGED <<DataRd, state>>
  /\ UNCHANGED <<finish, counters, Result, request>>

WaitRd ==
  /\ state = "WAIT_RD"
  /\ IF mWaitRequest = 0
     THEN DataRd' = mem[WordOf(mAddress)] /\ mRead' = 0 /\ state' = "CALCULATE"
     ELSE UNCHANGED <<DataRd, mRead, state>>
  /\ UNCHANGED <<finish, counters, Result, mAddress, mByteEnable, mWrite, mWriteData>>

Calculate ==
  /\ state = "CALCULATE"
  /\ Result' = Transform[DataRd]
  /\ state' = "SEND_WRITE_REQUEST"
  /\ UNCHANGED <<finish, counters, DataRd, request>>

(* A slip: the word is written as it was read.                             *)
Slip_SendUntransformed ==
  /\ state = "SEND_WRITE_REQUEST"
  /\ mAddress' = CntResultAdd
  /\ mByteEnable' = 1 /\ mWrite' = 1
  /\ mWriteData' = DataRd
  /\ state' = "WAIT_FOR_WRITE"
  /\ UNCHANGED <<finish, counters, DataRd, Result, mRead>>

SendWriteRequest ==
  /\ state = "SEND_WRITE_REQUEST"
  /\ mAddress' = CntResultAdd
  /\ mByteEnable' = 1
  /\ mWrite' = 1
  /\ mWriteData' = Result
  /\ state' = "WAIT_FOR_WRITE"
  /\ UNCHANGED <<finish, counters, DataRd, Result, mRead>>

(* Three slips: one word too many; the source address advanced from the    *)
(* register; the words not counted.                                        *)
Slip_OneWordTooMany ==
  /\ CntLgt >= 0
  /\ CntAdd' = Advance(CntAdd) /\ CntResultAdd' = Advance(CntResultAdd)
  /\ CntLgt' = CntLgt - 1
  /\ state' = "RD_ACC"
  /\ UNCHANGED <<mByteEnable, finish>>

Slip_NextFromRegister ==
  /\ CntLgt > 0
  /\ CntAdd' = Advance(RegAddStart) /\ CntResultAdd' = Advance(CntResultAdd)
  /\ CntLgt' = CntLgt - 1
  /\ state' = "RD_ACC"
  /\ UNCHANGED <<mByteEnable, finish>>

Slip_NotCounted ==
  /\ CntLgt > 0
  /\ CntAdd' = Advance(CntAdd) /\ CntResultAdd' = Advance(CntResultAdd)
  /\ state' = "RD_ACC"
  /\ UNCHANGED <<CntLgt, mByteEnable, finish>>

(* The memory has taken the word and others remain.                        *)
NextWord ==
  /\ CntLgt > 0
  /\ CntAdd' = Advance(CntAdd)
  /\ CntResultAdd' = Advance(CntResultAdd)
  /\ CntLgt' = CntLgt - 1
  /\ state' = "RD_ACC"
  /\ UNCHANGED <<mByteEnable, finish>>

(* A slip: finish is never set.                                            *)
Slip_LastWordSilent ==
  /\ ~(CntLgt > 0)
  /\ mByteEnable' = 0
  /\ state' = "IDLE"
  /\ UNCHANGED <<finish, counters>>

(* The memory has taken the last word.                                     *)
LastWord ==
  /\ ~(CntLgt > 0)
  /\ mByteEnable' = 0
  /\ finish' = 1
  /\ state' = "IDLE"
  /\ UNCHANGED counters

WaitForWrite ==
  /\ state = "WAIT_FOR_WRITE"
  /\ \/ mWaitRequest = 0 /\ mWrite' = 0 /\ (NextWord \/ LastWord)
     \/ mWaitRequest = 1 /\ UNCHANGED <<mWrite, mByteEnable, state, finish, counters>>
  /\ UNCHANGED <<DataRd, Result, mAddress, mRead, mWriteData>>

TransitionMasterFSM ==
  \/ Idle \/ LoadParameters \/ RdAcc \/ WaitRd \/ Calculate
  \/ SendWriteRequest \/ WaitForWrite

-----------------------------------------------------------------------------
(* The memory slave behind the interconnect (generated SDRAM controller):  *)
(* it stalls a request for any number of cycles by holding mWaitRequest,   *)
(* and takes an enabled write in the cycle in which it does not.           *)
Memory ==
  /\ mem' = IF mWrite = 1 /\ mByteEnable = 1 /\ mWaitRequest = 0
            THEN [mem EXCEPT ![WordOf(mAddress)] = mWriteData] ELSE mem
  /\ mWaitRequest' \in Bit

Edge(acc) ==
  /\ SlaveWriteProcess(acc)
  /\ SlaveReadProcess(acc)
  /\ TransitionMasterFSM
  /\ Memory

(* A slip: the reset leaves the length of the cut run.                     *)
Slip_ResetKeepsLength ==
  /\ RegAddStart' = 0 /\ RegLgt' = 0 /\ ResultRegAddStart' = 0
  /\ start' = 0 /\ finish' = 0
  /\ CntAdd' = 0 /\ CntResultAdd' = 0 /\ Result' = 0
  /\ Memory
  /\ UNCHANGED <<CntLgt, sReadData, state, DataRd, request>>

(* nReset = '0': only what the two reset branches clear changes.  state,   *)
(* DataRd and the master port keep their values, so a request in flight    *)
(* stays on the bus.                                                       *)
ResetEdge ==
  /\ RegAddStart' = 0 /\ RegLgt' = 0 /\ ResultRegAddStart' = 0
  /\ start' = 0 /\ finish' = 0
  /\ CntAdd' = 0 /\ CntLgt' = 0 /\ CntResultAdd' = 0
  /\ Result' = 0
  /\ Memory
  /\ UNCHANGED <<sReadData, state, DataRd, request>>

(* Power-up: the registers of the FPGA come up at 0 and the FSM in the     *)
(* first state of its type, under an asserted nReset.                      *)
HwInit ==
  /\ RegAddStart = 0 /\ RegLgt = 0 /\ ResultRegAddStart = 0
  /\ start = 0 /\ finish = 0 /\ sReadData = 0
  /\ state = "IDLE"
  /\ CntAdd = 0 /\ CntLgt = 0 /\ CntResultAdd = 0
  /\ DataRd = 0 /\ Result = 0
  /\ mAddress = 0 /\ mByteEnable = 0 /\ mRead = 0 /\ mWrite = 0 /\ mWriteData = 0
  /\ mWaitRequest \in Bit

-----------------------------------------------------------------------------
(* The sets the signals range over.  A read returns a parameter or a flag. *)
HwTypeOK ==
  /\ RegAddStart \in Addr /\ ResultRegAddStart \in Addr /\ RegLgt \in Lgt
  /\ start \in Bit /\ finish \in Bit
  /\ sReadData \in Addr \cup Lgt \cup Bit
  /\ state \in States
  /\ CntAdd \in Addr /\ CntResultAdd \in Addr /\ CntLgt \in Lgt
  /\ DataRd \in Word /\ Result \in Word
  /\ mAddress \in Addr /\ mByteEnable \in Bit /\ mRead \in Bit /\ mWrite \in Bit
  /\ mWriteData \in Word /\ mWaitRequest \in Bit
  /\ mem \in [WordIndex -> Word]

(* A request the memory has not accepted stays on the bus as it is: the    *)
(* Avalon rule the FSM's WAIT_RD and WAIT_FOR_WRITE states are there for.  *)
HoldsRequest ==
  (mRead = 1 \/ mWrite = 1) /\ mWaitRequest = 1 => UNCHANGED request

(* The master port reads in WAIT_RD and writes in WAIT_FOR_WRITE only, so  *)
(* it never asks for both at once and never outside a run.                 *)
RequestMatchesState ==
  /\ mRead = 1 <=> state = "WAIT_RD"
  /\ mWrite = 1 <=> state = "WAIT_FOR_WRITE"

(* The word at hand on its way through DataRd, Result and the write port:  *)
(* what will be written is the transform of what the source address holds  *)
(* now, and it goes to the destination address.                            *)
WordInFlight ==
  LET source == mem[WordOf(CntAdd)] IN
  /\ state = "WAIT_RD" => mAddress = CntAdd
  /\ state = "CALCULATE" => DataRd = source
  /\ state = "SEND_WRITE_REQUEST" => Result = Transform[source]
  /\ state = "WAIT_FOR_WRITE" =>
       /\ mWriteData = Transform[source]
       /\ mAddress = CntResultAdd
       /\ mByteEnable = 1
=============================================================================
