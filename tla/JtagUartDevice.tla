--------------------------- MODULE JtagUartDevice ---------------------------
(***************************************************************************)
(* The JTAG UART of the Qsys systems (soc_system_jtag_uart_0.v): a queue   *)
(* in each direction, the interrupt enables and conditions, the activity   *)
(* bit, and the host at the other end of the cable, which may stop or be   *)
(* away at any time.                                                       *)
(***************************************************************************)
EXTENDS Integers, Sequences

CONSTANTS
  Depth,        (* bytes a queue of the device holds, 64 in the hardware    *)
  Threshold     (* bytes to empty, or to full, that interrupt: 8            *)

ASSUME DepthAssumption == Depth \in Nat \ {0} /\ Threshold \in 0 .. Depth - 1

VARIABLES
  wfifo, rfifo,     (* towards the host, from the host                      *)
  ien_AE, ien_AF,   (* interrupt enables: write, read                       *)
  pause_irq, ac

deviceVars == <<wfifo, rfifo, ien_AE, ien_AF, pause_irq, ac>>

DeviceInit ==
  /\ wfifo = <<>> /\ rfifo = <<>>
  /\ ien_AE = 0 /\ ien_AF = 1   (* the driver's first control write         *)
  /\ pause_irq = 0 /\ ac = 0

fifo_FF == Len(wfifo) = Depth
rfifo_full == Len(rfifo) = Depth
ipen_AE == ien_AE = 1 /\ Len(wfifo) <= Threshold
ipen_AF == ien_AF = 1 /\ (pause_irq = 1 \/ Depth - Len(rfifo) <= Threshold)
av_irq == ipen_AE \/ ipen_AF
wspace == Depth - Len(wfifo)

-----------------------------------------------------------------------------
(* Accesses of the processor.  A byte written to a full queue is dropped.  *)
WriteData(b) ==
  /\ wfifo' = IF fifo_FF THEN wfifo ELSE Append(wfifo, b)
  /\ UNCHANGED <<rfifo, ien_AE, ien_AF, pause_irq, ac>>

(* RVALID is whether there was a byte, RAVAIL what is left.                *)
ReadData(valid, left) ==
  /\ valid = (rfifo # <<>>)
  /\ rfifo' = IF valid THEN Tail(rfifo) ELSE rfifo
  /\ left = Len(rfifo')
  /\ pause_irq' = 0
  /\ UNCHANGED <<wfifo, ien_AE, ien_AF, ac>>

(* Writing the activity bit as 1 clears it.                                *)
WriteControl(we, re, clear) ==
  /\ ien_AE' = we /\ ien_AF' = re
  /\ ac' = IF clear = 1 THEN 0 ELSE ac
  /\ UNCHANGED <<wfifo, rfifo, pause_irq>>

-----------------------------------------------------------------------------
(* Steps of the host.  Only sending and pausing are activity.              *)
HostTakes ==
  /\ wfifo # <<>>
  /\ wfifo' = Tail(wfifo)
  /\ UNCHANGED <<rfifo, ien_AE, ien_AF, pause_irq, ac>>

HostSends(b) ==
  /\ ~rfifo_full
  /\ rfifo' = Append(rfifo, b)
  /\ ac' = 1
  /\ UNCHANGED <<wfifo, ien_AE, ien_AF, pause_irq>>

HostPauses ==
  /\ pause_irq' = IF rfifo # <<>> THEN 1 ELSE pause_irq
  /\ ac' = 1
  /\ <<ac, pause_irq>>' # <<ac, pause_irq>>
  /\ UNCHANGED <<wfifo, rfifo, ien_AE, ien_AF>>
=============================================================================
