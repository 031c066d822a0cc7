------------------------------- MODULE Counter -------------------------------
(***************************************************************************)
(* The counter of counter_parallel_port/hw/hdl/counter.vhd, one clock edge *)
(* at a time: a free-running count with start, stop and reset, and a flag  *)
(* that it has passed 0 and may interrupt.                                 *)
(***************************************************************************)
EXTENDS Integers, AvalonSlave

CONSTANTS
  CounterSpan,   (* values of the count, 2^32 in the hardware                *)
  PowerUp        (* counts it may have when the power comes on               *)

ASSUME CounterAssumption ==
  CounterSpan \in Nat \ {0} /\ PowerUp \subseteq 0 .. CounterSpan - 1 /\ PowerUp # {}

VARIABLES
  iCounter,
  iEn, iRz,                  (* running; one-cycle pulse that resets       *)
  iEOT, iClrEOT, iIRQEn,     (* passed 0; pulse that clears; enable        *)
  ReadData

counterVars == <<iCounter, iEn, iRz, iEOT, iClrEOT, iIRQEn, ReadData>>

(* Nothing initialises the count or the flag.  The first count was 0, and  *)
(* no program clears the flag that has set.                                *)
CounterInit ==
  /\ iCounter \in PowerUp /\ iEOT = 1
  /\ iEn = 0 /\ iRz = 0 /\ iClrEOT = 0 /\ iIRQEn = 0 /\ ReadData = 0

(* A slip: resetting also has to be enabled.                               *)
Slip_ResetWhenRunning ==
  iCounter' = IF iEn = 0 THEN iCounter ELSE IF iRz = 1 THEN 0 ELSE (iCounter + 1) % CounterSpan

(* The reset pulse goes before counting.                                   *)
pCounter ==
  iCounter' = IF iRz = 1 THEN 0
              ELSE IF iEn = 1 THEN (iCounter + 1) % CounterSpan ELSE iCounter

pRegWr(acc) ==
  /\ iRz' = IF Writes(acc, 1) THEN 1 ELSE 0
  /\ iEn' = IF Writes(acc, 2) THEN 1 ELSE IF Writes(acc, 3) THEN 0 ELSE iEn
  /\ iIRQEn' = IF Writes(acc, 4) THEN acc.data % 2 ELSE iIRQEn
  /\ iClrEOT' = IF Writes(acc, 5) THEN acc.data % 2 ELSE 0

(* The answer is there for one cycle.                                      *)
pRegRd(acc) ==
  ReadData' = IF Reads(acc) THEN <<iCounter, 0, 0, 0, iIRQEn, iEOT + 2 * iEn, 0, 0>>[acc.addr + 1]
              ELSE 0

(* At 0 a clear has no effect.                                             *)
pInterrupt ==
  iEOT' = IF iCounter = 0 THEN 1 ELSE IF iClrEOT = 1 THEN 0 ELSE iEOT

CounterEdge(acc) == pCounter /\ pRegWr(acc) /\ pRegRd(acc) /\ pInterrupt
=============================================================================
