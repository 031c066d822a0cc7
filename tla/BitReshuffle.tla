---------------------------- MODULE BitReshuffle ----------------------------
(***************************************************************************)
(* What the accelerator and its driver promise together: a call hands over *)
(* a source, a destination and a count; words are then transformed one at  *)
(* a time, in order, straight from memory to memory; and the call returns  *)
(* only when the last of them is in memory.  No bus, no registers and no   *)
(* clock.                                                                  *)
(***************************************************************************)
EXTENDS WordMemory

CONSTANTS
  Jobs,        (* the arguments the program calls the driver with          *)
  InitMem      (* contents of the memory before the first call             *)

VARIABLES
  busy,     (* 1 from the write that starts the run to the driver's return *)
  src, dst, (* addresses of the next word                                  *)
  left      (* words still to be transformed                               *)

vars == <<busy, src, dst, left, mem>>

(* Before the first call src and dst are whatever the registers hold.      *)
Init ==
  /\ busy = 0
  /\ src \in Addr /\ dst \in Addr
  /\ left = 0
  /\ mem = InitMem

(* The length register counts down to 0 inclusive: one word more than it   *)
(* was given.                                                              *)
Begin(j) ==
  /\ busy = 0
  /\ busy' = 1
  /\ src' = j.src /\ dst' = j.dst
  /\ left' = j.lgt + 1
  /\ UNCHANGED mem

(* Two slips: the source address stands still; words are transformed in    *)
(* place.                                                                  *)
Slip_SameSource ==
  /\ left > 0
  /\ mem' = [mem EXCEPT ![WordOf(dst)] = Transform[mem[WordOf(src)]]]
  /\ dst' = Advance(dst)
  /\ left' = left - 1
  /\ UNCHANGED <<busy, src>>

Slip_InPlace ==
  /\ left > 0
  /\ mem' = [mem EXCEPT ![WordOf(src)] = Transform[mem[WordOf(src)]]]
  /\ src' = Advance(src) /\ dst' = Advance(dst)
  /\ left' = left - 1
  /\ UNCHANGED busy

CopyWord ==
  /\ left > 0
  /\ mem' = [mem EXCEPT ![WordOf(dst)] = Transform[mem[WordOf(src)]]]
  /\ src' = Advance(src) /\ dst' = Advance(dst)
  /\ left' = left - 1
  /\ UNCHANGED busy

Return ==
  /\ busy = 1
  /\ left = 0
  /\ busy' = 0
  /\ UNCHANGED <<src, dst, left, mem>>

Next == (\E j \in Jobs : Begin(j)) \/ CopyWord \/ Return

Spec == Init /\ [][Next]_vars

-----------------------------------------------------------------------------
TypeOK ==
  /\ busy \in Bit
  /\ src \in Addr /\ dst \in Addr
  /\ left \in Nat
  /\ mem \in [WordIndex -> Word]
=============================================================================
