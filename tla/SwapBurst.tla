------------------------------ MODULE SwapBurst ------------------------------
(***************************************************************************)
(* The accelerator of the burst_mode project: the same entity and the same *)
(* driver, built to visit one word per column of 44 words instead of every *)
(* word.  What differs from SwapSystem is the two constants below, and     *)
(* main.c passing a 44th of the array's size as the length.                *)
(***************************************************************************)
EXTENDS SwapSystem

(* What WAIT_FOR_WRITE adds to the address counters.                       *)
BurstStride == 174

(* CALCULATE hands the word on as it was read.                             *)
BurstTransform == [w \in Word |-> w]

(* Words per column, as main.c divides the size by it.                     *)
ColumnWords == 44

(* The accelerator reads the first word of each column: the comment beside *)
(* the stride gives it as 4*44 bytes (swap.vhd:143).                       *)
ReadsTheColumns ==
  mRead = 1 => \E k \in 0 .. job.lgt : mAddress = job.src + k * 4 * ColumnWords
=============================================================================
