---------------------------- MODULE MCSwapBench ----------------------------
(* SwapBench for TLC: four words of memory, runs of one and two words that *)
(* copy, overlap and wrap.  No control depends on a word's contents, so    *)
(* they only tell a processed word from one that is not.                   *)
EXTENDS SwapBench

MCWord == Bit
MCTransform == [w \in MCWord |-> 1]
MCInitMem == [i \in WordIndex |-> 0]
=============================================================================
