----------------------------- MODULE MCSwapBurst -----------------------------
(* One call over two columns in 1 KiB of memory: 174 is below 4 * 44 from  *)
(* the second word on, so a longer array shows nothing more.               *)
EXTENDS SwapBurst

MCWord == 0 .. 1
MCInitMem == [i \in WordIndex |-> i % 2]
MCJobs == {[src |-> 0, dst |-> 512, lgt |-> 2]}
=============================================================================
