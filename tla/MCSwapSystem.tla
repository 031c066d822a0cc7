---------------------------- MODULE MCSwapSystem ----------------------------
(* Instances of SwapSystem for TLC: 32 bytes of memory, word values whose  *)
(* transform is an involution with fixed points, like the permutation of   *)
(* the hardware, and calls whose windows are apart, overlap and wrap.      *)
EXTENDS SwapSystem

MCWord == 0 .. 3
MCTransform == [w \in MCWord |-> IF w = 1 THEN 2 ELSE IF w = 2 THEN 1 ELSE w]
MCInitMem == [i \in WordIndex |-> <<1, 3, 1, 2, 0, 3, 2, 0>>[i + 1]]

J(s, d, n) == [src |-> 4 * s, dst |-> 4 * d, lgt |-> n]
MCJobs == {J(0, 4, 2), J(0, 0, 0), J(7, 1, 1)}
=============================================================================
