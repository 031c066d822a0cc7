------------------------------ MODULE MCBitSwap ------------------------------
(* BitSwap over words that show where every bit goes, beside bits that     *)
(* equal it and beside bits that do not: none set, all set, one set, all   *)
(* but one set; and the word of the report's example.                      *)
EXTENDS BitSwap

OneBit(b, v) == [i \in BitIndex |-> IF i = b THEN v ELSE 1 - v]
MCInputs ==
  {[i \in BitIndex |-> v] : v \in Bit}
  \cup {OneBit(b, v) : b \in BitIndex, v \in Bit}
  \cup {FromBytes(<<18, 52, 86, 120>>)}
=============================================================================
