------------------------------- MODULE BitSwap -------------------------------
(***************************************************************************)
(* The two circuits that compute one permutation of the bits of a word:    *)
(* the custom instruction of BitSwap.vhd, which SwapTP2 is (its sixteen    *)
(* calls of Swap are commented out), and the CALCULATE state of swap.vhd.  *)
(* The outer bytes change places and the two middle bytes are mirrored as  *)
(* one.  Each circuit has an assignment for the outer bytes and a loop of  *)
(* its own, indexed in its own way, for the middle ones.                   *)
(*                                                                         *)
(* One word after the other is given to both, in either order.             *)
(***************************************************************************)
EXTENDS Integers

CONSTANT Inputs    (* the words that are permuted                          *)

Bit == {0, 1}
BitIndex == 0 .. 31
Words == [BitIndex -> Bit]
Zero == [i \in BitIndex |-> 0]

ASSUME InputsAssumption == Inputs \subseteq Words

VARIABLES
  given,      (* the word given to both                                    *)
  res,        (* SwapTP2's argument, and then what it returns              *)
  Result,     (* the register the accelerator writes to memory             *)
  done        (* who has permuted the word                                 *)

vars == <<given, res, Result, done>>

(* Two slips: the bits of the outer bytes are mirrored as well; the middle *)
(* bytes are mirrored each in its place.                                   *)
Slip_AllMirrored(dataa) == [i \in BitIndex |-> dataa[31 - i]]

Slip_BytesMirrored(DataRd) ==
  [i \in BitIndex |->
     IF i > 23 THEN DataRd[i - 24] ELSE IF i < 8 THEN DataRd[i + 24]
     ELSE IF i < 16 THEN DataRd[23 - i] ELSE DataRd[39 - i]]

(* The combinatorial logic of the custom instruction.                      *)
CustomInstruction(dataa) ==
  [i \in BitIndex |->
     IF i >= 24 THEN dataa[i - 24] ELSE IF i < 8 THEN dataa[i + 24] ELSE dataa[23 - (i - 8)]]

(* What the accelerator assigns to Result.                                 *)
Reshuffled(DataRd) ==
  [i \in BitIndex |->
     IF i \in 8 .. 23 THEN DataRd[31 - i] ELSE IF i > 23 THEN DataRd[i - 24] ELSE DataRd[i + 24]]

Init ==
  /\ given \in Inputs
  /\ res = given
  /\ Result = Zero
  /\ done = {}

SwapTP2 ==
  /\ "instruction" \notin done
  /\ res' = CustomInstruction(res)
  /\ done' = done \cup {"instruction"}
  /\ UNCHANGED <<given, Result>>

CALCULATE ==
  /\ "accelerator" \notin done
  /\ Result' = Reshuffled(given)
  /\ done' = done \cup {"accelerator"}
  /\ UNCHANGED <<given, res>>

(* The caller's variable is set again; the register keeps the last word.   *)
NextWord ==
  /\ done = {"instruction", "accelerator"}
  /\ given' \in Inputs
  /\ res' = given'
  /\ done' = {}
  /\ UNCHANGED Result

Next == SwapTP2 \/ CALCULATE \/ NextWord

Spec == Init /\ [][Next]_vars

-----------------------------------------------------------------------------
(* The profiling compares ways to compute the same thing: what SwapTP2     *)
(* returns for a word is what the accelerator writes for it.               *)
WaysAgree == done = {"instruction", "accelerator"} => res = Result

(* A word written as its four bytes, the most significant first.           *)
FromBytes(bytes) == [i \in BitIndex |-> (bytes[4 - (i \div 8)] \div 2^(i % 8)) % 2]

(* "For example 0x12345678 will become 0x786a2c12" (report.tex:9), and so  *)
(* says the comment of CALCULATE (swap.vhd:128).                           *)
MatchesTheExample ==
  given = FromBytes(<<18, 52, 86, 120>>) =>
    /\ "instruction" \in done => res = FromBytes(<<120, 106, 44, 18>>)
    /\ "accelerator" \in done => Result = FromBytes(<<120, 106, 44, 18>>)
=============================================================================
