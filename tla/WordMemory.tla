----------------------------- MODULE WordMemory -----------------------------
(***************************************************************************)
(* The words behind the accelerator's master port and the 32-bit address   *)
(* arithmetic on them, shared by the clocked model and by what it          *)
(* implements.                                                             *)
(***************************************************************************)
EXTENDS Integers

CONSTANTS
  AddrSpace,   (* number of byte addresses, 2^32 in the hardware           *)
  Stride,      (* what WAIT_FOR_WRITE adds to both address counters        *)
  MaxLgt,      (* largest value of the length register, 2^32 - 1           *)
  Word,        (* contents of a 32-bit memory word                         *)
  Transform    (* what CALCULATE computes of a word                        *)

ASSUME AddrSpaceAssumption == AddrSpace \in Nat /\ AddrSpace > 4 /\ AddrSpace % 4 = 0
ASSUME StrideAssumption == Stride \in 1 .. AddrSpace - 1
ASSUME LgtAssumption == MaxLgt \in Nat
ASSUME WordAssumption == 0 \in Word
ASSUME TransformAssumption == Transform \in [Word -> Word]

VARIABLE mem      (* the words behind the master port                       *)

Bit == {0, 1}
Addr == 0 .. AddrSpace - 1
Lgt == 0 .. MaxLgt
WordIndex == 0 .. (AddrSpace \div 4) - 1

(* The memory is word organised: the two low address bits select no word.  *)
WordOf(a) == a \div 4

(* Addition on the address counters, which are as wide as an address.      *)
Advance(a) == IF a + Stride < AddrSpace THEN a + Stride ELSE a + Stride - AddrSpace

(* The byte address n strides after a.                                     *)
NthAddress(a, n) == (a + n * Stride) % AddrSpace
=============================================================================
