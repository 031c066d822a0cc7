--------------------------- MODULE BitSwap_proofs ---------------------------
(***************************************************************************)
(* What BitSwap checks on test words, for every word of 32 bits.           *)
(***************************************************************************)
EXTENDS BitSwap, TLAPS

(* Bit by bit the two circuits' assignments and loops are the same.        *)
LEMMA CircuitsAgree ==
  ASSUME NEW data \in Words
  PROVE  CustomInstruction(data) = Reshuffled(data)
<1>1. ASSUME NEW i \in BitIndex
      PROVE  CustomInstruction(data)[i] = Reshuffled(data)[i]
  <2>1. 23 - (i - 8) = 31 - i
    BY DEF BitIndex
  <2>2. QED
    BY <2>1 DEF CustomInstruction, Reshuffled, BitIndex
<1>2. QED
  BY <1>1 DEF CustomInstruction, Reshuffled

(* What is in the caller's variable and in the register, by who has        *)
(* worked.                                                                 *)
IInv ==
  /\ given \in Words
  /\ res = IF "instruction" \in done THEN CustomInstruction(given) ELSE given
  /\ "accelerator" \in done => Result = Reshuffled(given)

THEOREM Invariance == Spec => []IInv
<1>1. Init => IInv
  BY InputsAssumption DEF Init, IInv
<1>2. ASSUME IInv, [Next]_vars PROVE IInv'
  <2> USE DEF IInv
  <2>1. CASE SwapTP2
    BY <1>2, <2>1 DEF SwapTP2
  <2>2. CASE CALCULATE
    BY <1>2, <2>2 DEF CALCULATE
  <2>3. CASE NextWord
    BY <1>2, <2>3, InputsAssumption DEF NextWord
  <2>4. CASE UNCHANGED vars
    BY <1>2, <2>4 DEF vars
  <2>5. QED
    BY <1>2, <2>1, <2>2, <2>3, <2>4 DEF Next
<1>3. QED
  BY <1>1, <1>2, PTL DEF Spec

(* The custom instruction that SwapTP2 is and the accelerator's CALCULATE  *)
(* state give the same word, for every word of 32 bits.                    *)
THEOREM Agreement == Spec => []WaysAgree
<1>1. IInv => WaysAgree
  BY CircuitsAgree DEF IInv, WaysAgree
<1>2. QED
  BY <1>1, Invariance, PTL

(* The permutation undoes itself, so a second run over an array in place   *)
(* restores it.                                                            *)
THEOREM Involution ==
  ASSUME NEW data \in Words
  PROVE  Reshuffled(Reshuffled(data)) = data
<1>1. Reshuffled(data) \in Words
  BY DEF Reshuffled, Words, BitIndex
<1>2. \A i \in BitIndex : Reshuffled(Reshuffled(data))[i] = data[i]
  BY DEF Reshuffled, BitIndex
<1>3. QED
  BY <1>2 DEF Reshuffled, Words

-----------------------------------------------------------------------------
(* The example of the report, byte by byte.                                *)
BitOf(byte, k) == (byte \div 2^k) % 2

(* The two middle bytes of the report's words are each other's mirror.     *)
LEMMA MirroredBytes ==
  \A k \in 0 .. 7 : BitOf(44, k) = BitOf(52, 7 - k) /\ BitOf(106, k) = BitOf(86, 7 - k)
<1>1. 2^0 = 1 /\ 2^1 = 2 /\ 2^2 = 4 /\ 2^3 = 8 /\ 2^4 = 16 /\ 2^5 = 32 /\ 2^6 = 64 /\ 2^7 = 128
  OBVIOUS
<1>2. /\ BitOf(44, 0) = BitOf(52, 7) /\ BitOf(106, 0) = BitOf(86, 7)
      /\ BitOf(44, 1) = BitOf(52, 6) /\ BitOf(106, 1) = BitOf(86, 6)
      /\ BitOf(44, 2) = BitOf(52, 5) /\ BitOf(106, 2) = BitOf(86, 5)
      /\ BitOf(44, 3) = BitOf(52, 4) /\ BitOf(106, 3) = BitOf(86, 4)
      /\ BitOf(44, 4) = BitOf(52, 3) /\ BitOf(106, 4) = BitOf(86, 3)
      /\ BitOf(44, 5) = BitOf(52, 2) /\ BitOf(106, 5) = BitOf(86, 2)
      /\ BitOf(44, 6) = BitOf(52, 1) /\ BitOf(106, 6) = BitOf(86, 1)
      /\ BitOf(44, 7) = BitOf(52, 0) /\ BitOf(106, 7) = BitOf(86, 0)
  BY <1>1 DEF BitOf
<1>3. \A k \in 0 .. 7 : k \in {0, 1, 2, 3, 4, 5, 6, 7}
  OBVIOUS
<1>4. QED
  BY <1>2, <1>3

(* A word made of four bytes has the bits of the byte they are in.         *)
LEMMA BitsOfBytes ==
  ASSUME NEW bytes, NEW k \in 0 .. 7
  PROVE  /\ FromBytes(bytes)[k] = BitOf(bytes[4], k)
         /\ FromBytes(bytes)[8 + k] = BitOf(bytes[3], k)
         /\ FromBytes(bytes)[16 + k] = BitOf(bytes[2], k)
         /\ FromBytes(bytes)[24 + k] = BitOf(bytes[1], k)
<1>1. ASSUME NEW q \in 0 .. 3
      PROVE  FromBytes(bytes)[8 * q + k] = BitOf(bytes[4 - q], k)
  <2>1. 8 * q + k \in BitIndex /\ (8 * q + k) \div 8 = q /\ (8 * q + k) % 8 = k
    BY DEF BitIndex
  <2>2. QED
    BY <2>1 DEF FromBytes, BitOf
<1>2. QED
  BY <1>1

(* 0x12345678 becomes 0x786a2c12.                                          *)
LEMMA ExampleWord ==
  Reshuffled(FromBytes(<<18, 52, 86, 120>>)) = FromBytes(<<120, 106, 44, 18>>)
<1> DEFINE from == FromBytes(<<18, 52, 86, 120>>)
           to == FromBytes(<<120, 106, 44, 18>>)
<1>1. ASSUME NEW k \in 0 .. 7
      PROVE  /\ to[k] = from[24 + k] /\ to[24 + k] = from[k]
             /\ to[8 + k] = from[16 + (7 - k)] /\ to[16 + k] = from[8 + (7 - k)]
  <2>1. 7 - k \in 0 .. 7
    OBVIOUS
  <2>2. /\ to[k] = BitOf(18, k) /\ to[8 + k] = BitOf(44, k)
        /\ to[16 + k] = BitOf(106, k) /\ to[24 + k] = BitOf(120, k)
    BY BitsOfBytes
  <2>3. /\ from[k] = BitOf(120, k) /\ from[24 + k] = BitOf(18, k)
        /\ from[8 + (7 - k)] = BitOf(86, 7 - k) /\ from[16 + (7 - k)] = BitOf(52, 7 - k)
    BY <2>1, BitsOfBytes
  <2>4. QED
    BY <2>2, <2>3, MirroredBytes
<1> HIDE DEF from, to
<1>2. ASSUME NEW i \in BitIndex PROVE Reshuffled(from)[i] = to[i]
  <2>1. CASE i < 8
    BY <1>1, <2>1 DEF Reshuffled, BitIndex
  <2>2. CASE i >= 24
    <3>1. i - 24 \in 0 .. 7 /\ 24 + (i - 24) = i
      BY <2>2 DEF BitIndex
    <3>2. QED
      BY <1>1, <2>2, <3>1 DEF Reshuffled, BitIndex
  <2>3. CASE i \in 8 .. 15
    <3>1. i - 8 \in 0 .. 7 /\ 8 + (i - 8) = i /\ 16 + (7 - (i - 8)) = 31 - i
      BY <2>3
    <3>2. QED
      BY <1>1, <2>3, <3>1 DEF Reshuffled, BitIndex
  <2>4. CASE i \in 16 .. 23
    <3>1. i - 16 \in 0 .. 7 /\ 16 + (i - 16) = i /\ 8 + (7 - (i - 16)) = 31 - i
      BY <2>4
    <3>2. QED
      BY <1>1, <2>4, <3>1 DEF Reshuffled, BitIndex
  <2>5. QED
    BY <2>1, <2>2, <2>3, <2>4 DEF BitIndex
<1>3. QED
  BY <1>2 DEF Reshuffled, FromBytes, from, to

(* The report's example holds of what SwapTP2 returns and of what the      *)
(* accelerator's register gets.                                            *)
THEOREM ExampleIsMatched == Spec => []MatchesTheExample
<1>1. IInv => MatchesTheExample
  BY CircuitsAgree, ExampleWord DEF IInv, MatchesTheExample
<1>2. QED
  BY <1>1, Invariance, PTL
=============================================================================
