----------------------- MODULE SwapAccelerator_proofs -----------------------
(***************************************************************************)
(* What one clock edge preserves, for every memory size, stride, length    *)
(* and transform: the lemmas that the proofs about SwapSystem and          *)
(* SwapBench rest on.                                                      *)
(***************************************************************************)
EXTENDS SwapAccelerator, TLAPS

(* What a bus master may put on the slave port: anything to read, and to   *)
(* write what fits the register.                                           *)
ValidAccess(acc) ==
  /\ acc.addr \in 0 .. 7 /\ acc.data \in Nat
  /\ acc.kind = "write" /\ acc.addr \in {0, 3} => acc.data \in Addr
  /\ acc.kind = "write" /\ acc.addr = 1 => acc.data \in Lgt

-----------------------------------------------------------------------------
(* The address counters wrap inside the address space.                     *)
LEMMA AdvanceType == ASSUME NEW a \in Addr PROVE Advance(a) \in Addr
BY AddrSpaceAssumption, StrideAssumption DEF Advance, Addr

(* A multiple of n that is not 0 is at least n away from it.               *)
LEMMA MultipleIsLarge ==
  ASSUME NEW n \in Nat, n > 0, NEW d \in Int
  PROVE  (d >= 1 => n * d >= n) /\ (d <= -1 => n * d <= -n)
OBVIOUS

(* Quotient and remainder are unique.                                      *)
LEMMA RemainderIsUnique ==
  ASSUME NEW n \in Nat, n > 0, NEW k \in Int, NEW r \in 0 .. n - 1
  PROVE  (n * k + r) % n = r
<1> DEFINE x == n * k + r  q == x \div n  s == x % n
<1>1. x \in Int
  OBVIOUS
<1>2. x = n * q + s /\ s \in 0 .. n - 1 /\ q \in Int
  BY <1>1
<1>3. n * (k - q) = s - r /\ k - q \in Int
  BY <1>2
<1>4. k - q = 0
  BY <1>2, <1>3, MultipleIsLarge
<1>5. QED
  BY <1>2, <1>3, <1>4

(* Advancing a counter is adding the stride modulo the address space, as   *)
(* long as the stride is smaller than that.                                *)
LEMMA AdvanceRemainder ==
  ASSUME NEW x \in Int
  PROVE  Advance(x % AddrSpace) = (x + Stride) % AddrSpace
<1> DEFINE n == AddrSpace  q == x \div n  r == x % n
<1>1. n \in Nat /\ n > 0 /\ Stride \in 1 .. n - 1
  BY AddrSpaceAssumption, StrideAssumption
<1>2. x = n * q + r /\ r \in 0 .. n - 1 /\ q \in Int
  BY <1>1
<1>3. CASE r + Stride < n
  <2>1. x + Stride = n * q + (r + Stride) /\ r + Stride \in 0 .. n - 1
    BY <1>1, <1>2, <1>3
  <2>2. (n * q + (r + Stride)) % n = r + Stride
    BY <1>1, <1>2, <2>1, RemainderIsUnique
  <2>3. QED
    BY <1>3, <2>1, <2>2 DEF Advance
<1>4. CASE ~(r + Stride < n)
  <2>1. r + Stride - n \in 0 .. n - 1 /\ q + 1 \in Int
    BY <1>1, <1>2, <1>4
  <2>2. n * (q + 1) = n * q + n
    BY <1>1, <1>2
  <2>3. x + Stride = n * (q + 1) + (r + Stride - n)
    BY <1>1, <1>2, <2>2
  <2>4. (n * (q + 1) + (r + Stride - n)) % n = r + Stride - n
    BY <1>1, <2>1, RemainderIsUnique
  <2>5. QED
    BY <1>4, <2>3, <2>4 DEF Advance
<1>5. QED
  BY <1>3, <1>4

(* Zero strides after an address is the address.                           *)
LEMMA FirstAddress == ASSUME NEW a \in Addr PROVE NthAddress(a, 0) = a
<1>1. a \in 0 .. AddrSpace - 1 /\ AddrSpace \in Nat /\ AddrSpace > 0
  BY AddrSpaceAssumption DEF Addr
<1>2. (AddrSpace * 0 + a) % AddrSpace = a
  BY <1>1, RemainderIsUnique
<1>3. a + 0 * Stride = AddrSpace * 0 + a
  BY <1>1, StrideAssumption
<1>4. QED
  BY <1>2, <1>3 DEF NthAddress

(* A counter that advances goes to the next stride.                        *)
LEMMA NextAddress ==
  ASSUME NEW a \in Int, NEW n \in Int
  PROVE  Advance(NthAddress(a, n)) = NthAddress(a, n + 1)
<1>1. Stride \in Int
  BY StrideAssumption, AddrSpaceAssumption
<1>2. a + n * Stride \in Int /\ (n + 1) * Stride = n * Stride + Stride
  BY <1>1
<1>3. a + (n + 1) * Stride = (a + n * Stride) + Stride
  BY <1>1, <1>2
<1>4. QED
  BY <1>2, <1>3, AdvanceRemainder DEF NthAddress

(* An address selects a word of the memory.                                *)
LEMMA WordOfType == ASSUME NEW a \in Addr PROVE WordOf(a) \in WordIndex
BY AddrSpaceAssumption DEF WordOf, Addr, WordIndex

(* The registers written through the slave port keep their widths.         *)
LEMMA SlaveWriteType ==
  ASSUME HwTypeOK, NEW acc, ValidAccess(acc), SlaveWriteProcess(acc)
  PROVE  /\ RegAddStart' \in Addr /\ ResultRegAddStart' \in Addr
         /\ RegLgt' \in Lgt /\ start' \in Bit
<1>1. acc.data % 2 \in Bit
  BY DEF ValidAccess, Bit
<1>2. QED
  BY <1>1 DEF HwTypeOK, ValidAccess, SlaveWriteProcess, Writes, Bit

(* The addresses of the registers the driver reads.                        *)
LEMMA RegisterMap ==
  /\ Readable(0) = RegAddStart /\ Readable(1) = RegLgt
  /\ Readable(3) = ResultRegAddStart /\ Readable(5) = finish
BY DEF Readable

(* A read returns a register, a flag or zero.                              *)
LEMMA SlaveReadType ==
  ASSUME HwTypeOK, NEW acc, ValidAccess(acc), SlaveReadProcess(acc)
  PROVE  sReadData' \in Addr \cup Lgt \cup Bit
BY DEF HwTypeOK, ValidAccess, SlaveReadProcess, Reads, Readable, Bit

(* The memory keeps holding words.                                         *)
LEMMA MemoryType ==
  ASSUME HwTypeOK, Memory
  PROVE  mem' \in [WordIndex -> Word] /\ mWaitRequest' \in Bit
<1>1. WordOf(mAddress) \in WordIndex
  BY WordOfType DEF HwTypeOK
<1>2. QED
  BY <1>1 DEF HwTypeOK, Memory

(* The signals the master FSM assigns.                                     *)
FsmTypeOK ==
  /\ finish \in Bit /\ state \in States
  /\ CntAdd \in Addr /\ CntResultAdd \in Addr /\ CntLgt \in Lgt
  /\ DataRd \in Word /\ Result \in Word
  /\ mAddress \in Addr /\ mByteEnable \in Bit /\ mRead \in Bit /\ mWrite \in Bit
  /\ mWriteData \in Word

(* Every state of the FSM keeps them in range: the counters wrap, the      *)
(* length stops at 0 and what is written is a transformed word.            *)
LEMMA FsmType ==
  ASSUME HwTypeOK, TransitionMasterFSM
  PROVE  FsmTypeOK'
<1> USE DEF HwTypeOK, FsmTypeOK, Bit, States, counters, request
<1>1. CASE Idle
  BY <1>1, AddrSpaceAssumption DEF Idle, Addr
<1>2. CASE LoadParameters
  BY <1>2, WordAssumption DEF LoadParameters
<1>3. CASE RdAcc
  BY <1>3 DEF RdAcc
<1>4. CASE WaitRd
  <2>1. mem[WordOf(mAddress)] \in Word
    BY WordOfType
  <2>2. QED
    BY <1>4, <2>1 DEF WaitRd
<1>5. CASE Calculate
  <2>1. Transform[DataRd] \in Word
    BY TransformAssumption
  <2>2. QED
    BY <1>5, <2>1 DEF Calculate
<1>6. CASE SendWriteRequest
  BY <1>6 DEF SendWriteRequest
<1>7. CASE WaitForWrite
  <2>1. Advance(CntAdd) \in Addr /\ Advance(CntResultAdd) \in Addr
    BY AdvanceType
  <2>2. CntLgt > 0 => CntLgt - 1 \in Lgt
    BY LgtAssumption DEF Lgt
  <2>3. QED
    BY <1>7, <2>1, <2>2 DEF WaitForWrite, NextWord, LastWord
<1>8. QED
  BY <1>1, <1>2, <1>3, <1>4, <1>5, <1>6, <1>7 DEF TransitionMasterFSM

(* A clock edge keeps every signal in its range.                           *)
LEMMA EdgeType ==
  ASSUME HwTypeOK, NEW acc, ValidAccess(acc), Edge(acc)
  PROVE  HwTypeOK'
<1>1. FsmTypeOK'
  BY FsmType DEF Edge
<1>2. QED
  BY <1>1, SlaveWriteType, SlaveReadType, MemoryType DEF Edge, HwTypeOK, FsmTypeOK

(* The power-up values are in range.                                       *)
LEMMA InitType ==
  ASSUME HwInit, mem \in [WordIndex -> Word]
  PROVE  HwTypeOK
BY AddrSpaceAssumption, LgtAssumption, WordAssumption
DEF HwInit, HwTypeOK, Addr, Lgt, Bit, States
=============================================================================
