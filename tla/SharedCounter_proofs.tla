------------------------ MODULE SharedCounter_proofs ------------------------
(***************************************************************************)
(* The counter programs for any number of processors and any widths of the *)
(* counter and the LED port: mutual exclusion, and that the LEDs miss no   *)
(* count and show no stale one.                                            *)
(***************************************************************************)
EXTENDS SharedCounter, TLAPS

(* A remainder lies below its modulus.                                     *)
LEMMA RemainderType ==
  ASSUME NEW n \in Int, NEW m \in Nat \ {0}
  PROVE  n % m \in 0 .. m - 1
OBVIOUS

(* Every variable stays in its range.                                      *)
LEMMA StepType ==
  ASSUME TypeOK, [Next]_vars
  PROVE  TypeOK'
<1> USE SpanAssumption, CPUAssumption DEF TypeOK, Critical, LockValue, At, Goto
<1>1. ASSUME NEW c \in CPU, Delay(c) \/ CheckLock(c) PROVE TypeOK'
  BY <1>1 DEF Delay, CheckLock
<1>2. ASSUME NEW c \in CPU, TryLock(c) \/ Unlock(c) PROVE TypeOK'
  BY <1>2 DEF TryLock, Unlock, MutexWrite
<1>3. ASSUME NEW c \in CPU, Add(c) PROVE TypeOK'
  <2>1. iCounter + 1 \in Int
    OBVIOUS
  <2>2. (iCounter + 1) % CounterSpan \in 0 .. CounterSpan - 1
    BY <2>1, RemainderType
  <2>3. QED
    BY <1>3, <2>2 DEF Add
<1>4. ASSUME NEW c \in CPU, ReadCounter(c) PROVE TypeOK'
  BY <1>4 DEF ReadCounter
<1>5. ASSUME NEW c \in CPU, Show(c) PROVE TypeOK'
  <2>1. value[c] \in Int
    OBVIOUS
  <2>2. value[c] % LedSpan \in 0 .. LedSpan - 1
    BY <2>1, RemainderType
  <2>3. QED
    BY <1>5, <2>2 DEF Show
<1>6. CASE Reset
  BY <1>6 DEF Reset
<1>7. CASE UNCHANGED vars
  BY <1>7 DEF vars
<1>8. QED
  BY <1>1, <1>2, <1>3, <1>4, <1>5, <1>6, <1>7 DEF Next, Step

(* Each transaction preserves the invariant.                               *)
LEMMA StepInv ==
  ASSUME IInv, [Next]_vars
  PROVE  IInv'
<1>0. TypeOK'
  BY StepType DEF IInv
<1> USE <1>0 DEF IInv, TypeOK, Critical, LockValue, At, Goto
<1>1. ASSUME NEW c \in CPU, Delay(c) PROVE IInv'
  BY <1>1 DEF Delay
<1>2. ASSUME NEW c \in CPU, TryLock(c) PROVE IInv'
  BY <1>2 DEF TryLock, MutexWrite
<1>3. ASSUME NEW c \in CPU, CheckLock(c) PROVE IInv'
  BY <1>3 DEF CheckLock
<1>4. ASSUME NEW c \in CPU, Add(c) PROVE IInv'
  BY <1>4 DEF Add
<1>5. ASSUME NEW c \in CPU, ReadCounter(c) PROVE IInv'
  BY <1>5 DEF ReadCounter
<1>6. ASSUME NEW c \in CPU, Show(c) PROVE IInv'
  BY <1>6 DEF Show
<1>7. ASSUME NEW c \in CPU, Unlock(c) PROVE IInv'
  BY <1>7 DEF Unlock, MutexWrite
<1>8. CASE Reset
  BY <1>8 DEF Reset
<1>9. CASE UNCHANGED vars
  BY <1>9 DEF vars
<1>10. QED
  BY <1>1, <1>2, <1>3, <1>4, <1>5, <1>6, <1>7, <1>8, <1>9 DEF Next, Step

(* IInv holds in every reachable state.                                    *)
THEOREM Invariance == Spec => []IInv
<1>1. Init => IInv
  BY CPUAssumption, SpanAssumption DEF Init, IInv, TypeOK, Critical
<1>2. QED
  BY <1>1, StepInv, PTL DEF Spec

(* No two processors are ever between lock and unlock.                     *)
THEOREM Exclusion == Spec => []MutualExclusion
<1>1. IInv => MutualExclusion
  BY DEF IInv, MutualExclusion
<1>2. QED
  BY <1>1, Invariance, PTL

(* A processor adds only when the count before is on the LEDs.             *)
THEOREM NoCountIsMissed == Spec => EveryCountIsShown
<1>1. IInv /\ [Next]_vars =>
        [iCounter' # iCounter /\ shown = 1 => leds = iCounter % LedSpan]_vars
  <2> SUFFICES ASSUME IInv, Next, iCounter' # iCounter, shown = 1
               PROVE  leds = iCounter % LedSpan
    OBVIOUS
  <2>1. PICK c \in CPU : Add(c)
    BY DEF Next, Step, Delay, TryLock, CheckLock, ReadCounter, Show, Unlock, Reset
  <2>2. \A d \in CPU : pc[d] \in Critical => d = c
    BY <2>1 DEF IInv, Add, At, Critical
  <2>3. ~ \E d \in CPU : pc[d] \in {"read", "show"}
    BY <2>1, <2>2 DEF Add, At, Critical
  <2>4. QED
    BY <2>3 DEF IInv
<1>2. QED
  BY <1>1, Invariance, PTL DEF Spec, EveryCountIsShown

(* What goes to the LEDs is the count at that moment.                      *)
THEOREM NoStaleDisplay == Spec => ShownValueIsCurrent
<1>1. IInv /\ [Next]_vars =>
        [\A c \in CPU : pc[c] = "show" /\ pc'[c] = "unlock" => leds' = iCounter % LedSpan]_vars
  <2> SUFFICES ASSUME IInv, Next, NEW c \in CPU, pc[c] = "show", pc'[c] = "unlock"
               PROVE  leds' = iCounter % LedSpan
    OBVIOUS
  <2>1. Show(c)
    <3>1. ASSUME NEW d \in CPU, Step(d) PROVE d = c
      BY <3>1 DEF Step, Delay, TryLock, CheckLock, Add, ReadCounter, Show, Unlock, Goto, IInv, TypeOK
    <3>2. ~Reset
      BY DEF Reset
    <3>3. Step(c)
      BY <3>1, <3>2 DEF Next
    <3>4. QED
      BY <3>3 DEF Step, Delay, TryLock, CheckLock, Add, ReadCounter, Unlock, At
  <2>2. QED
    BY <2>1 DEF IInv, Show
<1>2. QED
  BY <1>1, Invariance, PTL DEF Spec, ShownValueIsCurrent
=============================================================================
