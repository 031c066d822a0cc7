---------------------------- MODULE SharedCounter ----------------------------
(***************************************************************************)
(* The multiprocessor lab: two Nios processors run the same loop           *)
(* (cpu0_counter.c, cpu1_counter.c) over three slaves they share, a        *)
(* hardware mutex, the counter of counter.vhd and the LED port.  Each loop *)
(* adds one to the counter, reads it back and shows it on the LEDs, under  *)
(* the mutex.                                                              *)
(*                                                                         *)
(* One action is one bus transaction: the interconnect arbitrates a slave  *)
(* between transactions, never inside one, and that is where the other     *)
(* processor gets in.                                                      *)
(***************************************************************************)
EXTENDS Integers

CONSTANTS
  CPU,           (* the processors, by the cpuID the mutex driver uses     *)
  CounterSpan,   (* values of the counter register, 2^32 in the hardware   *)
  LedSpan        (* values of the LED port, 2^8 in the hardware            *)

ASSUME CPUAssumption == CPU \subseteq Nat /\ 0 \in CPU
ASSUME SpanAssumption ==
  /\ CounterSpan \in Nat \ {0} /\ LedSpan \in Nat \ {0}
  /\ CounterSpan % LedSpan = 0

VARIABLES
  mutexValue, mutexOwner,   (* the two halves of the mutex register        *)
  iCounter, leds,
  pc,       (* the bus transaction each processor makes next               *)
  value,    (* what its last read of the counter returned                  *)
  shown     (* history: 1 once the LEDs were written since the last reset  *)

vars == <<mutexValue, mutexOwner, iCounter, leds, pc, value, shown>>

(* The loop body between a successful lock and the unlock.                 *)
Critical == {"add", "read", "show", "unlock"}

(* What both programs pass to altera_avalon_mutex_lock.                    *)
LockValue == 2

(* A slip: the mutex takes every write.                                    *)
Slip_TakesEveryWrite(c, v) == mutexValue' = v /\ mutexOwner' = c

(* The mutex takes a write when it is free or owned by the writer.         *)
MutexWrite(c, v) ==
  IF mutexValue = 0 \/ mutexOwner = c
  THEN mutexValue' = v /\ mutexOwner' = c
  ELSE UNCHANGED <<mutexValue, mutexOwner>>

At(c, step) == pc[c] = step
Goto(c, step) == pc' = [pc EXCEPT ![c] = step]

Init ==
  /\ mutexValue = 0 /\ mutexOwner = 0
  /\ iCounter \in 0 .. CounterSpan - 1    (* nothing initialises it        *)
  /\ leds = 0
  /\ pc = [c \in CPU |-> "delay"]
  /\ value = [c \in CPU |-> 0]
  /\ shown = 0

(* The for loops that slow the counting down.                              *)
Delay(c) ==
  /\ At(c, "delay") /\ Goto(c, "lock")
  /\ UNCHANGED <<mutexValue, mutexOwner, iCounter, leds, value, shown>>

(* altera_avalon_mutex_lock: write the mutex, read it back, and try again  *)
(* until the write is found to have been taken.                            *)
TryLock(c) ==
  /\ At(c, "lock") /\ Goto(c, "check")
  /\ MutexWrite(c, LockValue)
  /\ UNCHANGED <<iCounter, leds, value, shown>>

(* Two slips: only the value is looked at; nothing is.                     *)
Slip_ValueOnly(c) ==
  /\ At(c, "check")
  /\ Goto(c, IF mutexValue = LockValue THEN "add" ELSE "lock")
  /\ UNCHANGED <<mutexValue, mutexOwner, iCounter, leds, value, shown>>

Slip_NotChecked(c) ==
  /\ At(c, "check") /\ Goto(c, "add")
  /\ UNCHANGED <<mutexValue, mutexOwner, iCounter, leds, value, shown>>

CheckLock(c) ==
  /\ At(c, "check")
  /\ Goto(c, IF mutexOwner = c /\ mutexValue = LockValue THEN "add" ELSE "lock")
  /\ UNCHANGED <<mutexValue, mutexOwner, iCounter, leds, value, shown>>

(* Two slips: the value is not read again after the addition; the counter  *)
(* stops at its last value.                                                *)
Slip_NotReadAgain(c) ==
  /\ At(c, "add") /\ Goto(c, "show")
  /\ iCounter' = (iCounter + 1) % CounterSpan
  /\ UNCHANGED <<mutexValue, mutexOwner, leds, value, shown>>

Slip_Saturates(c) ==
  /\ At(c, "add") /\ Goto(c, "read")
  /\ iCounter' = IF iCounter + 1 < CounterSpan THEN iCounter + 1 ELSE iCounter
  /\ UNCHANGED <<mutexValue, mutexOwner, leds, value, shown>>

(* A write to address 7 adds what is written.                              *)
Add(c) ==
  /\ At(c, "add") /\ Goto(c, "read")
  /\ iCounter' = (iCounter + 1) % CounterSpan
  /\ UNCHANGED <<mutexValue, mutexOwner, leds, value, shown>>

ReadCounter(c) ==
  /\ At(c, "read") /\ Goto(c, "show")
  /\ value' = [value EXCEPT ![c] = iCounter]
  /\ UNCHANGED <<mutexValue, mutexOwner, iCounter, leds, shown>>

(* The port is narrower than the value.                                    *)
Show(c) ==
  /\ At(c, "show") /\ Goto(c, "unlock")
  /\ leds' = value[c] % LedSpan
  /\ shown' = 1
  /\ UNCHANGED <<mutexValue, mutexOwner, iCounter, value>>

(* altera_avalon_mutex_unlock.                                             *)
Unlock(c) ==
  /\ At(c, "unlock") /\ Goto(c, "delay")
  /\ MutexWrite(c, 0)
  /\ UNCHANGED <<iCounter, leds, value, shown>>

(* The board's reset restarts both programs and clears the mutex and the   *)
(* LEDs; the counter register has no reset and keeps its count.            *)
Reset ==
  /\ mutexValue' = 0 /\ mutexOwner' = 0 /\ leds' = 0
  /\ pc' = [c \in CPU |-> "delay"]
  /\ value' = [c \in CPU |-> 0]
  /\ shown' = 0
  /\ UNCHANGED iCounter

Step(c) ==
  Delay(c) \/ TryLock(c) \/ CheckLock(c) \/ Add(c) \/ ReadCounter(c) \/ Show(c) \/ Unlock(c)

Next == (\E c \in CPU : Step(c)) \/ Reset

Spec == Init /\ [][Next]_vars

(* Each processor keeps running, and after some last reset the board is    *)
(* left alone.  Nothing makes the mutex fair to one of them.               *)
FairSpec ==
  /\ Spec
  /\ \A c \in CPU : WF_vars(Step(c))
  /\ <>[][\E c \in CPU : Step(c)]_vars

-----------------------------------------------------------------------------
TypeOK ==
  /\ mutexValue \in {0, LockValue} /\ mutexOwner \in CPU
  /\ iCounter \in 0 .. CounterSpan - 1
  /\ leds \in 0 .. LedSpan - 1
  /\ pc \in [CPU -> {"delay", "lock", "check"} \cup Critical]
  /\ value \in [CPU -> 0 .. CounterSpan - 1]
  /\ shown \in {0, 1}

(* The mutex does its work: no two processors are between lock and unlock. *)
MutualExclusion ==
  \A c, d \in CPU : pc[c] \in Critical /\ pc[d] \in Critical => c = d

(* No count goes unseen: a processor adds one only when the number before  *)
(* it is on the LEDs, so every number appears there, by whoever it was     *)
(* counted.  A reset starts the display afresh.                            *)
EveryCountIsShown ==
  [][iCounter' # iCounter /\ shown = 1 => leds = iCounter % LedSpan]_vars

(* What a processor puts on the LEDs is the present count, not one that    *)
(* the other has moved on from since it was read.                          *)
ShownValueIsCurrent ==
  [][\A c \in CPU : pc[c] = "show" /\ pc'[c] = "unlock" => leds' = iCounter % LedSpan]_vars

(* The LEDs count for ever: one of the processors always gets the mutex.   *)
LedsKeepCounting == \A n \in 0 .. LedSpan - 1 : []<>(leds = n)

(* The inductive invariant: who is between lock and unlock owns the mutex, *)
(* holds a current value when about to show it, and when nobody is between *)
(* the addition and the display the two agree.                             *)
IInv ==
  /\ TypeOK
  /\ \A c \in CPU : pc[c] \in Critical => mutexOwner = c /\ mutexValue = LockValue
  /\ \A c \in CPU : pc[c] = "show" => value[c] = iCounter
  /\ shown = 1 => \/ leds = iCounter % LedSpan
                  \/ \E c \in CPU : pc[c] \in {"read", "show"}
=============================================================================
