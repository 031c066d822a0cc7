----------------------------- MODULE CallRecord -----------------------------
(***************************************************************************)
(* What a call of the driver leaves in memory, said with a record of the   *)
(* last call: the memory it found, its arguments, and how many words it    *)
(* has handled so far.  The record is kept beside a system that moves the  *)
(* words, BitReshuffle or the clocked one, and is read by none of its      *)
(* actions.                                                                *)
(***************************************************************************)
EXTENDS WordMemory

VARIABLES before, args, handled

record == <<before, args, handled>>
noArgs == [src |-> 0, dst |-> 0, lgt |-> 0]

RecordInit == before = mem /\ args = noArgs /\ handled = 0
RecordCall(j) == before' = mem /\ args' = j /\ handled' = 0
RecordWord == handled' = handled + 1 /\ UNCHANGED <<before, args>>

(* The words the call has handled, by their number, and where the k-th one *)
(* comes from and goes to.                                                 *)
Done == 0 .. handled - 1
SourceWord(k) == WordOf(NthAddress(args.src, k))
ResultWord(k) == WordOf(NthAddress(args.dst, k))

(* The k-th source word was not overwritten before it was read, and the    *)
(* k-th result not after it was written.                                   *)
Undisturbed(k) ==
  /\ \A i \in 0 .. k - 1 : ResultWord(i) # SourceWord(k)
  /\ \A i \in k + 1 .. args.lgt : ResultWord(i) # ResultWord(k)

(* What bit_reshuffle_hardware_accelerator leaves in the result array: the *)
(* transform of the words that were in the data array, in order, wherever  *)
(* the arrays overlap in a way that does not destroy a word before its     *)
(* turn; in place is such an overlap.                                      *)
ResultIsTheTransform ==
  \A k \in Done : Undisturbed(k) => mem[ResultWord(k)] = Transform[before[SourceWord(k)]]

(* And nothing else changes, at any time during the call.                  *)
RestIsUntouched ==
  \A w \in WordIndex : w \notin {ResultWord(k) : k \in Done} => mem[w] = before[w]
=============================================================================
