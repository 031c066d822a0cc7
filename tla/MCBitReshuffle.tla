--------------------------- MODULE MCBitReshuffle ---------------------------
(* BitReshuffle over every pair of word addresses in 32 bytes of memory    *)
(* and every length up to 3, with a record of the call, so that what it    *)
(* did can be compared with what it found.                                 *)
EXTENDS BitReshuffle, CallRecord

MCWord == 0 .. 8
MCTransform == [w \in MCWord |-> 8 - w]
MCInitMem == [i \in WordIndex |-> i + 1]
MCJobs == [src : {4 * i : i \in WordIndex}, dst : {4 * i : i \in WordIndex}, lgt : Lgt]

VARIABLE calls

MaxCalls == 1

MCInit ==
  /\ Init /\ src = 0 /\ dst = 0
  /\ RecordInit /\ calls = 0

MCBegin(j) ==
  /\ calls < MaxCalls
  /\ Begin(j)
  /\ RecordCall(j) /\ calls' = calls + 1

MCNext ==
  \/ \E j \in Jobs : MCBegin(j)
  \/ CopyWord /\ RecordWord /\ UNCHANGED calls
  \/ Return /\ UNCHANGED <<record, calls>>

MCSpec == MCInit /\ [][MCNext]_<<vars, record, calls>>
=============================================================================
