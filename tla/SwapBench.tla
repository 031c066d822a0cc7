----------------------------- MODULE SwapBench -----------------------------
(***************************************************************************)
(* The accelerator alone on a bench, as swap_tb.vhd exercises it: a bus    *)
(* master that may do anything the slave port accepts, in any cycle and    *)
(* back to back (the test bench holds sWrite for five cycles on end and    *)
(* start for two), a memory that stalls as it likes, and nReset at any     *)
(* time.  No driver keeps the accelerator to one run at a time.            *)
(***************************************************************************)
EXTENDS SwapAccelerator

CONSTANTS
  InitMem,     (* contents of the memory at power-up                       *)
  Source, Destination, Length   (* what the master writes to a parameter   *)

ASSUME BenchAssumption ==
  /\ InitMem \in [WordIndex -> Word]
  /\ Source \subseteq Addr /\ Destination \subseteq Addr /\ Length \subseteq Lgt

VARIABLES
  loaded,   (* history: the parameters the counters were loaded with       *)
  cut,      (* history: 1 from a reset until IDLE sees the next start      *)
  sent      (* history: write requests made since that reset, 2 for more   *)

vars == <<hwVars, loaded, cut, sent>>

noParameters == [src |-> 0, dst |-> 0, lgt |-> 0]

Init ==
  /\ HwInit
  /\ mem = InitMem
  /\ loaded = noParameters /\ cut = 0 /\ sent = 0

(* Every write the slave decodes, and reads of the two flags (SwapSystem   *)
(* reads the parameters back).                                             *)
Accesses ==
  {NoAccess}
  \cup {WriteTo(0, d) : d \in Source} \cup {WriteTo(1, d) : d \in Length}
  \cup {WriteTo(2, d) : d \in Bit} \cup {WriteTo(3, d) : d \in Destination}
  \cup {ReadFrom(a) : a \in {2, 5}}

Clock(acc) ==
  /\ Edge(acc)
  /\ loaded' = IF state = "LOAD_PARAMETERS"
               THEN [src |-> RegAddStart, dst |-> ResultRegAddStart, lgt |-> RegLgt]
               ELSE loaded
  /\ cut' = IF state = "IDLE" /\ start = 1 THEN 0 ELSE cut
  /\ sent' = IF cut = 1 /\ state = "SEND_WRITE_REQUEST" /\ sent < 2 THEN sent + 1 ELSE sent

(* The counters are cleared with the rest, whatever the FSM was doing.     *)
Reset ==
  /\ ResetEdge
  /\ loaded' = noParameters /\ cut' = 1 /\ sent' = 0

Next == (\E acc \in Accesses : Clock(acc)) \/ Reset

(* The clock runs, the memory does not stall for ever, and however often   *)
(* the accelerator is reset it gets clocked cycles between, some of them   *)
(* with the memory ready.                                                  *)
ClockTicks == \E acc \in Accesses : Clock(acc)
Fairness ==
  /\ WF_vars(ClockTicks)
  /\ WF_vars(ClockTicks /\ mWaitRequest' = 0)
  /\ SF_vars(ClockTicks /\ mWaitRequest = 0)

Spec == Init /\ [][Next]_vars
FairSpec == Spec /\ Fairness

-----------------------------------------------------------------------------
TypeOK ==
  /\ HwTypeOK
  /\ loaded \in [src : Addr, dst : Addr, lgt : Lgt]
  /\ cut \in Bit /\ sent \in 0 .. 2

(* The address of the word at hand, counted from the parameters the run    *)
(* was loaded with.                                                        *)
AtHand(a) == NthAddress(a, loaded.lgt - CntLgt)

(* The working copies "retain consistency in addresses and array length in *)
(* case slave changes them during the computation" (report.tex:358): both  *)
(* addresses and the count stay in step with the parameters of the load,   *)
(* and so do the requests made from them, whatever the master writes.      *)
RetainsParameters ==
  state \notin {"IDLE", "LOAD_PARAMETERS"} =>
    /\ CntAdd = AtHand(loaded.src) /\ CntResultAdd = AtHand(loaded.dst)
    /\ cut = 0 /\ mRead = 1 => mAddress = AtHand(loaded.src)
    /\ cut = 0 /\ mWrite = 1 => mAddress = AtHand(loaded.dst)

(* finish says that no run is under way, whoever started it and however    *)
(* often start was written.                                                *)
FinishMeansIdle == finish = 1 => state = "IDLE" /\ mRead = 0 /\ mWrite = 0

(* A reset clears the counters but not the FSM, which goes on with what it *)
(* was doing (swap.vhd:84-89 against 38-39).  What is left of the cut run  *)
(* is the request in flight, or else one word written to address 0.        *)
ResidueIsOneWord ==
  cut = 1 =>
    /\ sent <= 1
    /\ sent = 1 /\ mWrite = 1 => mAddress = 0
    /\ state \notin {"IDLE", "LOAD_PARAMETERS"} => CntLgt = 0

(* The inductive invariant behind the four above: the counters follow the  *)
(* parameters of the load; a request is at the counters unless a reset has *)
(* cleared them since; after a reset the parameters stay at 0 until they   *)
(* are loaded, and the one word is sent on the way back to IDLE.           *)
Loading == state = "LOAD_PARAMETERS"
Working == state \notin {"IDLE", "LOAD_PARAMETERS"}

InStep ==
  /\ Working => CntAdd = AtHand(loaded.src) /\ CntResultAdd = AtHand(loaded.dst)
  /\ cut = 0 /\ state = "WAIT_RD" => mAddress = CntAdd
  /\ cut = 0 /\ state = "WAIT_FOR_WRITE" => mAddress = CntResultAdd

AfterReset ==
  cut = 1 =>
    /\ Loading => RegLgt = 0 /\ ResultRegAddStart = 0
    /\ Working => CntLgt = 0 /\ CntResultAdd = 0
    /\ sent <= 1
    /\ sent = 1 => state \in {"WAIT_FOR_WRITE", "IDLE"} /\ (mWrite = 1 => mAddress = 0)

IInv ==
  /\ TypeOK
  /\ RequestMatchesState
  /\ finish = 1 => state = "IDLE"
  /\ InStep
  /\ AfterReset

(* A request outlives stalls and resets unchanged until memory takes it.   *)
HoldsRequests == [][HoldsRequest]_vars

(* The FSM always comes back to IDLE, where it can see a start, as long as *)
(* the accelerator is not reset for ever.                                  *)
ComesBackToIdle == []<>(state = "IDLE")
=============================================================================
