--------------------------- MODULE JtagUart_proofs ---------------------------
(***************************************************************************)
(* The JTAG UART driver for every size of the rings and of the device, any *)
(* timeouts, any lengths of the calls and any programs: that bytes go      *)
(* through in order, what calls, handler and timeout routine keep of the   *)
(* interrupt enables, and when the host is declared gone.                  *)
(***************************************************************************)
EXTENDS JtagUart, SequenceTheorems, TLAPS

(* The ranges the other facts need: positions lie in the ring, a call      *)
(* moves no more than it was asked for, and a read copies within the ring. *)
Ranges ==
  /\ tx_in \in Index /\ tx_out \in Index /\ rx_in \in Index /\ rx_out \in Index
  /\ in \in Nat /\ out \in Nat /\ n \in Nat
  /\ count \in Nat /\ sent \in Nat
  /\ rx_buf \in [Index -> Nat] /\ rfifo \in Seq(Nat) /\ copied \in Seq(Nat)
  /\ pc \in {"fill", "publish", "copy", "free"} => n <= count
  /\ pc = "copy" => out + n <= BUF_LEN

(* A read that has copied something holds it, and a handler that stopped   *)
(* for lack of a byte left none.                                           *)
ReadHolds ==
  /\ pc \in {"copy", "free"} => n > 0
  /\ pc = "free" => copied # <<>>
  /\ hpc = "received" => left = 0

(* The callbacks without activity are at least the seconds counted.        *)
SecondsAreQuiet ==
  /\ timeout \in Nat /\ host_inactive \in 0 .. INT_MAX - 2 /\ quiet \in 0 .. INT_MAX - 1
  /\ ac \in {0, 1} /\ (ac = 0 => quiet >= host_inactive + 1)

-----------------------------------------------------------------------------
(* Positions in the ring.                                                  *)
LEMMA AdvanceType ==
  ASSUME NEW i \in Nat, NEW k \in Nat
  PROVE  Advance(i, k) \in Index
<1>1. i + k \in Nat /\ BUF_LEN \in Nat \ {0}
  BY RingAssumption
<1>2. QED
  BY <1>1 DEF Advance, Index

(* One step round the ring leaves the position it came from.               *)
LEMMA AdvanceMoves ==
  ASSUME NEW i \in Index
  PROVE  Advance(i, 1) # i
<1>1. CASE i = BUF_LEN - 1
  <2>1. Advance(i, 1) = BUF_LEN % BUF_LEN
    BY <1>1, RingAssumption DEF Advance, Index
  <2>2. BUF_LEN % BUF_LEN = 0
    BY RingAssumption
  <2>3. QED
    BY <1>1, <2>1, <2>2, RingAssumption
<1>2. CASE i # BUF_LEN - 1
  <2>1. i + 1 \in 0 .. BUF_LEN - 1
    BY <1>2, RingAssumption DEF Index
  <2>2. (i + 1) % BUF_LEN = i + 1
    BY <2>1, RingAssumption
  <2>3. QED
    BY <2>2, RingAssumption DEF Advance, Index
<1>3. QED
  BY <1>1, <1>2

(* A byte number is a natural number.                                      *)
LEMMA NumberType ==
  ASSUME NEW b \in Nat, NEW k \in Nat
  PROVE  Number(b, k) \in Nat
<1>1. b + k \in Nat /\ Span \in Nat \ {0}
  BY SpanAssumption, RingAssumption, DepthAssumption
<1>2. QED
  BY <1>1 DEF Number

-----------------------------------------------------------------------------
(* Calls, handler and timeout routine keep the driver's copy of the        *)
(* interrupt enables equal to the register.                                *)
LEMMA CopyStep ==
  ASSUME CopyIsTheRegister, [Next]_vars
  PROVE  CopyIsTheRegister'
<1> USE DEF CopyIsTheRegister, deviceVars, WriteControl, HandlerStep
<1>1. CASE Handler
  BY <1>1 DEF Handler, Enter, ReadControl, Receive, ReceiveEnds, Transmit, TransmitEnds,
              ReadData, WriteData
<1>2. CASE Second
  BY <1>2 DEF Second, CheckHost
<1>3. CASE Starts
  BY <1>3 DEF Starts, Call, PrintInHandler, SetTimeout, TakeTimer
<1>4. CASE Write \/ CloseEnds
  BY <1>4 DEF Write, SampleRoom, Fill, Publish, Kick, WriteWakes, WriteGoesOn, CloseEnds, Unblock
<1>5. CASE Read
  BY <1>5 DEF Read, SampleReady, Copy, Free, Enable, ReadWakes, ReadGoesOn, Unblock
<1>6. CASE Host
  BY <1>6 DEF Host, Takes, Sends, Pauses, HostTakes, HostSends, HostPauses, HostStep
<1>7. CASE UNCHANGED vars
  BY <1>7 DEF vars
<1>8. QED
  BY <1>1, <1>2, <1>3, <1>4, <1>5, <1>6, <1>7 DEF Next

(* Whoever fills the ring enables the interrupt after it, and the handler  *)
(* disables it only over an empty ring.                                    *)
LEMMA KickStep ==
  ASSUME KickIsNotLost, [Next]_vars
  PROVE  KickIsNotLost'
<1> USE DEF KickIsNotLost, At, CallStep, Locals, HandlerStep, callVars, ringVars
<1>1. CASE Handler
  BY <1>1 DEF Handler, Enter, ReadControl, Receive, ReceiveEnds, Transmit, TransmitEnds
<1>2. CASE Second
  BY <1>2 DEF Second
<1>3. CASE Starts
  BY <1>3 DEF Starts, Call, PrintInHandler, SetTimeout, TakeTimer
<1>4. CASE Write \/ CloseEnds
  BY <1>4 DEF Write, SampleRoom, Fill, Publish, Kick, WriteWakes, WriteGoesOn, CloseEnds, Unblock, Return
<1>5. CASE Read
  BY <1>5 DEF Read, SampleReady, Copy, Free, Enable, ReadWakes, ReadGoesOn, Unblock, Return
<1>6. CASE Host
  BY <1>6 DEF Host, Takes, Sends, Pauses, HostStep
<1>7. CASE UNCHANGED vars
  BY <1>7 DEF vars
<1>8. QED
  BY <1>1, <1>2, <1>3, <1>4, <1>5, <1>6, <1>7 DEF Next

-----------------------------------------------------------------------------
(* What a call may copy in one piece, is a number of bytes within its own  *)
(* count and, for a read, within the ring.                                 *)
LEMMA RoomType ==
  ASSUME NEW i \in Index, NEW o \in Index, NEW c \in Nat
  PROVE  Least(Room(i, o), c) \in 0 .. c
BY RingAssumption DEF Least, Room, Index

(* The same for read, which copies up to the end of the ring.              *)
LEMMA ReadyType ==
  ASSUME NEW i \in Index, NEW o \in Index, NEW c \in Nat
  PROVE  Least(Ready(i, o), c) \in 0 .. c /\ o + Least(Ready(i, o), c) <= BUF_LEN
BY RingAssumption DEF Least, Ready, Index

(* The locals of no call are in range.                                     *)
LEMMA ReturnRanges ==
  ASSUME Return
  PROVE  /\ in' \in Nat /\ out' \in Nat /\ n' \in Nat /\ count' \in Nat
         /\ copied' \in Seq(Nat) /\ pc' = "ready"
<1>1. <<>> \in Seq(Nat)
  OBVIOUS
<1>2. QED
  BY <1>1 DEF Return

(* A step keeps the ranges.                                                *)
LEMMA RangesStep ==
  ASSUME Ranges, [Next]_vars
  PROVE  Ranges'
<1> USE DEF Ranges, At, CallStep, Locals, HandlerStep, HostStep, callVars, ringVars, deviceVars,
            flags, history, WriteControl
<1>1. CASE Handler
  <2>1. CASE Receive
    <3>1. PICK valid \in BOOLEAN :
            /\ ReadData(valid, left')
            /\ valid => /\ rx_buf' = [rx_buf EXCEPT ![rx_in] = Head(rfifo)]
                        /\ rx_in' = Advance(rx_in, 1)
            /\ ~valid => UNCHANGED <<rx_buf, rx_in>>
      BY <2>1 DEF Receive
    <3>2. CASE valid
      <4>1. rfifo # <<>> /\ rfifo' = Tail(rfifo)
        BY <3>1, <3>2 DEF ReadData
      <4>2. rfifo' \in Seq(Nat) /\ Head(rfifo) \in Nat
        BY <4>1
      <4>3. rx_in \in Nat
        BY RingAssumption DEF Index
      <4>4. rx_in' \in Index
        BY <3>1, <3>2, <4>3, AdvanceType
      <4>5. QED
        BY <2>1, <3>1, <3>2, <4>2, <4>4 DEF Receive
    <3>3. CASE ~valid
      BY <2>1, <3>1, <3>3 DEF Receive, ReadData
    <3>4. QED
      BY <3>2, <3>3
  <2>2. CASE Transmit
    <3>1. tx_out \in Nat
      BY RingAssumption DEF Index
    <3>2. tx_out' \in Index
      BY <2>2, <3>1, AdvanceType DEF Transmit
    <3>3. QED
      BY <2>2, <3>2 DEF Transmit, WriteData
  <2>3. CASE Enter \/ ReadControl \/ ReceiveEnds \/ TransmitEnds
    BY <2>3 DEF Enter, ReadControl, ReceiveEnds, TransmitEnds
  <2>4. QED
    BY <1>1, <2>1, <2>2, <2>3 DEF Handler
<1>2. CASE Second
  BY <1>2 DEF Second, CheckHost
<1>3. CASE Starts
  <2>1. ASSUME NEW op \in {"write", "read", "close"}, Call(op) PROVE Ranges'
    <3>1. count' \in Nat
      <4>1. count' \in (IF op = "close" THEN {0} ELSE Counts)
        BY <2>1 DEF Call
      <4>2. CASE op = "close"
        BY <4>1, <4>2
      <4>3. CASE op # "close"
        <5>1. count' \in Counts /\ Counts \subseteq Nat
          BY <4>1, <4>3, CallsAssumption
        <5>2. QED
          BY <5>1
      <4>4. QED
        BY <4>2, <4>3
    <3>2. pc' \in {"write", "read", "close"}
      BY <2>1 DEF Call
    <3>3. QED
      BY <2>1, <3>1, <3>2 DEF Call
  <2>2. CASE PrintInHandler
    <3>1. count' \in Nat
      BY <2>2, CallsAssumption DEF PrintInHandler
    <3>2. QED
      BY <2>2, <3>1 DEF PrintInHandler
  <2>3. CASE SetTimeout \/ TakeTimer
    BY <2>3 DEF SetTimeout, TakeTimer
  <2>4. QED
    BY <1>3, <2>1, <2>2, <2>3 DEF Starts
<1>4. CASE Write \/ CloseEnds
  <2>1. CASE SampleRoom
    <3>1. n' \in 0 .. count
      BY <2>1, RoomType DEF SampleRoom
    <3>2. in' \in Nat /\ out' \in Nat /\ n' \in Nat /\ n' <= count'
      BY <2>1, <3>1, RingAssumption DEF SampleRoom, Index
    <3>3. QED
      BY <2>1, <3>2 DEF SampleRoom
  <2>2. CASE Fill
    BY <2>2 DEF Fill
  <2>3. CASE Publish
    <3>1. tx_in' \in Index /\ count' \in Nat
      BY <2>3, AdvanceType DEF Publish
    <3>2. QED
      BY <2>3, <3>1 DEF Publish
  <2>4. CASE Kick
    <3>1. CASE count > 0 /\ ~nonblock
      BY <2>4, <3>1 DEF Kick
    <3>2. CASE ~(count > 0 /\ ~nonblock)
      BY <2>4, <3>2, ReturnRanges DEF Kick
    <3>3. QED
      BY <3>1, <3>2
  <2>5. CASE WriteWakes \/ WriteGoesOn \/ CloseEnds
    BY <2>5, ReturnRanges DEF WriteWakes, WriteGoesOn, CloseEnds, Unblock
  <2>6. QED
    BY <1>4, <2>1, <2>2, <2>3, <2>4, <2>5 DEF Write
<1>5. CASE Read
  <2>1. CASE SampleReady
    <3>1. CASE rx_in = rx_out /\ copied = <<>> /\ nonblock
      BY <2>1, <3>1 DEF SampleReady, Return
    <3>2. CASE ~(rx_in = rx_out /\ copied = <<>> /\ nonblock)
      <4>1. n' = Least(Ready(rx_in, rx_out), count) /\ out' = rx_out
        BY <2>1, <3>2 DEF SampleReady
      <4>2. n' \in 0 .. count /\ out' + n' <= BUF_LEN
        BY <4>1, ReadyType
      <4>3. in' \in Nat /\ out' \in Nat /\ n' \in Nat /\ n' <= count'
        <5>1. in' = rx_in /\ out' = rx_out /\ UNCHANGED <<count, copied>>
          BY <2>1, <3>2 DEF SampleReady
        <5>2. QED
          BY <4>2, <5>1, RingAssumption DEF Index
      <4>4. QED
        BY <2>1, <3>2, <4>2, <4>3 DEF SampleReady
    <3>3. QED
      BY <3>1, <3>2
  <2>2. CASE Copy
    <3>1. \A j \in 1 .. n : rx_buf[out + j - 1] \in Nat
      BY <2>2, RingAssumption DEF Copy, Index
    <3>2. [j \in 1 .. n |-> rx_buf[out + j - 1]] \in Seq(Nat)
      BY <3>1
    <3>3. copied' \in Seq(Nat)
      BY <2>2, <3>2 DEF Copy
    <3>4. QED
      BY <2>2, <3>3 DEF Copy
  <2>3. CASE Free
    <3>1. rx_out' \in Index /\ count' \in Nat
      BY <2>3, AdvanceType DEF Free
    <3>2. QED
      BY <2>3, <3>1 DEF Free
  <2>4. CASE Enable \/ ReadWakes \/ ReadGoesOn
    BY <2>4, ReturnRanges DEF Enable, ReadWakes, ReadGoesOn, Unblock
  <2>5. QED
    BY <1>5, <2>1, <2>2, <2>3, <2>4 DEF Read
<1>6. CASE Host
  <2>1. CASE Sends
    <3>1. Number(sent, 1) \in Nat
      BY NumberType
    <3>2. Append(rfifo, sent) \in Seq(Nat)
      OBVIOUS
    <3>3. QED
      BY <2>1, <3>1, <3>2 DEF Sends, HostSends
  <2>2. CASE Takes \/ Pauses
    BY <2>2 DEF Takes, Pauses, HostTakes, HostPauses
  <2>3. QED
    BY <1>6, <2>1, <2>2 DEF Host
<1>7. CASE UNCHANGED vars
  BY <1>7 DEF vars
<1>8. QED
  BY <1>1, <1>2, <1>3, <1>4, <1>5, <1>6, <1>7 DEF Next
(* The ranges hold at the start.                                           *)
LEMMA RangesInit == Init => Ranges
BY RingAssumption DEF Init, DeviceInit, Ranges, Index

-----------------------------------------------------------------------------
(* Receiving goes off only over a full ring, and the read that empties the *)
(* ring does not forget that it has.                                       *)
LEMMA ReceiverStep ==
  ASSUME Ranges, ReadHolds, ReceiverIsNotDeaf, [Next]_vars
  PROVE  ReadHolds' /\ ReceiverIsNotDeaf'
<1> USE DEF ReadHolds, ReceiverIsNotDeaf, At, CallStep, Locals, HandlerStep, HostStep,
            callVars, handlerVars, ringVars
<1>1. CASE Handler
  <2>1. CASE Receive
    <3>1. PICK valid \in BOOLEAN :
            /\ ReadData(valid, left')
            /\ valid => rx_in' = Advance(rx_in, 1) /\ hpc' = hpc
            /\ ~valid => rx_in' = rx_in /\ hpc' = "received"
      BY <2>1 DEF Receive
    <3>2. ~valid => left' = 0
      <4>1. SUFFICES ASSUME ~valid PROVE left' = 0
        OBVIOUS
      <4>2. rfifo = <<>> /\ rfifo' = rfifo /\ left' = Len(rfifo')
        BY <3>1, <4>1 DEF ReadData
      <4>3. QED
        BY <4>2
    <3>3. QED
      BY <2>1, <3>1, <3>2 DEF Receive, RxFull
  <2>2. CASE ReceiveEnds
    <3>1. left > 0 => rx_in # rx_out
      BY <2>2, AdvanceMoves DEF ReceiveEnds, RxFull, Ranges
    <3>2. QED
      BY <2>2, <3>1 DEF ReceiveEnds
  <2>3. CASE Enter \/ ReadControl \/ Transmit \/ TransmitEnds
    BY <2>3 DEF Enter, ReadControl, Transmit, TransmitEnds
  <2>4. QED
    BY <1>1, <2>1, <2>2, <2>3 DEF Handler
<1>2. CASE Second
  BY <1>2 DEF Second
<1>3. CASE Starts
  BY <1>3 DEF Starts, Call, PrintInHandler, SetTimeout, TakeTimer
<1>4. CASE Write \/ CloseEnds
  BY <1>4 DEF Write, SampleRoom, Fill, Publish, Kick, WriteWakes, WriteGoesOn, CloseEnds, Unblock, Return
<1>5. CASE Read
  <2>1. CASE SampleReady
    <3>1. CASE rx_in = rx_out /\ copied = <<>> /\ nonblock
      BY <2>1, <3>1 DEF SampleReady, Return
    <3>2. CASE ~(rx_in = rx_out /\ copied = <<>> /\ nonblock)
      <4>1. n' = Least(Ready(rx_in, rx_out), count)
        BY <2>1, <3>2 DEF SampleReady
      <4>2. rx_in = rx_out => ~(n' > 0)
        BY <4>1, RingAssumption DEF Least, Ready, Ranges, Index
      <4>3. QED
        BY <2>1, <3>2, <4>2 DEF SampleReady
    <3>3. QED
      BY <3>1, <3>2
  <2>2. CASE Copy
    <3>1. Len(copied') > 0
      BY <2>2 DEF Copy, Ranges
    <3>2. copied' # <<>>
      BY <3>1
    <3>3. QED
      BY <2>2, <3>2 DEF Copy
  <2>3. CASE Free
    BY <2>3 DEF Free
  <2>4. CASE Enable
    BY <2>4 DEF Enable, Return
  <2>5. CASE ReadWakes \/ ReadGoesOn
    <3>1. pc' \in {"read", "ready", "read woken"} /\ re' = re /\ rx_in' = rx_in /\ rx_out' = rx_out /\ hpc' = hpc /\ left' = left
      BY <2>5 DEF ReadWakes, ReadGoesOn, Unblock, Return
    <3>2. QED
      BY <2>5, <3>1 DEF ReadWakes, ReadGoesOn
  <2>6. QED
    BY <1>5, <2>1, <2>2, <2>3, <2>4, <2>5 DEF Read
<1>6. CASE Host
  BY <1>6 DEF Host, Takes, Sends, Pauses
<1>7. CASE UNCHANGED vars
  BY <1>7 DEF vars
<1>8. QED
  BY <1>1, <1>2, <1>3, <1>4, <1>5, <1>6, <1>7 DEF Next

-----------------------------------------------------------------------------
(* The timeout routine counts no faster than silence lasts.                *)
LEMMA QuietStep ==
  ASSUME SecondsAreQuiet, [Next]_vars
  PROVE  /\ SecondsAreQuiet'
         /\ timeout' = timeout /\ host_inactive < timeout /\ host_inactive' >= timeout
              => quiet >= timeout
<1> USE DEF SecondsAreQuiet, HandlerStep, HostStep, CallStep, WriteControl, deviceVars,
            hostVars, history
<1>1. CASE Second
  <2>1. /\ CheckHost /\ timeout' = timeout
        /\ quiet' = Least(quiet + 1, INT_MAX - 1)
    BY <1>1 DEF Second
  <2>2. INT_MAX \in Nat /\ INT_MAX > 3
    BY TimeoutAssumption
  <2>3. /\ quiet' \in 0 .. INT_MAX - 1 /\ quiet' >= 1
        /\ quiet' = quiet + 1 \/ quiet' = INT_MAX - 1
    BY <2>1, <2>2 DEF Least
  <2>4. CASE ac = 1
    BY <2>1, <2>2, <2>3, <2>4 DEF CheckHost
  <2>5. CASE ac # 1
    <3>1. ac' = ac /\ host_inactive' = IF host_inactive < INT_MAX - 2 THEN host_inactive + 1 ELSE host_inactive
      BY <2>1, <2>5 DEF CheckHost
    <3>2. ac = 0
      BY <2>5
    <3>3. QED
      BY <2>1, <2>2, <2>3, <3>1, <3>2
  <2>6. QED
    BY <2>4, <2>5
<1>2. CASE Handler
  BY <1>2 DEF Handler, Enter, ReadControl, Receive, ReceiveEnds, Transmit, TransmitEnds,
              ReadData, WriteData
<1>3. CASE Starts
  <2>1. CASE SetTimeout
    <3>1. timeout' \in Nat
      BY <2>1, TimeoutAssumption DEF SetTimeout
    <3>2. UNCHANGED <<host_inactive, quiet, ac>>
      BY <2>1 DEF SetTimeout
    <3>3. QED
      BY <3>1, <3>2
  <2>2. (\E op \in {"write", "read", "close"} : Call(op)) \/ PrintInHandler \/ TakeTimer
          => UNCHANGED <<timeout, host_inactive, quiet, ac>>
    BY DEF Call, PrintInHandler, TakeTimer
  <2>3. QED
    BY <1>3, <2>1, <2>2 DEF Starts
<1>4. CASE Write \/ CloseEnds
  <2>1. UNCHANGED <<timeout, host_inactive, quiet, ac>>
    BY <1>4 DEF Write, SampleRoom, Fill, Publish, Kick, WriteWakes, WriteGoesOn, CloseEnds, Unblock
  <2>2. QED
    BY <2>1
<1>5. CASE Read
  <2>1. UNCHANGED <<timeout, host_inactive, quiet, ac>>
    BY <1>5 DEF Read, SampleReady, Copy, Free, Enable, ReadWakes, ReadGoesOn, Unblock
  <2>2. QED
    BY <2>1
<1>6. CASE Host
  BY <1>6, TimeoutAssumption DEF Host, Takes, Sends, Pauses, HostTakes, HostSends, HostPauses
<1>7. CASE UNCHANGED vars
  BY <1>7 DEF vars
<1>8. QED
  BY <1>1, <1>2, <1>3, <1>4, <1>5, <1>6, <1>7 DEF Next

-----------------------------------------------------------------------------
(* Quotient and remainder are unique.                                      *)
LEMMA MultipleIsLarge ==
  ASSUME NEW m \in Nat, m > 0, NEW d \in Int
  PROVE  (d >= 1 => m * d >= m) /\ (d <= -1 => m * d <= -m)
OBVIOUS

(* What is below the divisor is the remainder.                             *)
LEMMA RemainderIsUnique ==
  ASSUME NEW m \in Nat, m > 0, NEW q \in Int, NEW r \in 0 .. m - 1
  PROVE  (m * q + r) % m = r
<1> DEFINE x == m * q + r  p == x \div m  s == x % m
<1>1. x \in Int
  OBVIOUS
<1>2. x = m * p + s /\ s \in 0 .. m - 1 /\ p \in Int
  BY <1>1
<1>3. m * (q - p) = s - r /\ q - p \in Int
  BY <1>2
<1>4. q - p = 0
  BY <1>2, <1>3, MultipleIsLarge
<1>5. QED
  BY <1>2, <1>3, <1>4

(* Byte numbers wrap; numbering on from a number is numbering from where   *)
(* that one came from.                                                     *)
LEMMA NumberRange ==
  ASSUME NEW b \in Nat, NEW k \in Nat
  PROVE  Number(b, k) \in 0 .. Span - 1
<1>1. b + k \in Nat /\ Span \in Nat \ {0}
  BY SpanAssumption, RingAssumption, DepthAssumption
<1>2. QED
  BY <1>1 DEF Number

(* A number in range is its own first.                                     *)
LEMMA NumberFirst ==
  ASSUME NEW b \in 0 .. Span - 1
  PROVE  Number(b, 0) = b
<1>1. Span \in Nat \ {0}
  BY SpanAssumption, RingAssumption, DepthAssumption
<1>2. b % Span = b
  BY <1>1
<1>3. QED
  BY <1>1, <1>2 DEF Number

(* Numbering on from a number goes on where that one came from.            *)
LEMMA NumberOn ==
  ASSUME NEW b \in Nat, NEW k \in Nat, NEW m \in Nat
  PROVE  Number(Number(b, k), m) = Number(b, k + m)
<1>1. Span \in Nat /\ Span > 0 /\ b + k \in Nat
  BY SpanAssumption, RingAssumption, DepthAssumption
<1> DEFINE x == b + k  q == x \div Span  r == x % Span
           y == r + m  p == y \div Span  s == y % Span
<1>2. x = Span * q + r /\ r \in 0 .. Span - 1 /\ q \in Int
  BY <1>1
<1>3. y \in Nat
  BY <1>1, <1>2
<1>4. y = Span * p + s /\ s \in 0 .. Span - 1 /\ p \in Int
  BY <1>1, <1>3
<1>5. q + p \in Int /\ Span * (q + p) = Span * q + Span * p
  BY <1>1, <1>2, <1>4
<1>6. b + (k + m) = Span * (q + p) + s
  BY <1>1, <1>2, <1>4, <1>5
<1>7. (Span * (q + p) + s) % Span = s
  BY <1>1, <1>4, <1>5, RemainderIsUnique
<1>8. QED
  BY <1>6, <1>7 DEF Number

-----------------------------------------------------------------------------
(* What a ring and a queue hold: the bytes numbered from b on.             *)
RingHolds(buf, i, o, b) == \A j \in 0 .. Held(i, o) - 1 : buf[Advance(o, j)] = Number(b, j)
QueueHolds(q, b) == \A j \in 1 .. Len(q) : q[j] = Number(b, j - 1)

(* Positions and lengths, without remainders.                              *)
LEMMA AdvanceIs ==
  ASSUME NEW i \in Index, NEW k \in 0 .. BUF_LEN
  PROVE  Advance(i, k) = IF i + k < BUF_LEN THEN i + k ELSE i + k - BUF_LEN
<1>1. BUF_LEN \in Nat /\ BUF_LEN > 0 /\ i \in Nat /\ i < BUF_LEN
  BY RingAssumption DEF Index
<1>2. CASE i + k < BUF_LEN
  <2>1. (BUF_LEN * 0 + (i + k)) % BUF_LEN = i + k
    BY <1>1, <1>2, RemainderIsUnique
  <2>2. QED
    BY <1>1, <1>2, <2>1 DEF Advance
<1>3. CASE ~(i + k < BUF_LEN)
  <2>1. i + k - BUF_LEN \in 0 .. BUF_LEN - 1
    BY <1>1, <1>3
  <2>2. (BUF_LEN * 1 + (i + k - BUF_LEN)) % BUF_LEN = i + k - BUF_LEN
    BY <1>1, <2>1, RemainderIsUnique
  <2>3. QED
    BY <1>1, <1>3, <2>2 DEF Advance
<1>4. QED
  BY <1>2, <1>3

(* A ring holds fewer bytes than it has slots, and none if in is out.      *)
LEMMA HeldType ==
  ASSUME NEW i \in Index, NEW o \in Index
  PROVE  Held(i, o) \in 0 .. BUF_LEN - 1 /\ (Held(i, o) = 0 <=> i = o)
BY RingAssumption DEF Held, Index

(* Taking k bytes out: fewer are held, and the others stay where they are. *)
LEMMA TakeOut ==
  ASSUME NEW i \in Index, NEW o \in Index, NEW k \in Nat, k <= Held(i, o)
  PROVE  /\ Advance(o, k) \in Index
         /\ Held(i, Advance(o, k)) = Held(i, o) - k
         /\ \A j \in 0 .. Held(i, o) - k - 1 : Advance(Advance(o, k), j) = Advance(o, k + j)
<1>1. BUF_LEN \in Nat /\ Held(i, o) \in 0 .. BUF_LEN - 1 /\ k \in 0 .. BUF_LEN
  BY RingAssumption, HeldType
<1>2. Advance(o, k) = IF o + k < BUF_LEN THEN o + k ELSE o + k - BUF_LEN
  BY <1>1, AdvanceIs
<1>3. Advance(o, k) \in Index
  BY <1>1, <1>2 DEF Index
<1>4. Held(i, Advance(o, k)) = Held(i, o) - k
  BY <1>1, <1>2 DEF Held, Index
<1>5. ASSUME NEW j \in 0 .. Held(i, o) - k - 1
      PROVE  Advance(Advance(o, k), j) = Advance(o, k + j)
  <2>1. j \in 0 .. BUF_LEN /\ k + j \in 0 .. BUF_LEN
    BY <1>1
  <2>2. Advance(o, k + j) = IF o + (k + j) < BUF_LEN THEN o + (k + j) ELSE o + (k + j) - BUF_LEN
    BY <2>1, AdvanceIs
  <2>3. Advance(Advance(o, k), j) = IF Advance(o, k) + j < BUF_LEN THEN Advance(o, k) + j
                                    ELSE Advance(o, k) + j - BUF_LEN
    BY <1>3, <2>1, AdvanceIs
  <2>4. QED
    BY <1>1, <1>2, <2>1, <2>2, <2>3 DEF Index
<1>6. QED
  BY <1>3, <1>4, <1>5

(* Putting k bytes in, where they fit in one piece: they follow the others *)
(* and overwrite none of them.                                             *)
LEMMA PutIn ==
  ASSUME NEW i \in Index, NEW o \in Index, NEW k \in Nat,
         Held(i, o) + k <= BUF_LEN - 1, i + k <= BUF_LEN
  PROVE  /\ Advance(i, k) \in Index
         /\ Held(Advance(i, k), o) = Held(i, o) + k
         /\ \A j \in 0 .. k - 1 : Advance(o, Held(i, o) + j) = i + j
         /\ \A j \in 0 .. Held(i, o) - 1 : Advance(o, j) \in Index \ (i .. i + k - 1)
<1>1. BUF_LEN \in Nat /\ Held(i, o) \in 0 .. BUF_LEN - 1 /\ k \in 0 .. BUF_LEN
  BY RingAssumption, HeldType
<1>2. Advance(i, k) = IF i + k < BUF_LEN THEN i + k ELSE i + k - BUF_LEN
  BY <1>1, AdvanceIs
<1>3. Advance(i, k) \in Index
  BY <1>1, <1>2 DEF Index
<1>4. Held(Advance(i, k), o) = Held(i, o) + k
  BY <1>1, <1>2 DEF Held, Index
<1>5. ASSUME NEW j \in 0 .. k - 1 PROVE Advance(o, Held(i, o) + j) = i + j
  <2>1. Held(i, o) + j \in 0 .. BUF_LEN
    BY <1>1
  <2>2. Advance(o, Held(i, o) + j) = IF o + (Held(i, o) + j) < BUF_LEN THEN o + (Held(i, o) + j)
                                     ELSE o + (Held(i, o) + j) - BUF_LEN
    BY <2>1, AdvanceIs
  <2>3. QED
    BY <1>1, <2>2 DEF Held, Index
<1>6. ASSUME NEW j \in 0 .. Held(i, o) - 1 PROVE Advance(o, j) \in Index \ (i .. i + k - 1)
  <2>1. j \in 0 .. BUF_LEN
    BY <1>1
  <2>2. Advance(o, j) = IF o + j < BUF_LEN THEN o + j ELSE o + j - BUF_LEN
    BY <2>1, AdvanceIs
  <2>3. QED
    BY <1>1, <2>1, <2>2 DEF Held, Index
<1>7. QED
  BY <1>3, <1>4, <1>5, <1>6

(* What write samples as room fits in one piece, what read samples as      *)
(* ready is held in one piece.                                             *)
LEMMA RoomFits ==
  ASSUME NEW i \in Index, NEW o \in Index, NEW c \in Nat
  PROVE  /\ Held(i, o) + Least(Room(i, o), c) <= BUF_LEN - 1
         /\ i + Least(Room(i, o), c) <= BUF_LEN
BY RingAssumption DEF Least, Room, Held, Index

(* What read samples is held, and lies in one piece.                       *)
LEMMA ReadyFits ==
  ASSUME NEW i \in Index, NEW o \in Index, NEW c \in Nat
  PROVE  /\ Least(Ready(i, o), c) <= Held(i, o)
         /\ o + Least(Ready(i, o), c) <= BUF_LEN
BY RingAssumption DEF Least, Ready, Held, Index

(* The handler's test leaves room for one byte.                            *)
LEMMA OneFits ==
  ASSUME NEW i \in Index, NEW o \in Index, Advance(i, 1) # o
  PROVE  Held(i, o) + 1 <= BUF_LEN - 1 /\ i + 1 <= BUF_LEN
<1>1. Advance(i, 1) = IF i + 1 < BUF_LEN THEN i + 1 ELSE i + 1 - BUF_LEN
  BY RingAssumption, AdvanceIs
<1>2. QED
  BY <1>1, RingAssumption DEF Held, Index

(* A ring that gives k bytes, and one that gets k.                         *)
LEMMA RingTakes ==
  ASSUME NEW buf, NEW i \in Index, NEW o \in Index, NEW b \in Nat, NEW k \in Nat,
         k <= Held(i, o), RingHolds(buf, i, o, b)
  PROVE  RingHolds(buf, i, Advance(o, k), Number(b, k))
<1>1. /\ Held(i, Advance(o, k)) = Held(i, o) - k
      /\ \A j \in 0 .. Held(i, o) - k - 1 : Advance(Advance(o, k), j) = Advance(o, k + j)
  BY TakeOut
<1>2. SUFFICES ASSUME NEW j \in 0 .. Held(i, o) - k - 1
               PROVE  buf[Advance(Advance(o, k), j)] = Number(Number(b, k), j)
  BY <1>1 DEF RingHolds
<1>3. k + j \in 0 .. Held(i, o) - 1 /\ j \in Nat
  BY HeldType, RingAssumption
<1>4. buf[Advance(o, k + j)] = Number(b, k + j)
  BY <1>3 DEF RingHolds
<1>5. QED
  BY <1>1, <1>3, <1>4, NumberOn

(* A ring that gets k bytes behind what it holds.                          *)
LEMMA RingGets ==
  ASSUME NEW buf, NEW i \in Index, NEW o \in Index, NEW b \in Nat, NEW k \in Nat,
         Held(i, o) + k <= BUF_LEN - 1, i + k <= BUF_LEN,
         RingHolds(buf, i, o, b),
         \A j \in 0 .. k - 1 : buf[i + j] = Number(b, Held(i, o) + j)
  PROVE  RingHolds(buf, Advance(i, k), o, b)
<1>1. /\ Held(Advance(i, k), o) = Held(i, o) + k
      /\ \A j \in 0 .. k - 1 : Advance(o, Held(i, o) + j) = i + j
  BY PutIn
<1>2. Held(i, o) \in Nat
  BY HeldType
<1>3. ASSUME NEW j \in 0 .. (Held(i, o) + k) - 1 PROVE buf[Advance(o, j)] = Number(b, j)
  <2>1. CASE j < Held(i, o)
    BY <1>2, <1>3, <2>1 DEF RingHolds
  <2>2. CASE ~(j < Held(i, o))
    <3>1. j - Held(i, o) \in 0 .. k - 1 /\ Held(i, o) + (j - Held(i, o)) = j
      BY <1>2, <1>3, <2>2
    <3>2. Advance(o, j) = i + (j - Held(i, o)) /\ buf[i + (j - Held(i, o))] = Number(b, j)
      BY <1>1, <3>1
    <3>3. QED
      BY <3>2
  <2>3. QED
    BY <2>1, <2>2
<1>4. \A j \in 0 .. Held(Advance(i, k), o) - 1 : buf[Advance(o, j)] = Number(b, j)
  BY <1>1, <1>3
<1>5. QED
  BY <1>4 DEF RingHolds

(* Bytes put behind what is held disturb nothing.                          *)
LEMMA RingKeeps ==
  ASSUME NEW buf, NEW new, NEW i \in Index, NEW o \in Index, NEW b \in Nat, NEW k \in Nat,
         Held(i, o) + k <= BUF_LEN - 1, i + k <= BUF_LEN,
         RingHolds(buf, i, o, b),
         \A p \in Index \ (i .. i + k - 1) : new[p] = buf[p]
  PROVE  RingHolds(new, i, o, b)
BY PutIn DEF RingHolds

(* A queue that loses its first byte, and one that gets the next.          *)
LEMMA QueueTakes ==
  ASSUME NEW q \in Seq(Nat), NEW b \in Nat, q # <<>>, QueueHolds(q, b)
  PROVE  /\ Head(q) = Number(b, 0)
         /\ Tail(q) \in Seq(Nat) /\ Len(Tail(q)) = Len(q) - 1
         /\ QueueHolds(Tail(q), Number(b, 1))
<1>1. Len(q) \in Nat /\ Len(q) >= 1 /\ Head(q) = q[1]
  OBVIOUS
<1>2. Tail(q) \in Seq(Nat) /\ Len(Tail(q)) = Len(q) - 1
  OBVIOUS
<1>3. ASSUME NEW j \in 1 .. Len(Tail(q)) PROVE Tail(q)[j] = Number(Number(b, 1), j - 1)
  <2>1. Tail(q)[j] = q[j + 1] /\ j + 1 \in 1 .. Len(q) /\ j - 1 \in Nat
    BY <1>1, <1>2
  <2>2. q[j + 1] = Number(b, (j + 1) - 1) /\ (j + 1) - 1 = 1 + (j - 1)
    BY <2>1 DEF QueueHolds
  <2>3. Number(Number(b, 1), j - 1) = Number(b, 1 + (j - 1))
    BY <2>1, NumberOn
  <2>4. QED
    BY <2>1, <2>2, <2>3
<1>4. Head(q) = Number(b, 0)
  BY <1>1 DEF QueueHolds
<1>5. QED
  BY <1>2, <1>3, <1>4 DEF QueueHolds

(* A queue that gets the byte that comes next.                             *)
LEMMA QueueGets ==
  ASSUME NEW q \in Seq(Nat), NEW b \in Nat, QueueHolds(q, b),
         NEW e \in Nat, e = Number(b, Len(q))
  PROVE  /\ Append(q, e) \in Seq(Nat) /\ Len(Append(q, e)) = Len(q) + 1
         /\ QueueHolds(Append(q, e), b)
<1>1. Append(q, e) \in Seq(Nat) /\ Len(Append(q, e)) = Len(q) + 1 /\ Len(q) \in Nat
  OBVIOUS
<1>2. ASSUME NEW j \in 1 .. Len(q) + 1 PROVE Append(q, e)[j] = Number(b, j - 1)
  <2>1. CASE j = Len(q) + 1
    <3>1. Append(q, e)[j] = e /\ j - 1 = Len(q)
      BY <1>1, <2>1
    <3>2. QED
      BY <3>1
  <2>2. CASE j # Len(q) + 1
    <3>1. j \in 1 .. Len(q) /\ Append(q, e)[j] = q[j]
      BY <1>1, <2>2
    <3>2. QED
      BY <3>1 DEF QueueHolds
  <2>3. QED
    BY <2>1, <2>2
<1>3. QED
  BY <1>1, <1>2 DEF QueueHolds

(* Two queues one behind the other, and what a queue holds as a sequence.  *)
LEMMA QueuesJoin ==
  ASSUME NEW q \in Seq(Nat), NEW r \in Seq(Nat), NEW b \in Nat,
         QueueHolds(q, b), QueueHolds(r, Number(b, Len(q)))
  PROVE  q \o r = Numbers(b, Len(q) + Len(r)) /\ Len(q \o r) = Len(q) + Len(r)
<1>1. Len(q) \in Nat /\ Len(r) \in Nat /\ q \o r \in Seq(Nat) /\ Len(q \o r) = Len(q) + Len(r)
  OBVIOUS
<1>2. ASSUME NEW j \in 1 .. Len(q) + Len(r) PROVE (q \o r)[j] = Number(b, j - 1)
  <2>1. CASE j <= Len(q)
    <3>1. (q \o r)[j] = q[j] /\ j \in 1 .. Len(q)
      BY <1>1, <2>1
    <3>2. QED
      BY <3>1 DEF QueueHolds
  <2>2. CASE ~(j <= Len(q))
    <3>1. j - Len(q) \in 1 .. Len(r) /\ (q \o r)[j] = r[j - Len(q)]
      BY <1>1, <2>2
    <3>2. r[j - Len(q)] = Number(Number(b, Len(q)), (j - Len(q)) - 1)
      BY <3>1 DEF QueueHolds
    <3>3. (j - Len(q)) - 1 \in Nat /\ Len(q) + ((j - Len(q)) - 1) = j - 1
      BY <1>1, <3>1
    <3>4. QED
      BY <1>1, <3>1, <3>2, <3>3, NumberOn
  <2>3. QED
    BY <2>1, <2>2
<1> DEFINE all == Numbers(b, Len(q) + Len(r))
<1>3. /\ all \in Seq(Nat) /\ Len(all) = Len(q) + Len(r)
      /\ \A j \in 1 .. Len(q) + Len(r) : all[j] = Number(b, j - 1)
  <2>1. ASSUME NEW j \in 1 .. Len(q) + Len(r) PROVE Number(b, j - 1) \in Nat
    <3>1. j - 1 \in Nat
      BY <1>1
    <3>2. QED
      BY <3>1, NumberType
  <2>2. QED
    BY <1>1, <2>1 DEF Numbers
<1> HIDE DEF all
<1>4. q \o r = all
  BY <1>1, <1>2, <1>3, SeqEqual
<1>5. QED
  BY <1>1, <1>4 DEF all

(* The bytes of a ring, as a queue.                                        *)
LEMMA RingAsQueue ==
  ASSUME NEW buf \in [Index -> Nat], NEW i \in Index, NEW o \in Index, NEW b \in Nat,
         RingHolds(buf, i, o, b),
         NEW q, q = [j \in 1 .. Held(i, o) |-> buf[Advance(o, j - 1)]]
  PROVE  q \in Seq(Nat) /\ Len(q) = Held(i, o) /\ QueueHolds(q, b)
<1>1. Held(i, o) \in Nat
  BY HeldType
<1>2. ASSUME NEW j \in 1 .. Held(i, o)
      PROVE  buf[Advance(o, j - 1)] \in Nat /\ buf[Advance(o, j - 1)] = Number(b, j - 1)
  <2>1. j - 1 \in 0 .. Held(i, o) - 1 /\ j - 1 \in Nat /\ o \in Nat
    BY <1>1, RingAssumption DEF Index
  <2>2. Advance(o, j - 1) \in Index
    BY <2>1, AdvanceType
  <2>3. buf[Advance(o, j - 1)] = Number(b, j - 1)
    BY <2>1 DEF RingHolds
  <2>4. QED
    BY <2>2, <2>3
<1>3. q \in Seq(Nat) /\ Len(q) = Held(i, o)
  BY <1>1, <1>2
<1>4. QED
  BY <1>2, <1>3 DEF QueueHolds

-----------------------------------------------------------------------------
(* The bytes on their way to the host, one by one; what write copies fits  *)
(* into the ring at whatever moment it is shown to the handler; and the    *)
(* handler never takes the device for emptier than it is.                  *)
Sending ==
  /\ tx_buf \in [Index -> Nat] /\ tx_in \in Index /\ tx_out \in Index
  /\ wfifo \in Seq(Nat) /\ Len(wfifo) <= Depth
  /\ taken \in 0 .. Span - 1
  /\ space \in Nat /\ space <= Depth - Len(wfifo)
  /\ count \in Nat /\ in \in Nat /\ n \in Nat
  /\ QueueHolds(wfifo, taken)
  /\ RingHolds(tx_buf, tx_in, tx_out, Number(taken, Len(wfifo)))
  /\ written = Number(taken, Len(wfifo) + Held(tx_in, tx_out))
  /\ pc \in {"fill", "publish", "copy", "free"} => n <= count
  /\ pc \in {"fill", "publish"} =>
       /\ in = tx_in /\ in + n <= BUF_LEN
       /\ Held(tx_in, tx_out) + n <= BUF_LEN - 1
  /\ pc = "publish" => \A j \in 0 .. n - 1 : tx_buf[in + j] = Number(written, j)

txVars == <<tx_buf, tx_in, tx_out, wfifo, taken, space, written, pc, count, in, n>>

(* A step that touches none of it.                                         *)
LEMMA SendingStutters ==
  ASSUME Sending, UNCHANGED txVars
  PROVE  Sending'
BY DEF Sending, txVars, QueueHolds, RingHolds, Held, Advance, Index, Number

(* A call that is in neither step of its copy to the ring.                 *)
LEMMA SendingElsewhere ==
  ASSUME Sending, UNCHANGED <<tx_buf, tx_in, tx_out, wfifo, taken, space, written>>,
         count' \in Nat, in' \in Nat, n' \in Nat,
         pc' \notin {"fill", "publish"}, pc' \in {"copy", "free"} => n' <= count'
  PROVE  Sending'
BY DEF Sending, QueueHolds, RingHolds, Held, Advance, Index, Number

(* The handler moves one byte from the ring to the device.                 *)
LEMMA TransmitKeeps ==
  ASSUME Sending, Transmit
  PROVE  Sending'
<1> DEFINE base == Number(taken, Len(wfifo))
<1>0. BUF_LEN \in Nat /\ Depth \in Nat /\ Len(wfifo) \in Nat /\ taken \in Nat
  BY RingAssumption, DepthAssumption, SpanAssumption DEF Sending
<1>1. /\ space > 0 /\ tx_out # tx_in /\ WriteData(tx_buf[tx_out])
      /\ tx_out' = Advance(tx_out, 1) /\ space' = space - 1
      /\ UNCHANGED <<tx_buf, tx_in, taken, written, pc, count, in, n>>
  BY DEF Transmit, HandlerStep, callVars, history
<1>2. ~fifo_FF /\ wfifo' = Append(wfifo, tx_buf[tx_out])
  BY <1>0, <1>1 DEF WriteData, fifo_FF, Sending
<1>3. Held(tx_in, tx_out) \in Nat /\ 1 <= Held(tx_in, tx_out)
  BY <1>1, HeldType DEF Sending
<1>4. base \in Nat /\ tx_buf[tx_out] \in Nat
  BY <1>0, NumberType DEF Sending
<1>5. tx_buf[tx_out] = base
  <2>1. Advance(tx_out, 0) = tx_out
    BY <1>0, AdvanceIs DEF Sending, Index
  <2>2. 0 \in 0 .. Held(tx_in, tx_out) - 1
    BY <1>3
  <2>3. tx_buf[Advance(tx_out, 0)] = Number(base, 0)
    BY <2>2 DEF Sending, RingHolds
  <2>4. base \in 0 .. Span - 1
    BY <1>0, NumberRange
  <2>5. QED
    BY <2>1, <2>3, <2>4, NumberFirst
<1>6. /\ wfifo' \in Seq(Nat) /\ Len(wfifo') = Len(wfifo) + 1 /\ QueueHolds(wfifo', taken)
  BY <1>0, <1>2, <1>4, <1>5, QueueGets DEF Sending
<1>7. /\ tx_out' \in Index /\ Held(tx_in, tx_out') = Held(tx_in, tx_out) - 1
  BY <1>1, <1>3, TakeOut DEF Sending
<1>8. RingHolds(tx_buf, tx_in, tx_out', Number(base, 1))
  BY <1>1, <1>3, <1>4, RingTakes DEF Sending
<1>9. Number(base, 1) = Number(taken, Len(wfifo'))
  BY <1>0, <1>6, NumberOn
<1>10. Len(wfifo') + Held(tx_in, tx_out') = Len(wfifo) + Held(tx_in, tx_out)
  BY <1>0, <1>3, <1>6, <1>7
<1>11. Len(wfifo') <= Depth /\ space' \in Nat /\ space' <= Depth - Len(wfifo')
  BY <1>0, <1>1, <1>6 DEF Sending
<1>12. Held(tx_in, tx_out') <= Held(tx_in, tx_out)
  BY <1>3, <1>7
<1> HIDE DEF base
<1>13. RingHolds(tx_buf, tx_in, tx_out, Number(taken, Len(wfifo)))'
  BY <1>1, <1>8, <1>9 DEF RingHolds, Held, Advance, Number
<1>14. QueueHolds(wfifo, taken)'
  BY <1>1, <1>6 DEF QueueHolds, Number
<1>15. written' = Number(taken', Len(wfifo') + Held(tx_in', tx_out'))
  BY <1>1, <1>10 DEF Sending
<1>16. pc' \in {"fill", "publish"} =>
         in' = tx_in' /\ in' + n' <= BUF_LEN /\ Held(tx_in', tx_out') + n' <= BUF_LEN - 1
  BY <1>0, <1>1, <1>3, <1>7 DEF Sending
<1>17. QED
  BY <1>1, <1>6, <1>7, <1>11, <1>13, <1>14, <1>15, <1>16 DEF Sending, Index, Held, Number

(* The host takes the first byte of the device.                            *)
LEMMA TakesKeeps ==
  ASSUME Sending, Takes
  PROVE  Sending'
<1>0. Len(wfifo) \in Nat /\ taken \in Nat
  BY SpanAssumption DEF Sending
<1>1. /\ wfifo # <<>> /\ wfifo' = Tail(wfifo) /\ taken' = Number(taken, 1)
      /\ UNCHANGED <<tx_buf, tx_in, tx_out, space, written, pc, count, in, n>>
  BY DEF Takes, HostTakes, HostStep, ringVars, handlerVars, callVars
<1>2. /\ wfifo' \in Seq(Nat) /\ Len(wfifo') = Len(wfifo) - 1 /\ QueueHolds(wfifo', taken')
  BY <1>0, <1>1, QueueTakes DEF Sending
<1>3. taken' \in 0 .. Span - 1 /\ Len(wfifo') \in Nat
  BY <1>0, <1>1, <1>2, NumberRange
<1>4. ASSUME NEW k \in Nat PROVE Number(taken', Len(wfifo') + k) = Number(taken, Len(wfifo) + k)
  <2>1. 1 + (Len(wfifo') + k) = Len(wfifo) + k /\ Len(wfifo') + k \in Nat
    BY <1>0, <1>2, <1>3
  <2>2. QED
    BY <1>0, <1>1, <2>1, NumberOn
<1>5. Number(taken', Len(wfifo')) = Number(taken, Len(wfifo))
  BY <1>0, <1>3, <1>4
<1>6. written' = Number(taken', Len(wfifo') + Held(tx_in, tx_out))
  <2>1. Held(tx_in, tx_out) \in Nat
    BY HeldType DEF Sending
  <2>2. QED
    BY <2>1, <1>1, <1>4 DEF Sending
<1>7. Len(wfifo') <= Depth /\ space <= Depth - Len(wfifo')
  BY <1>0, <1>2, DepthAssumption DEF Sending
<1>8. RingHolds(tx_buf, tx_in, tx_out, Number(taken, Len(wfifo)))'
  BY <1>1, <1>5 DEF Sending, RingHolds, Held, Advance, Number
<1>9. QueueHolds(wfifo, taken)'
  BY <1>2 DEF QueueHolds, Number
<1>10. QED
  BY <1>1, <1>2, <1>3, <1>6, <1>7, <1>8, <1>9 DEF Sending, Index, Held, Number

(* write samples the room, copies, and shows the bytes to the handler.     *)
LEMMA SampleRoomKeeps ==
  ASSUME Sending, SampleRoom
  PROVE  Sending'
<1>1. /\ n' = Least(Room(tx_in, tx_out), count) /\ in' = tx_in /\ count' = count
      /\ pc' \in {"kick", "fill"}
      /\ UNCHANGED <<tx_buf, tx_in, tx_out, wfifo, taken, space, written>>
  BY DEF SampleRoom, deviceVars, ringVars, CallStep, handlerVars
<1>2. n' \in 0 .. count
  BY <1>1, RoomType DEF Sending
<1>3. Held(tx_in, tx_out) + n' <= BUF_LEN - 1 /\ tx_in + n' <= BUF_LEN
  BY <1>1, RoomFits DEF Sending
<1>4. in' \in Nat
  BY <1>1, RingAssumption DEF Sending, Index
<1>5. QED
  BY <1>1, <1>2, <1>3, <1>4 DEF Sending, QueueHolds, RingHolds, Held, Advance, Index, Number

(* write copies its bytes behind what the ring holds.                      *)
LEMMA FillKeeps ==
  ASSUME Sending, Fill
  PROVE  Sending'
<1>0. BUF_LEN \in Nat /\ written \in Nat /\ taken \in Nat /\ Len(wfifo) \in Nat
      /\ Number(taken, Len(wfifo)) \in Nat
  <2>1. taken \in Nat /\ Len(wfifo) \in Nat /\ BUF_LEN \in Nat
    BY RingAssumption, SpanAssumption DEF Sending
  <2>2. Len(wfifo) + Held(tx_in, tx_out) \in Nat
    BY <2>1, HeldType DEF Sending
  <2>3. QED
    BY <2>1, <2>2, NumberType DEF Sending
<1>1. /\ tx_buf' = [i \in Index |-> IF i \in in .. in + n - 1 THEN Number(written, i - in)
                                    ELSE tx_buf[i]]
      /\ pc = "fill" /\ pc' = "publish"
      /\ UNCHANGED <<tx_in, tx_out, wfifo, taken, space, written, count, in, n>>
  BY DEF Fill, At, deviceVars, CallStep, Locals, handlerVars
<1>2. in = tx_in /\ in + n <= BUF_LEN /\ Held(tx_in, tx_out) + n <= BUF_LEN - 1
  BY <1>1 DEF Sending
<1>3. tx_buf' \in [Index -> Nat]
  <2>1. ASSUME NEW i \in Index, i \in in .. in + n - 1 PROVE Number(written, i - in) \in Nat
    <3>1. i - in \in Nat
      BY <2>1, <1>0 DEF Sending, Index
    <3>2. QED
      BY <1>0, <3>1, NumberType
  <2>2. QED
    BY <1>1, <2>1 DEF Sending
<1>4. \A p \in Index \ (tx_in .. tx_in + n - 1) : tx_buf'[p] = tx_buf[p]
  BY <1>1, <1>2
<1>5. RingHolds(tx_buf', tx_in, tx_out, Number(taken, Len(wfifo)))
  <2>1. tx_in \in Index /\ tx_out \in Index /\ n \in Nat /\ tx_in + n <= BUF_LEN
        /\ RingHolds(tx_buf, tx_in, tx_out, Number(taken, Len(wfifo)))
    BY <1>2 DEF Sending
  <2>2. QED
    BY <1>0, <1>2, <1>4, <2>1, RingKeeps
<1>6. ASSUME NEW j \in 0 .. n - 1 PROVE tx_buf'[in + j] = Number(written, j)
  <2>1. in + j \in Index /\ in + j \in in .. in + n - 1 /\ (in + j) - in = j
    BY <1>0, <1>2, <1>6 DEF Sending, Index
  <2>2. QED
    BY <1>1, <2>1
<1>7. RingHolds(tx_buf, tx_in, tx_out, Number(taken, Len(wfifo)))'
  BY <1>1, <1>5 DEF RingHolds, Held, Advance, Number
<1>8. QED
  BY <1>1, <1>2, <1>3, <1>6, <1>7 DEF Sending, QueueHolds, Held, Index, Number

(* write moves tx_in past what it copied.                                  *)
LEMMA PublishKeeps ==
  ASSUME Sending, Publish
  PROVE  Sending'
<1> DEFINE base == Number(taken, Len(wfifo))
<1>0. BUF_LEN \in Nat /\ taken \in Nat /\ Len(wfifo) \in Nat /\ Held(tx_in, tx_out) \in Nat
      /\ base \in Nat
  <2>1. taken \in Nat /\ Len(wfifo) \in Nat /\ BUF_LEN \in Nat
    BY RingAssumption, SpanAssumption DEF Sending
  <2>2. QED
    BY <2>1, HeldType, NumberType DEF Sending
<1>1. /\ tx_in' = Advance(in, n) /\ count' = count - n /\ written' = Number(written, n)
      /\ pc = "publish" /\ pc' \in {"write", "kick"}
      /\ UNCHANGED <<tx_buf, tx_out, wfifo, taken, space, in, n>>
  BY DEF Publish, At, deviceVars, CallStep, handlerVars
<1>2. /\ in = tx_in /\ in + n <= BUF_LEN /\ Held(tx_in, tx_out) + n <= BUF_LEN - 1
      /\ n <= count /\ n \in Nat /\ count \in Nat
      /\ \A j \in 0 .. n - 1 : tx_buf[in + j] = Number(written, j)
  BY <1>1 DEF Sending
<1>3. tx_in' \in Index /\ Held(tx_in', tx_out) = Held(tx_in, tx_out) + n
  BY <1>1, <1>2, PutIn DEF Sending
<1>4. written = Number(base, Held(tx_in, tx_out))
  BY <1>0, NumberOn DEF Sending
<1>5. ASSUME NEW j \in 0 .. n - 1
      PROVE  tx_buf[tx_in + j] = Number(base, Held(tx_in, tx_out) + j)
  <2>1. j \in Nat
    BY <1>2
  <2>2. tx_buf[tx_in + j] = Number(Number(base, Held(tx_in, tx_out)), j)
    BY <1>2, <1>4, <1>5
  <2>3. QED
    BY <1>0, <2>1, <2>2, NumberOn
<1>6. RingHolds(tx_buf, Advance(tx_in, n), tx_out, base)
  <2>1. RingHolds(tx_buf, tx_in, tx_out, base) /\ tx_in \in Index /\ tx_out \in Index
    BY DEF Sending
  <2> HIDE DEF base
  <2>2. QED
    BY <1>0, <1>2, <1>5, <2>1, RingGets
<1>7. written' = Number(taken, Len(wfifo) + Held(tx_in', tx_out))
  <2>1. written' = Number(base, Held(tx_in, tx_out) + n)
    BY <1>0, <1>1, <1>2, <1>4, NumberOn
  <2>2. Number(base, Held(tx_in, tx_out) + n) = Number(taken, Len(wfifo) + (Held(tx_in, tx_out) + n))
    BY <1>0, <1>2, NumberOn
  <2>3. QED
    BY <1>3, <2>1, <2>2
<1>8. RingHolds(tx_buf, tx_in, tx_out, Number(taken, Len(wfifo)))'
  BY <1>1, <1>2, <1>6 DEF RingHolds, Held, Advance, Number
<1>9. count' \in Nat
  BY <1>1, <1>2
<1>10. QED
  BY <1>1, <1>3, <1>7, <1>8, <1>9 DEF Sending, QueueHolds, Held, Index, Number

(* Nothing is on its way at the start.                                     *)
LEMMA SendingInit == Init => Sending
<1> SUFFICES ASSUME Init PROVE Sending
  OBVIOUS
<1>1. /\ tx_buf = [i \in Index |-> 0] /\ tx_in = 0 /\ tx_out = 0
      /\ wfifo = <<>> /\ taken = 0 /\ space = 0 /\ written = 0
      /\ pc = "ready" /\ count = 0 /\ in = 0 /\ n = 0
  BY DEF Init, DeviceInit
<1>2. Len(wfifo) = 0 /\ wfifo \in Seq(Nat) /\ Held(tx_in, tx_out) = 0
  BY <1>1, RingAssumption DEF Held
<1>3. tx_buf \in [Index -> Nat] /\ 0 \in Index /\ 0 \in 0 .. Span - 1 /\ Depth \in Nat
  BY <1>1, RingAssumption, DepthAssumption, SpanAssumption DEF Index
<1>4. QueueHolds(wfifo, taken) /\ RingHolds(tx_buf, tx_in, tx_out, Number(taken, Len(wfifo)))
  BY <1>2 DEF QueueHolds, RingHolds
<1>5. Number(0, 0) = 0
  BY <1>3, NumberFirst
<1>6. QED
  BY <1>1, <1>2, <1>3, <1>4, <1>5 DEF Sending

(* A step keeps what is on its way.                                        *)
LEMMA SendingStep ==
  ASSUME Ranges, Ranges', Sending, [Next]_vars
  PROVE  Sending'
<1> USE DEF txVars, At, CallStep, Locals, HandlerStep, HostStep, callVars, ringVars, deviceVars,
            handlerVars, history, WriteControl
<1>0. count' \in Nat /\ in' \in Nat /\ n' \in Nat
      /\ (pc' \in {"copy", "free"} => n' <= count')
  BY DEF Ranges
<1>1. CASE Handler
  <2>1. CASE Enter \/ Receive \/ ReceiveEnds
    BY <2>1, SendingStutters DEF Enter, Receive, ReceiveEnds, ReadData
  <2>2. CASE ReadControl \/ TransmitEnds
    <3>1. UNCHANGED <<tx_buf, tx_in, tx_out, wfifo, taken, written, pc, count, in, n>>
      BY <2>2 DEF ReadControl, TransmitEnds
    <3>2. space' = 0 \/ space' = Depth - Len(wfifo)
      BY <2>2 DEF ReadControl, TransmitEnds, wspace
    <3>3. Len(wfifo) \in Nat /\ Depth \in Nat
      BY DepthAssumption DEF Sending
    <3>4. space' \in Nat /\ space' <= Depth - Len(wfifo)
      BY <3>2, <3>3 DEF Sending
    <3>5. QED
      BY <3>1, <3>4 DEF Sending, QueueHolds, RingHolds, Held, Advance, Index, Number
  <2>3. QED
    BY <1>1, <2>1, <2>2, TransmitKeeps DEF Handler
<1>2. CASE Second
  BY <1>2, SendingStutters DEF Second, CheckHost
<1>3. CASE Starts
  <2>1. CASE SetTimeout \/ TakeTimer
    BY <2>1, SendingStutters DEF SetTimeout, TakeTimer
  <2>2. CASE PrintInHandler \/ \E op \in {"write", "read", "close"} : Call(op)
    <3>1. /\ UNCHANGED <<tx_buf, tx_in, tx_out, wfifo, taken, space, written>>
          /\ pc' \in {"write", "read", "close"}
      BY <2>2 DEF PrintInHandler, Call
    <3>2. QED
      BY <1>0, <3>1, SendingElsewhere
  <2>3. QED
    BY <1>3, <2>1, <2>2 DEF Starts
<1>4. CASE Kick \/ WriteWakes \/ WriteGoesOn \/ CloseEnds
  <2>1. /\ UNCHANGED <<tx_buf, tx_in, tx_out, wfifo, taken, space, written>>
        /\ pc' \in {"write", "write blocked", "write woken", "ready"}
    BY <1>4 DEF Kick, WriteWakes, WriteGoesOn, CloseEnds, Unblock, Return
  <2>2. QED
    BY <1>0, <2>1, SendingElsewhere
<1>5. CASE Read
  <2>1. /\ UNCHANGED <<tx_buf, tx_in, tx_out, wfifo, taken, space, written>>
        /\ pc' \notin {"fill", "publish"}
    BY <1>5 DEF Read, SampleReady, Copy, Free, Enable, ReadWakes, ReadGoesOn, Unblock, Return
  <2>2. QED
    BY <1>0, <2>1, SendingElsewhere
<1>6. CASE Sends \/ Pauses
  BY <1>6, SendingStutters DEF Sends, Pauses, HostSends, HostPauses
<1>7. CASE UNCHANGED vars
  BY <1>7, SendingStutters DEF vars
<1>8. QED
  BY <1>1, <1>2, <1>3, <1>4, <1>5, <1>6, <1>7, TakesKeeps, SampleRoomKeeps, FillKeeps, PublishKeeps
     DEF Next, Write, Host

(* Device and ring together, read as one queue.                            *)
LEMMA SendingInOrder == Sending => TransmitsInOrder
<1> SUFFICES ASSUME Sending PROVE TransmitsInOrder
  OBVIOUS
<1> DEFINE ring == [j \in 1 .. Held(tx_in, tx_out) |-> tx_buf[Advance(tx_out, j - 1)]]
<1>1. taken \in Nat /\ Len(wfifo) \in Nat /\ wfifo \in Seq(Nat)
  BY SpanAssumption DEF Sending
<1>2. Number(taken, Len(wfifo)) \in Nat
  BY <1>1, NumberType
<1>3. /\ ring \in Seq(Nat) /\ Len(ring) = Held(tx_in, tx_out)
      /\ QueueHolds(ring, Number(taken, Len(wfifo)))
  BY <1>2, RingAsQueue DEF Sending
<1>4. ToHost = wfifo \o ring
  BY DEF ToHost
<1> HIDE DEF ring
<1>5. /\ wfifo \o ring = Numbers(taken, Len(wfifo) + Len(ring))
      /\ Len(wfifo \o ring) = Len(wfifo) + Len(ring)
  BY <1>1, <1>3, QueuesJoin DEF Sending
<1>6. QED
  BY <1>3, <1>4, <1>5 DEF TransmitsInOrder, Sending

-----------------------------------------------------------------------------
(* The bytes on their way from the host, one by one; what read copies is   *)
(* held at whatever moment it is given free.                               *)
HeldIn == Held(rx_in, rx_out)

Receiving ==
  /\ rx_buf \in [Index -> Nat] /\ rx_in \in Index /\ rx_out \in Index
  /\ rfifo \in Seq(Nat) /\ received \in 0 .. Span - 1
  /\ count \in Nat /\ out \in Nat /\ n \in Nat /\ copied \in Seq(Nat)
  /\ RingHolds(rx_buf, rx_in, rx_out, received)
  /\ QueueHolds(rfifo, Number(received, HeldIn))
  /\ sent = Number(received, HeldIn + Len(rfifo))
  /\ pc \in {"copy", "free"} => out = rx_out /\ n <= HeldIn /\ out + n <= BUF_LEN
  /\ pc = "free" =>
       /\ n <= Len(copied)
       /\ \A j \in 1 .. n : copied[Len(copied) - n + j] = Number(received, j - 1)

rxVars == <<rx_buf, rx_in, rx_out, rfifo, received, sent, pc, count, out, n, copied>>

(* A step that touches none of it.                                         *)
LEMMA ReceivingStutters ==
  ASSUME Receiving, UNCHANGED rxVars
  PROVE  Receiving'
BY DEF Receiving, rxVars, QueueHolds, RingHolds, HeldIn, Held, Advance, Index, Number

(* A call that is in neither step of its copy from the ring.               *)
LEMMA ReceivingElsewhere ==
  ASSUME Receiving, UNCHANGED <<rx_buf, rx_in, rx_out, rfifo, received, sent>>,
         count' \in Nat, out' \in Nat, n' \in Nat, copied' \in Seq(Nat),
         pc' \notin {"copy", "free"}
  PROVE  Receiving'
BY DEF Receiving, QueueHolds, RingHolds, HeldIn, Held, Advance, Index, Number

(* Numbers and lengths are what the lemmas about them ask for.             *)
LEMMA ReceivingTypes ==
  ASSUME Receiving
  PROVE  /\ BUF_LEN \in Nat /\ received \in Nat /\ Len(rfifo) \in Nat
         /\ HeldIn \in Nat /\ Number(received, HeldIn) \in Nat /\ sent \in Nat
<1>1. BUF_LEN \in Nat /\ received \in Nat /\ Len(rfifo) \in Nat /\ HeldIn \in Nat
  BY RingAssumption, SpanAssumption, HeldType DEF Receiving, HeldIn
<1>2. HeldIn + Len(rfifo) \in Nat
  BY <1>1
<1>3. QED
  BY <1>1, <1>2, NumberType DEF Receiving

(* The handler moves one byte from the device to the ring, also while a    *)
(* read is copying out of it.                                              *)
LEMMA ReceiveKeeps ==
  ASSUME Receiving, Receive
  PROVE  Receiving'
<1>0. /\ BUF_LEN \in Nat /\ received \in Nat /\ Len(rfifo) \in Nat
      /\ HeldIn \in Nat /\ Number(received, HeldIn) \in Nat /\ sent \in Nat
  BY ReceivingTypes
<1>1. PICK valid \in BOOLEAN :
        /\ ReadData(valid, left')
        /\ valid => /\ rx_buf' = [rx_buf EXCEPT ![rx_in] = Head(rfifo)]
                    /\ rx_in' = Advance(rx_in, 1)
        /\ ~valid => UNCHANGED <<rx_buf, rx_in>>
  BY DEF Receive
<1>2. ~RxFull /\ UNCHANGED <<rx_out, received, sent, pc, count, out, n, copied>>
  BY DEF Receive, HandlerStep, callVars, history
<1>3. CASE ~valid
  <2>1. UNCHANGED rxVars
    BY <1>1, <1>2, <1>3 DEF ReadData, rxVars
  <2>2. QED
    BY <2>1, ReceivingStutters
<1>4. CASE valid
  <2>1. rfifo # <<>> /\ rfifo' = Tail(rfifo)
    BY <1>1, <1>4 DEF ReadData
  <2>2. HeldIn + 1 <= BUF_LEN - 1 /\ rx_in + 1 <= BUF_LEN
    BY <1>2, OneFits DEF RxFull, Receiving, HeldIn
  <2>3. /\ Head(rfifo) = Number(Number(received, HeldIn), 0)
        /\ rfifo' \in Seq(Nat) /\ Len(rfifo') = Len(rfifo) - 1
        /\ QueueHolds(rfifo', Number(Number(received, HeldIn), 1))
    BY <1>0, <2>1, QueueTakes DEF Receiving
  <2>4. Head(rfifo) = Number(received, HeldIn)
    <3>1. Number(received, HeldIn) \in 0 .. Span - 1
      BY <1>0, NumberRange
    <3>2. QED
      BY <2>3, <3>1, NumberFirst
  <2>5. rx_buf' \in [Index -> Nat] /\ rx_buf'[rx_in] = Number(received, HeldIn)
        /\ \A p \in Index \ (rx_in .. rx_in + 1 - 1) : rx_buf'[p] = rx_buf[p]
    <3>1. rx_buf' = [rx_buf EXCEPT ![rx_in] = Number(received, HeldIn)] /\ rx_in \in Int
      BY <1>0, <1>1, <1>4, <2>4 DEF Receiving, Index
    <3>2. QED
      BY <1>0, <3>1 DEF Receiving
  <2>6. RingHolds(rx_buf', rx_in, rx_out, received)
    BY <1>0, <2>2, <2>5, RingKeeps DEF Receiving, HeldIn
  <2>7. \A j \in 0 .. 1 - 1 : rx_buf'[rx_in + j] = Number(received, HeldIn + j)
    <3>1. rx_in + 0 = rx_in /\ HeldIn + 0 = HeldIn
      BY <1>0 DEF Receiving, Index
    <3>2. QED
      BY <2>5, <3>1
  <2>8. RingHolds(rx_buf', Advance(rx_in, 1), rx_out, received)
    BY <1>0, <2>2, <2>6, <2>7, RingGets DEF Receiving, HeldIn
  <2>9. rx_in' \in Index /\ HeldIn' = HeldIn + 1
    BY <1>1, <1>2, <1>4, <2>2, PutIn DEF Receiving, HeldIn, Held
  <2>10. Number(Number(received, HeldIn), 1) = Number(received, HeldIn')
    BY <1>0, <2>9, NumberOn
  <2>11. HeldIn' + Len(rfifo') = HeldIn + Len(rfifo)
    BY <1>0, <2>3, <2>9
  <2>12. RingHolds(rx_buf, rx_in, rx_out, received)'
    BY <1>1, <1>2, <1>4, <2>8 DEF RingHolds, Held, Advance, Number
  <2>13. QueueHolds(rfifo, Number(received, HeldIn))'
    BY <1>2, <2>3, <2>10 DEF QueueHolds, Number
  <2>14. sent' = Number(received', HeldIn' + Len(rfifo'))
    BY <1>2, <2>11 DEF Receiving
  <2>15. pc' \in {"copy", "free"} => out' = rx_out' /\ n' <= HeldIn' /\ out' + n' <= BUF_LEN
    BY <1>0, <1>2, <2>9 DEF Receiving
  <2>16. QED
    BY <1>2, <2>3, <2>5, <2>9, <2>12, <2>13, <2>14, <2>15 DEF Receiving, Index, Number
<1>5. QED
  BY <1>3, <1>4

(* The host sends the next byte.                                           *)
LEMMA SendsKeeps ==
  ASSUME Receiving, Sends
  PROVE  Receiving'
<1>0. /\ BUF_LEN \in Nat /\ received \in Nat /\ Len(rfifo) \in Nat
      /\ HeldIn \in Nat /\ Number(received, HeldIn) \in Nat /\ sent \in Nat
  BY ReceivingTypes
<1>1. /\ rfifo' = Append(rfifo, sent) /\ sent' = Number(sent, 1)
      /\ UNCHANGED <<rx_buf, rx_in, rx_out, received, pc, count, out, n, copied>>
  BY DEF Sends, HostSends, HostStep, ringVars, callVars
<1>2. sent = Number(Number(received, HeldIn), Len(rfifo))
  BY <1>0, NumberOn DEF Receiving
<1>3. /\ rfifo' \in Seq(Nat) /\ Len(rfifo') = Len(rfifo) + 1
      /\ QueueHolds(rfifo', Number(received, HeldIn))
  BY <1>0, <1>1, <1>2, QueueGets DEF Receiving
<1>4. sent' = Number(received, HeldIn + Len(rfifo'))
  <2>1. sent' = Number(received, (HeldIn + Len(rfifo)) + 1)
    BY <1>0, <1>1, NumberOn DEF Receiving
  <2>2. (HeldIn + Len(rfifo)) + 1 = HeldIn + Len(rfifo')
    BY <1>0, <1>3
  <2>3. QED
    BY <2>1, <2>2
<1>5. HeldIn' = HeldIn
  BY <1>1 DEF HeldIn, Held
<1>6. QueueHolds(rfifo, Number(received, HeldIn))'
  BY <1>1, <1>3, <1>5 DEF QueueHolds, Number
<1>7. QED
  BY <1>1, <1>3, <1>4, <1>5, <1>6 DEF Receiving, RingHolds, Held, Advance, Index, Number

(* read samples what is ready, copies it, and gives it free.               *)
LEMMA SampleReadyKeeps ==
  ASSUME Ranges', Receiving, SampleReady
  PROVE  Receiving'
<1>1. UNCHANGED <<rx_buf, rx_in, rx_out, rfifo, received, sent>>
  BY DEF SampleReady, ringVars, deviceVars, CallStep
<1>2. count' \in Nat /\ out' \in Nat /\ n' \in Nat /\ copied' \in Seq(Nat)
  BY DEF Ranges
<1>3. pc' # "free"
  BY DEF SampleReady, Return
<1>4. pc' = "copy" => out' = rx_out /\ n' = Least(Ready(rx_in, rx_out), count)
  BY DEF SampleReady, Return
<1>5. HeldIn' = HeldIn
  BY <1>1 DEF HeldIn, Held
<1>6. pc' = "copy" => out' = rx_out' /\ n' <= HeldIn' /\ out' + n' <= BUF_LEN
  BY <1>1, <1>4, <1>5, ReadyFits DEF Receiving, HeldIn
<1>7. RingHolds(rx_buf, rx_in, rx_out, received)'
  BY <1>1 DEF Receiving, RingHolds, Held, Advance, Number
<1>8. QueueHolds(rfifo, Number(received, HeldIn))'
  BY <1>1, <1>5 DEF Receiving, QueueHolds, Number
<1>9. sent' = Number(received', HeldIn' + Len(rfifo'))
  BY <1>1, <1>5 DEF Receiving
<1>10. QED
  BY <1>1, <1>2, <1>3, <1>6, <1>7, <1>8, <1>9 DEF Receiving, Index

(* read copies what is held, from the oldest byte on.                      *)
LEMMA CopyKeeps ==
  ASSUME Receiving, Copy
  PROVE  Receiving'
<1>0. /\ BUF_LEN \in Nat /\ received \in Nat /\ HeldIn \in Nat
  BY ReceivingTypes
<1>1. /\ copied' = copied \o [j \in 1 .. n |-> rx_buf[out + j - 1]]
      /\ pc = "copy" /\ pc' = "free"
      /\ UNCHANGED <<rx_buf, rx_in, rx_out, rfifo, received, sent, count, out, n>>
  BY DEF Copy, At, ringVars, deviceVars, CallStep
<1>2. out = rx_out /\ n <= HeldIn /\ out + n <= BUF_LEN /\ n \in Nat /\ rx_out \in Index
      /\ copied \in Seq(Nat)
  BY <1>1 DEF Receiving
<1>3. ASSUME NEW j \in 1 .. n
      PROVE  rx_buf[out + j - 1] = Number(received, j - 1) /\ rx_buf[out + j - 1] \in Nat
  <2>1. j - 1 \in 0 .. BUF_LEN /\ j - 1 \in 0 .. HeldIn - 1 /\ out + j - 1 \in Index
    BY <1>0, <1>2 DEF Index
  <2>2. Advance(rx_out, j - 1) = out + j - 1
    <3>1. Advance(rx_out, j - 1) = IF rx_out + (j - 1) < BUF_LEN THEN rx_out + (j - 1)
                                   ELSE rx_out + (j - 1) - BUF_LEN
      BY <1>2, <2>1, AdvanceIs
    <3>2. QED
      BY <1>0, <1>2, <2>1, <3>1 DEF Index
  <2>3. rx_buf[Advance(rx_out, j - 1)] = Number(received, j - 1)
    BY <2>1 DEF Receiving, RingHolds, HeldIn
  <2>4. QED
    BY <2>1, <2>2, <2>3 DEF Receiving
<1> DEFINE more == [j \in 1 .. n |-> rx_buf[out + j - 1]]
<1>4. more \in Seq(Nat) /\ Len(more) = n /\ \A j \in 1 .. n : more[j] = Number(received, j - 1)
  BY <1>2, <1>3
<1>5. copied' = copied \o more
  BY <1>1
<1> HIDE DEF more
<1>6. copied' \in Seq(Nat) /\ Len(copied') = Len(copied) + n
  <2>1. copied \o more \in Seq(Nat) /\ Len(copied \o more) = Len(copied) + Len(more)
    BY <1>2, <1>4, ConcatProperties
  <2>2. QED
    BY <1>4, <1>5, <2>1
<1>7. ASSUME NEW j \in 1 .. n PROVE copied'[Len(copied') - n + j] = Number(received, j - 1)
  <2>1. /\ Len(copied') - n + j \in 1 .. Len(copied) + Len(more)
        /\ Len(copied') - n + j > Len(copied)
        /\ (Len(copied') - n + j) - Len(copied) = j
    BY <1>2, <1>4, <1>6
  <2>2. (copied \o more)[Len(copied') - n + j] = more[(Len(copied') - n + j) - Len(copied)]
    BY <1>2, <1>4, <2>1
  <2>3. QED
    BY <1>4, <1>5, <2>1, <2>2
<1>8. n' <= Len(copied') /\ \A j \in 1 .. n' : copied'[Len(copied') - n' + j] = Number(received', j - 1)
  <2>1. n' = n /\ received' = received /\ Len(copied) \in Nat
    BY <1>1, <1>2
  <2>2. n <= Len(copied')
    BY <1>2, <1>6, <2>1
  <2>3. QED
    BY <1>7, <2>1, <2>2
<1>9. QED
  BY <1>1, <1>2, <1>6, <1>8
     DEF Receiving, QueueHolds, RingHolds, HeldIn, Held, Advance, Index, Number

(* read moves rx_out past what it copied.                                  *)
LEMMA FreeKeeps ==
  ASSUME Ranges, Ranges', Receiving, Free
  PROVE  Receiving'
<1>0. /\ BUF_LEN \in Nat /\ received \in Nat /\ Len(rfifo) \in Nat
      /\ HeldIn \in Nat /\ Number(received, HeldIn) \in Nat
  BY ReceivingTypes
<1>1. /\ rx_out' = Advance(out, n) /\ received' = Number(received, n)
      /\ pc = "free" /\ pc' \in {"read", "enable"}
      /\ UNCHANGED <<rx_buf, rx_in, rfifo, sent>>
  BY DEF Free, At, deviceVars, CallStep
<1>2. out = rx_out /\ n <= HeldIn /\ n \in Nat
  BY <1>1 DEF Receiving
<1>3. rx_out' \in Index /\ HeldIn' = HeldIn - n
  BY <1>1, <1>2, TakeOut DEF Receiving, HeldIn, Held
<1>4. RingHolds(rx_buf, rx_in, Advance(rx_out, n), Number(received, n))
  BY <1>0, <1>2, RingTakes DEF Receiving, HeldIn
<1>5. HeldIn' \in Nat /\ n + HeldIn' = HeldIn
      /\ n + (HeldIn' + Len(rfifo)) = HeldIn + Len(rfifo) /\ HeldIn' + Len(rfifo) \in Nat
  BY <1>0, <1>2, <1>3
<1>6. Number(received', HeldIn') = Number(received, HeldIn)
  <2>1. Number(Number(received, n), HeldIn') = Number(received, n + HeldIn')
    BY <1>0, <1>2, <1>5, NumberOn
  <2>2. QED
    BY <1>1, <1>5, <2>1
<1>7. sent' = Number(received', HeldIn' + Len(rfifo'))
  <2>1. sent' = Number(received, HeldIn + Len(rfifo)) /\ rfifo' = rfifo
    BY <1>1 DEF Receiving
  <2>2. Number(Number(received, n), HeldIn' + Len(rfifo)) = Number(received, n + (HeldIn' + Len(rfifo)))
    BY <1>0, <1>2, <1>5, NumberOn
  <2>3. QED
    BY <1>1, <1>5, <2>1, <2>2
<1>8. RingHolds(rx_buf, rx_in, rx_out, received)'
  BY <1>1, <1>2, <1>4 DEF RingHolds, Held, Advance, Number
<1>9. QueueHolds(rfifo, Number(received, HeldIn))'
  BY <1>1, <1>6 DEF Receiving, QueueHolds, Number
<1>10. received' \in 0 .. Span - 1
  BY <1>0, <1>1, <1>2, NumberRange
<1>11. count' \in Nat /\ out' \in Nat /\ n' \in Nat /\ copied' \in Seq(Nat)
  BY DEF Ranges
<1>12. QED
  BY <1>1, <1>3, <1>7, <1>8, <1>9, <1>10, <1>11 DEF Receiving, Index

(* Nothing is on its way at the start.                                     *)
LEMMA ReceivingInit == Init => Receiving
<1> SUFFICES ASSUME Init PROVE Receiving
  OBVIOUS
<1>1. /\ rx_buf = [i \in Index |-> 0] /\ rx_in = 0 /\ rx_out = 0
      /\ rfifo = <<>> /\ received = 0 /\ sent = 0
      /\ pc = "ready" /\ count = 0 /\ out = 0 /\ n = 0 /\ copied = <<>>
  BY DEF Init, DeviceInit
<1>2. Len(rfifo) = 0 /\ rfifo \in Seq(Nat) /\ copied \in Seq(Nat) /\ HeldIn = 0
  BY <1>1, RingAssumption DEF HeldIn, Held
<1>3. rx_buf \in [Index -> Nat] /\ 0 \in Index /\ 0 \in 0 .. Span - 1
  BY <1>1, RingAssumption, DepthAssumption, SpanAssumption DEF Index
<1>4. QueueHolds(rfifo, Number(received, HeldIn)) /\ RingHolds(rx_buf, rx_in, rx_out, received)
  BY <1>2 DEF QueueHolds, RingHolds, HeldIn
<1>5. Number(0, 0) = 0
  BY <1>3, NumberFirst
<1>6. QED
  BY <1>1, <1>2, <1>3, <1>4, <1>5 DEF Receiving

(* A step keeps what is on its way.                                        *)
LEMMA ReceivingStep ==
  ASSUME Ranges, Ranges', Receiving, [Next]_vars
  PROVE  Receiving'
<1> USE DEF rxVars, At, CallStep, Locals, HandlerStep, HostStep, callVars, ringVars, deviceVars,
            handlerVars, history, WriteControl
<1>0. count' \in Nat /\ out' \in Nat /\ n' \in Nat /\ copied' \in Seq(Nat)
  BY DEF Ranges
<1>1. CASE Enter \/ ReadControl \/ ReceiveEnds \/ Transmit \/ TransmitEnds
  BY <1>1, ReceivingStutters DEF Enter, ReadControl, ReceiveEnds, Transmit, TransmitEnds, WriteData
<1>2. CASE Second
  BY <1>2, ReceivingStutters DEF Second, CheckHost
<1>3. CASE Starts
  <2>1. CASE SetTimeout \/ TakeTimer
    BY <2>1, ReceivingStutters DEF SetTimeout, TakeTimer
  <2>2. CASE PrintInHandler \/ \E op \in {"write", "read", "close"} : Call(op)
    <3>1. /\ UNCHANGED <<rx_buf, rx_in, rx_out, rfifo, received, sent>>
          /\ pc' \in {"write", "read", "close"}
      BY <2>2 DEF PrintInHandler, Call
    <3>2. QED
      BY <1>0, <3>1, ReceivingElsewhere
  <2>3. QED
    BY <1>3, <2>1, <2>2 DEF Starts
<1>4. CASE Write \/ CloseEnds
  <2>1. /\ UNCHANGED <<rx_buf, rx_in, rx_out, rfifo, received, sent>>
        /\ pc' \notin {"copy", "free"}
    BY <1>4 DEF Write, SampleRoom, Fill, Publish, Kick, WriteWakes, WriteGoesOn, CloseEnds, Unblock, Return
  <2>2. QED
    BY <1>0, <2>1, ReceivingElsewhere
<1>5. CASE Enable \/ ReadWakes \/ ReadGoesOn
  <2>1. /\ UNCHANGED <<rx_buf, rx_in, rx_out, rfifo, received, sent>>
        /\ pc' \in {"read", "read woken", "ready"}
    BY <1>5 DEF Enable, ReadWakes, ReadGoesOn, Unblock, Return
  <2>2. QED
    BY <1>0, <2>1, ReceivingElsewhere
<1>6. CASE Takes \/ Pauses
  BY <1>6, ReceivingStutters DEF Takes, Pauses, HostTakes, HostPauses
<1>7. CASE UNCHANGED vars
  BY <1>7, ReceivingStutters DEF vars
<1>8. QED
  BY <1>1, <1>2, <1>3, <1>4, <1>5, <1>6, <1>7, ReceiveKeeps, SendsKeeps, SampleReadyKeeps,
     CopyKeeps, FreeKeeps
     DEF Next, Handler, Read, Host

(* Ring and device together, read as one queue, and the piece a read has   *)
(* copied, as the sequence it is.                                          *)
LEMMA ReceivingInOrder == Receiving => ReceivesInOrder
<1> SUFFICES ASSUME Receiving PROVE ReceivesInOrder
  OBVIOUS
<1> DEFINE ring == [j \in 1 .. Held(rx_in, rx_out) |-> rx_buf[Advance(rx_out, j - 1)]]
<1>1. /\ received \in Nat /\ Len(rfifo) \in Nat /\ HeldIn \in Nat
      /\ Number(received, HeldIn) \in Nat
  BY ReceivingTypes
<1>2. ring \in Seq(Nat) /\ Len(ring) = HeldIn /\ QueueHolds(ring, received)
  BY <1>1, RingAsQueue DEF Receiving, HeldIn
<1>3. FromHost = ring \o rfifo
  BY DEF FromHost
<1> HIDE DEF ring
<1>4. /\ ring \o rfifo = Numbers(received, Len(ring) + Len(rfifo))
      /\ Len(ring \o rfifo) = Len(ring) + Len(rfifo)
  BY <1>1, <1>2, QueuesJoin DEF Receiving
<1>5. /\ FromHost = Numbers(received, Len(FromHost))
      /\ sent = Number(received, Len(FromHost))
  BY <1>2, <1>3, <1>4 DEF Receiving
<1>6. ASSUME pc = "free"
      PROVE  SubSeq(copied, Len(copied) - n + 1, Len(copied)) = Numbers(received, n)
  <2> DEFINE last == SubSeq(copied, Len(copied) - n + 1, Len(copied))
             all == Numbers(received, n)
  <2>1. /\ n \in Nat /\ n <= Len(copied) /\ copied \in Seq(Nat) /\ Len(copied) \in Nat
        /\ \A j \in 1 .. n : copied[Len(copied) - n + j] = Number(received, j - 1)
    BY <1>6 DEF Receiving
  <2>2. /\ last \in Seq(Nat) /\ Len(last) = n
        /\ \A j \in 1 .. n : last[j] = copied[Len(copied) - n + j]
    <3> DEFINE from == Len(copied) - n + 1
    <3>1. from \in 1 .. Len(copied) + 1 /\ Len(copied) \in from - 1 .. Len(copied)
      BY <2>1
    <3>2. /\ last \in Seq(Nat)
          /\ Len(last) = IF from <= Len(copied) THEN Len(copied) - from + 1 ELSE 0
          /\ \A j \in 1 .. Len(copied) - from + 1 : last[j] = copied[from + j - 1]
      BY <2>1, <3>1, SubSeqProperties
    <3>3. from \in Nat /\ Len(copied) - from + 1 = n
          /\ (from <= Len(copied) \/ n = 0) /\ (from <= Len(copied) => n > 0)
          /\ \A j \in 1 .. n : from + j - 1 = Len(copied) - n + j
      BY <2>1
    <3> HIDE DEF last, from
    <3>4. Len(last) = n
      BY <2>1, <3>2, <3>3
    <3>5. \A j \in 1 .. n : last[j] = copied[Len(copied) - n + j]
      BY <3>2, <3>3
    <3>6. QED
      BY <3>2, <3>4, <3>5
  <2>3. all \in Seq(Nat) /\ Len(all) = n /\ \A j \in 1 .. n : all[j] = Number(received, j - 1)
    <3>1. ASSUME NEW j \in 1 .. n PROVE Number(received, j - 1) \in Nat
      <4>1. j - 1 \in Nat
        BY <2>1
      <4>2. QED
        BY <1>1, <4>1, NumberType
    <3>2. QED
      BY <2>1, <3>1 DEF Numbers
  <2> HIDE DEF last, all
  <2>4. last = all
    BY <2>1, <2>2, <2>3, SeqEqual
  <2>5. QED
    BY <2>4 DEF last, all
<1>7. QED
  BY <1>5, <1>6 DEF ReceivesInOrder

-----------------------------------------------------------------------------
(* At every moment the driver's copy of the interrupt enables is what the  *)
(* device has: altera_avalon_jtag_uart_init.c and write.c write both with  *)
(* interrupts disabled.                                                    *)
THEOREM OneCopy == Spec => []CopyIsTheRegister
<1>1. Init => CopyIsTheRegister
  BY DEF Init, DeviceInit, CopyIsTheRegister
<1>2. CopyIsTheRegister /\ [Next]_vars => CopyIsTheRegister'
  BY CopyStep
<1>3. QED
  BY <1>1, <1>2, PTL DEF Spec

(* Bytes of a finished write never wait in the ring with the interrupt     *)
(* that sends them off: the kick of write.c:136 is after the copy, and the *)
(* handler turns it off only when the ring is empty.                       *)
THEOREM NoLostKick == Spec => []KickIsNotLost
<1>1. Init => KickIsNotLost
  BY DEF Init, KickIsNotLost
<1>2. KickIsNotLost /\ [Next]_vars => KickIsNotLost'
  BY KickStep
<1>3. QED
  BY <1>1, <1>2, PTL DEF Spec

(* The receive interrupt, which the handler turns off when the ring is     *)
(* full, is off only while a read still has to be made or finished.        *)
THEOREM ReceiverComesBack == Spec => []ReceiverIsNotDeaf
<1> DEFINE Inv == Ranges /\ ReadHolds /\ ReceiverIsNotDeaf
<1>1. Init => Inv
  BY RangesInit DEF Init, ReadHolds, ReceiverIsNotDeaf
<1>2. Inv /\ [Next]_vars => Inv'
  BY RangesStep, ReceiverStep
<1>3. Inv => ReceiverIsNotDeaf
  OBVIOUS
<1>4. QED
  BY <1>1, <1>2, <1>3, PTL DEF Spec

(* The timeout routine declares the host gone only after as many silent    *)
(* seconds as the timeout says, whatever it was set to on the way.         *)
THEOREM GoneMeansSilent == Spec => OnlyASilentHostIsGone
<1>1. Init => SecondsAreQuiet
  BY TimeoutAssumption DEF Init, DeviceInit, SecondsAreQuiet
<1>2. SecondsAreQuiet /\ [Next]_vars => SecondsAreQuiet'
  BY QuietStep
<1>3. SecondsAreQuiet /\ [Next]_vars =>
        [timeout' = timeout /\ host_inactive < timeout /\ host_inactive' >= timeout
           => quiet >= timeout]_vars
  BY QuietStep
<1>4. QED
  BY <1>1, <1>2, <1>3, PTL DEF Spec, OnlyASilentHostIsGone

(* Every byte a write accepted is in the ring or the device, once and in   *)
(* order, until the host takes it: write copies behind what the handler    *)
(* takes from, and the handler puts no more into the device than fits.     *)
THEOREM BytesInOrder == Spec => []TransmitsInOrder
<1> DEFINE Inv == Ranges /\ Sending
<1>1. Init => Inv
  BY RangesInit, SendingInit
<1>2. Inv /\ [Next]_vars => Inv'
  BY RangesStep, SendingStep
<1>3. Inv => TransmitsInOrder
  BY SendingInOrder
<1>4. QED
  BY <1>1, <1>2, <1>3, PTL DEF Spec

(* Every byte the host sent is in the device or the ring, once and in      *)
(* order, until a read copies it: the handler that fills the ring while a  *)
(* read copies touches none of the bytes it copies.                        *)
THEOREM BytesArriveInOrder == Spec => []ReceivesInOrder
<1> DEFINE Inv == Ranges /\ Receiving
<1>1. Init => Inv
  BY RangesInit, ReceivingInit
<1>2. Inv /\ [Next]_vars => Inv'
  BY RangesStep, ReceivingStep
<1>3. Inv => ReceivesInOrder
  BY ReceivingInOrder
<1>4. QED
  BY <1>1, <1>2, <1>3, PTL DEF Spec
=============================================================================
