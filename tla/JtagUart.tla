------------------------------ MODULE JtagUart ------------------------------
(***************************************************************************)
(* The interrupt driven JTAG UART driver of the HAL, through which every   *)
(* program of counter_parallel_port prints: a ring of bytes in each        *)
(* direction between the calls (write, read, close, ioctl) and the         *)
(* interrupt handler, and a routine the system clock calls once a second   *)
(* to find out whether the host is there.                                  *)
(*                                                                         *)
(* One processor: handlers run with interrupts disabled, so only the host  *)
(* moves while one runs; a call is interrupted between any two of its      *)
(* accesses to shared data.  Bytes are numbered in the order they are      *)
(* given, so that a lost, repeated or misplaced one shows.                 *)
(***************************************************************************)
EXTENDS JtagUartDevice

CONSTANTS
  BUF_LEN,          (* bytes in a ring, 2048 in the code                    *)
  Span,             (* byte numbers, more than can be on the way            *)
  INT_MAX,
  DefaultTimeout,   (* seconds, 10 in the code                              *)
  Counts,           (* lengths of a write or read                           *)
  Timeouts,         (* values given to TIOCSTIMEOUT                         *)
  Programs,         (* sets of what a program does                          *)
  Unread            (* bound: bytes sent to a program that never reads      *)

ASSUME RingAssumption == BUF_LEN \in Nat /\ BUF_LEN > 1
ASSUME SpanAssumption == Span \in Nat /\ Span > BUF_LEN + Depth
ASSUME TimeoutAssumption ==
  INT_MAX \in Nat /\ DefaultTimeout \in 2 .. INT_MAX - 2 /\ Timeouts \subseteq Nat
ASSUME CallsAssumption ==
  /\ Counts \subseteq Nat \ {0}
  /\ Programs \subseteq SUBSET {"write", "read", "close", "ioctl", "take timer", "handler prints"}

VARIABLES
  tx_buf, tx_in, tx_out, rx_buf, rx_in, rx_out,
  we, re,           (* the bits of irq_enable                               *)
  host_inactive, timeout,
  hpc, wi, space, left,                 (* the handler and its locals       *)
  program, pc, nonblock, masked, count, copied,  (* the call and its locals *)
  in, out, n,
  timerTaken,       (* the program has the system clock's timer             *)
  written, taken,   (* history: bytes written, bytes the host took          *)
  sent, received,   (* history: bytes the host sent, bytes handed over      *)
  quiet             (* history: callbacks since the host was active, or the *)
                    (* system started                                       *)

ringVars == <<tx_buf, tx_in, tx_out, rx_buf, rx_in, rx_out>>
hostVars == <<host_inactive, timeout>>
handlerVars == <<hpc, wi, space, left>>
flags == <<nonblock, masked>>
callVars == <<program, pc, flags, count, copied, in, out, n, timerTaken>>
history == <<written, taken, sent, received, quiet>>
vars == <<deviceVars, ringVars, we, re, hostVars, handlerVars, callVars, history>>

-----------------------------------------------------------------------------
(* The rings.                                                              *)
Index == 0 .. BUF_LEN - 1
Advance(i, k) == (i + k) % BUF_LEN
Held(i, o) == IF i >= o THEN i - o ELSE BUF_LEN - o + i

(* A slip: the slot that tells full from empty is used when out is 0.      *)
Slip_LastSlot(i, o) == IF i < o THEN o - 1 - i ELSE BUF_LEN - i

(* What write may copy in one piece.                                       *)
Room(i, o) == IF i < o THEN o - 1 - i
              ELSE IF o > 0 THEN BUF_LEN - i ELSE BUF_LEN - 1 - i

(* What read may copy in one piece.                                        *)
Ready(i, o) == IF i >= o THEN i - o ELSE BUF_LEN - o

(* A slip: the handler does not look whether there is room.                *)
Slip_NeverFull == FALSE

(* The handler leaves one slot free.                                       *)
RxFull == Advance(rx_in, 1) = rx_out

Least(a, b) == IF a < b THEN a ELSE b
Number(b, k) == (b + k) % Span
Numbers(b, k) == [j \in 1 .. k |-> Number(b, j - 1)]

-----------------------------------------------------------------------------
(* altera_avalon_jtag_uart_init, after which the program starts.           *)
Init ==
  /\ DeviceInit
  /\ tx_buf = [i \in Index |-> 0] /\ tx_in = 0 /\ tx_out = 0
  /\ rx_buf = [i \in Index |-> 0] /\ rx_in = 0 /\ rx_out = 0
  /\ we = 0 /\ re = 1
  /\ host_inactive = 0 /\ timeout = DefaultTimeout
  /\ hpc = "off" /\ wi = 0 /\ space = 0 /\ left = 0
  /\ program \in Programs
  /\ pc = "ready" /\ nonblock = FALSE /\ masked = FALSE /\ count = 0 /\ copied = <<>>
  /\ in = 0 /\ out = 0 /\ n = 0
  /\ timerTaken = FALSE
  /\ written = 0 /\ taken = 0 /\ sent = 0 /\ received = 0 /\ quiet = 1

-----------------------------------------------------------------------------
(* altera_avalon_jtag_uart_irq.                                            *)
HandlerStep == UNCHANGED <<hostVars, callVars, history>>

Enter ==
  /\ hpc = "off" /\ ~masked /\ av_irq
  /\ hpc' = "control"
  /\ UNCHANGED <<deviceVars, ringVars, we, re, wi, space, left>>
  /\ HandlerStep

(* The control register says what to do, until there is nothing more.      *)
ReadControl ==
  /\ hpc = "control"
  /\ hpc' = IF ipen_AF THEN "receive" ELSE IF ipen_AE THEN "transmit" ELSE "off"
  /\ wi' = IF ipen_AE THEN 1 ELSE 0
  /\ space' = IF ipen_AE THEN wspace ELSE 0
  /\ left' = IF ipen_AF THEN 1 ELSE 0
  /\ UNCHANGED <<deviceVars, ringVars, we, re>>
  /\ HandlerStep

(* One byte from the device, unless the ring is full.                      *)
Receive ==
  /\ hpc = "receive" /\ ~RxFull
  /\ \E valid \in BOOLEAN :
       /\ ReadData(valid, left')
       /\ IF valid
          THEN /\ rx_buf' = [rx_buf EXCEPT ![rx_in] = Head(rfifo)]
               /\ rx_in' = Advance(rx_in, 1)
               /\ hpc' = hpc
          ELSE /\ hpc' = "received"
               /\ UNCHANGED <<rx_buf, rx_in>>
  /\ UNCHANGED <<tx_buf, tx_in, tx_out, rx_out, we, re, wi, space>>
  /\ HandlerStep

(* With bytes left in the device the ring is full: no more interrupts.     *)
ReceiveEnds ==
  /\ hpc = "received" \/ (hpc = "receive" /\ RxFull)
  /\ hpc' = IF wi = 1 THEN "transmit" ELSE "control"
  /\ IF left > 0 THEN re' = 0 /\ WriteControl(we, 0, 0)
     ELSE UNCHANGED <<re, deviceVars>>
  /\ left' = 0
  /\ UNCHANGED <<ringVars, we, wi, space>>
  /\ HandlerStep

(* Only as many bytes as the control register had room for.                *)
Transmit ==
  /\ hpc = "transmit" /\ space > 0 /\ tx_out # tx_in
  /\ WriteData(tx_buf[tx_out])
  /\ tx_out' = Advance(tx_out, 1)
  /\ space' = space - 1
  /\ UNCHANGED <<tx_buf, tx_in, rx_buf, rx_in, rx_out, we, re, hpc, wi, left>>
  /\ HandlerStep

(* A slip: the interrupt is turned off also when the device is full.       *)
Slip_OffWhenFull ==
  /\ hpc = "transmit" /\ (space = 0 \/ tx_out = tx_in)
  /\ hpc' = "control"
  /\ we' = 0 /\ WriteControl(0, re, 0)
  /\ wi' = 0 /\ space' = 0
  /\ UNCHANGED <<ringVars, re, left>>
  /\ HandlerStep

TransmitEnds ==
  /\ hpc = "transmit" /\ (space = 0 \/ tx_out = tx_in)
  /\ hpc' = "control"
  /\ IF space > 0 THEN we' = 0 /\ WriteControl(0, re, 0)
     ELSE UNCHANGED <<we, deviceVars>>
  /\ wi' = 0 /\ space' = 0
  /\ UNCHANGED <<ringVars, re, left>>
  /\ HandlerStep

-----------------------------------------------------------------------------
(* altera_avalon_jtag_uart_timeout.                                        *)

(* A slip: clearing the activity bit clears the interrupt enables.         *)
Slip_OnlyActivity ==
  IF ac = 1
  THEN host_inactive' = 0 /\ WriteControl(0, 0, 1)
  ELSE /\ host_inactive' = IF host_inactive < INT_MAX - 2 THEN host_inactive + 1 ELSE host_inactive
       /\ UNCHANGED deviceVars

(* A slip: activity does not start the seconds again.                      *)
Slip_NotReset ==
  IF ac = 1
  THEN host_inactive' = host_inactive /\ WriteControl(we, re, 1)
  ELSE /\ host_inactive' = IF host_inactive < INT_MAX - 2 THEN host_inactive + 1 ELSE host_inactive
       /\ UNCHANGED deviceVars

CheckHost ==
  IF ac = 1
  THEN host_inactive' = 0 /\ WriteControl(we, re, 1)
  ELSE /\ host_inactive' = IF host_inactive < INT_MAX - 2 THEN host_inactive + 1 ELSE host_inactive
       /\ UNCHANGED deviceVars

(* The alarm of the system clock calls it once a second, from the timer's  *)
(* interrupt, over which the UART's has priority (1 over 2).  What the     *)
(* host does after the look at the activity bit counts for the next second.*)
Second ==
  /\ hpc = "off" /\ ~masked /\ ~av_irq /\ ~timerTaken
  /\ CheckHost
  /\ quiet' = Least(quiet + 1, INT_MAX - 1)
  /\ UNCHANGED <<ringVars, we, re, timeout, handlerVars, callVars, written, taken, sent, received>>

-----------------------------------------------------------------------------
(* The program, which runs while no handler does.                          *)
At(p) == hpc = "off" /\ pc = p
CallStep == UNCHANGED <<handlerVars, program, timerTaken, taken, sent, quiet>>
Locals == UNCHANGED <<flags, count, copied, in, out, n>>

(* The call returns and its locals are gone.                               *)
Return ==
  /\ pc' = "ready"
  /\ nonblock' = FALSE /\ masked' = FALSE /\ count' = 0 /\ copied' = <<>>
  /\ in' = 0 /\ out' = 0 /\ n' = 0

(* What it calls next, with blocking and non-blocking file flags.          *)
Call(op) ==
  /\ At("ready") /\ op \in program
  /\ pc' = op
  /\ nonblock' \in BOOLEAN
  /\ count' \in (IF op = "close" THEN {0} ELSE Counts)
  /\ UNCHANGED <<deviceVars, ringVars, we, re, hostVars, masked, copied, in, out, n, written, received>>
  /\ CallStep

(* recovery_isr prints.  The timer interrupts while the main program only  *)
(* polls or sleeps: it prints with the timer off.                          *)
PrintInHandler ==
  /\ At("ready") /\ "handler prints" \in program /\ timerTaken /\ ~av_irq
  /\ pc' = "write"
  /\ masked' = TRUE
  /\ count' \in Counts
  /\ UNCHANGED <<deviceVars, ringVars, we, re, hostVars, nonblock, copied, in, out, n, written, received>>
  /\ CallStep

(* TIOCSTIMEOUT; below two seconds it means for ever.                      *)
SetTimeout ==
  /\ At("ready") /\ "ioctl" \in program
  /\ \E t \in Timeouts : timeout' = IF t >= 2 /\ t < INT_MAX THEN t ELSE INT_MAX - 1
  /\ UNCHANGED <<deviceVars, ringVars, we, re, host_inactive, pc, written, received>>
  /\ Locals /\ CallStep

(* setup_response_timer and setup_recovery_timer install a handler of      *)
(* their own for the system clock's interrupt.                             *)
TakeTimer ==
  /\ At("ready") /\ "take timer" \in program /\ ~timerTaken
  /\ timerTaken' = TRUE
  /\ UNCHANGED <<deviceVars, ringVars, we, re, hostVars, handlerVars, history, program, pc>>
  /\ Locals

(* altera_avalon_jtag_uart_write: where there is room,                     *)
SampleRoom ==
  /\ At("write")
  /\ in' = tx_in /\ out' = tx_out
  /\ n' = Least(Room(tx_in, tx_out), count)
  /\ pc' = IF n' = 0 THEN "kick" ELSE "fill"
  /\ UNCHANGED <<deviceVars, ringVars, we, re, hostVars, flags, count, copied, written, received>>
  /\ CallStep

(* copy the bytes,                                                         *)
Fill ==
  /\ At("fill")
  /\ tx_buf' = [i \in Index |-> IF i \in in .. in + n - 1 THEN Number(written, i - in) ELSE tx_buf[i]]
  /\ pc' = "publish"
  /\ UNCHANGED <<deviceVars, tx_in, tx_out, rx_buf, rx_in, rx_out, we, re, hostVars, written, received>>
  /\ Locals /\ CallStep

(* show them to the handler,                                               *)
Publish ==
  /\ At("publish")
  /\ tx_in' = Advance(in, n)
  /\ count' = count - n
  /\ written' = Number(written, n)
  /\ pc' = IF count' > 0 THEN "write" ELSE "kick"
  /\ UNCHANGED <<deviceVars, tx_buf, tx_out, rx_buf, rx_in, rx_out, we, re, hostVars,
                 flags, copied, in, out, n, received>>
  /\ CallStep

(* and enable its interrupt, with interrupts disabled.                     *)
Kick ==
  /\ At("kick")
  /\ we' = 1 /\ WriteControl(1, re, 0)
  /\ IF count > 0 /\ ~nonblock THEN pc' = "write blocked" /\ Locals ELSE Return
  /\ UNCHANGED <<ringVars, re, hostVars, written, received>>
  /\ CallStep

(* Spinning until there is room or the host is gone; the call goes on only *)
(* if the host was there in the last second.                               *)
HostGone == host_inactive >= timeout
Unblock(woken, q) ==
  /\ woken
  /\ IF q = "ready" THEN Return ELSE pc' = q /\ Locals
  /\ UNCHANGED <<deviceVars, ringVars, we, re, hostVars, written, received>>
  /\ CallStep

WriteWakes == At("write blocked") /\ Unblock(out # tx_out \/ HostGone, "write woken")
WriteGoesOn == At("write woken") /\ Unblock(TRUE, IF host_inactive > 0 THEN "ready" ELSE "write")

(* A slip: nobody looks for the host.                                      *)
Slip_UntilEmpty == At("close") /\ Unblock(tx_out = tx_in \/ nonblock, "ready")

(* altera_avalon_jtag_uart_close: until all is sent.                       *)
CloseEnds == At("close") /\ Unblock(tx_out = tx_in \/ HostGone \/ nonblock, "ready")

(* altera_avalon_jtag_uart_read: what there is; an empty ring ends the     *)
(* call if it has something or may not block.                              *)
SampleReady ==
  /\ At("read")
  /\ IF rx_in = rx_out /\ copied = <<>> /\ nonblock THEN Return
     ELSE /\ in' = rx_in /\ out' = rx_out
          /\ n' = Least(Ready(rx_in, rx_out), count)
          /\ pc' = IF n' > 0 THEN "copy" ELSE IF copied # <<>> THEN "enable" ELSE "read blocked"
          /\ UNCHANGED <<flags, count, copied>>
  /\ UNCHANGED <<deviceVars, ringVars, we, re, hostVars, written, received>>
  /\ CallStep

Copy ==
  /\ At("copy")
  /\ copied' = copied \o [j \in 1 .. n |-> rx_buf[out + j - 1]]
  /\ pc' = "free"
  /\ UNCHANGED <<deviceVars, ringVars, we, re, hostVars, flags, count, in, out, n, written, received>>
  /\ CallStep

Free ==
  /\ At("free")
  /\ rx_out' = Advance(out, n)
  /\ count' = count - n
  /\ received' = Number(received, n)
  /\ pc' = IF count' > 0 THEN "read" ELSE "enable"
  /\ UNCHANGED <<deviceVars, tx_buf, tx_in, tx_out, rx_buf, rx_in, we, re, hostVars,
                 flags, copied, in, out, n, written>>
  /\ CallStep

(* A slip: receive interrupts stay off.                                    *)
Slip_StayDeaf == At("enable") /\ Unblock(TRUE, "ready")

(* There is room in the ring, so receive interrupts go on.                 *)
Enable ==
  /\ At("enable")
  /\ re' = 1 /\ WriteControl(we, 1, 0)
  /\ Return
  /\ UNCHANGED <<ringVars, we, hostVars, written, received>>
  /\ CallStep

(* The spin of read: a byte, or no host for timeout seconds; then the byte *)
(* is looked for again.                                                    *)
ReadWakes == At("read blocked") /\ Unblock(in # rx_in \/ HostGone, "read woken")
ReadGoesOn == At("read woken") /\ Unblock(TRUE, IF in # rx_in THEN "read" ELSE "ready")

-----------------------------------------------------------------------------
(* What is on its way to the host, and from it.                            *)
ToHost == wfifo \o [j \in 1 .. Held(tx_in, tx_out) |-> tx_buf[Advance(tx_out, j - 1)]]
FromHost == [j \in 1 .. Held(rx_in, rx_out) |-> rx_buf[Advance(rx_out, j - 1)]] \o rfifo

HostStep == UNCHANGED <<ringVars, we, re, hostVars, handlerVars, callVars>>

Takes == HostTakes /\ taken' = Number(taken, 1) /\ HostStep /\ UNCHANGED <<written, sent, received, quiet>>
Sends ==
  /\ "read" \in program \/ Len(FromHost) < Unread
  /\ HostSends(sent)
  /\ sent' = Number(sent, 1) /\ quiet' = 0
  /\ HostStep /\ UNCHANGED <<written, taken, received>>
Pauses == HostPauses /\ quiet' = 0 /\ HostStep /\ UNCHANGED <<written, taken, sent, received>>

Handler == Enter \/ ReadControl \/ Receive \/ ReceiveEnds \/ Transmit \/ TransmitEnds
Write == SampleRoom \/ Fill \/ Publish \/ Kick \/ WriteWakes \/ WriteGoesOn
Read == SampleReady \/ Copy \/ Free \/ Enable \/ ReadWakes \/ ReadGoesOn
Starts ==
  \/ \E op \in {"write", "read", "close"} : Call(op)
  \/ PrintInHandler \/ SetTimeout \/ TakeTimer
Host == Takes \/ Sends \/ Pauses

Next == Handler \/ Second \/ Starts \/ Write \/ Read \/ CloseEnds \/ Host

Spec == Init /\ [][Next]_vars

(* The processor runs and the clock ticks.  Either the host is gone for    *)
(* good some time, or it goes on to take bytes and to pause.               *)
Fairness ==
  /\ WF_vars(Handler) /\ WF_vars(Second) /\ WF_vars(Write \/ Read \/ CloseEnds)
  /\ <>[][~Host]_vars \/ (WF_vars(Takes) /\ WF_vars(Pauses))

FairSpec == Spec /\ Fairness

-----------------------------------------------------------------------------
(* Every byte a write accepted reaches the host once and in order: what is *)
(* in the ring and in the device is what was written and not yet taken.    *)
TransmitsInOrder ==
  /\ ToHost = Numbers(taken, Len(ToHost))
  /\ written = Number(taken, Len(ToHost))

(* Every byte the host sent is handed over once and in order, also when a  *)
(* handler fills the ring while read copies out of it.                     *)
ReceivesInOrder ==
  /\ FromHost = Numbers(received, Len(FromHost))
  /\ sent = Number(received, Len(FromHost))
  /\ pc = "free" => SubSeq(copied, Len(copied) - n + 1, Len(copied)) = Numbers(received, n)

(* Bytes in the ring are never left without the interrupt that sends them, *)
(* unless the write that put them there is about to enable it.             *)
KickIsNotLost == tx_in # tx_out => we = 1 \/ pc \in {"write", "fill", "publish", "kick"}

(* Receiving is off only while the ring holds something that a read will   *)
(* take, or while the read that emptied it is about to turn it on.         *)
ReceiverIsNotDeaf == re = 0 => rx_in # rx_out \/ (pc \in {"read", "enable"} /\ copied # <<>>)

(* The driver's copy of the interrupt enables, which calls, handler and    *)
(* timeout routine all write from, is what the device has.                 *)
CopyIsTheRegister == we = ien_AE /\ re = ien_AF

(* The host is declared gone only after as many whole seconds in which it  *)
(* neither sent nor paused.                                                *)
OnlyASilentHostIsGone ==
  [][timeout' = timeout /\ host_inactive < timeout /\ host_inactive' >= timeout => quiet >= timeout]_vars

(* A blocked write or close ends, and a read for which there is a byte:    *)
(* either the host goes on or it is found to be gone.  (A timeout of less  *)
(* than two seconds means for ever.)                                       *)
Blocked == pc \in {"write blocked", "close"} \/ (pc = "read blocked" /\ rfifo # <<>>)
Forever == timeout = INT_MAX - 1
CallsEnd ==
  Blocked ~> pc = "ready" \/ Forever \/ timerTaken

(* A print of the timer's handler ends as a print of the main program      *)
(* does, which waits "until some has been sent" (write.c:143).             *)
HandlerPrintsEnd == masked ~> ~masked
=============================================================================
