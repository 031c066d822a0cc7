---------------------------- MODULE AvalonSlave ----------------------------
(***************************************************************************)
(* What a bus master drives on an Avalon slave port in one clock cycle:    *)
(* ChipSelect with Write or Read, Address and WriteData, or nothing.       *)
(***************************************************************************)

NoAccess == [kind |-> "none", addr |-> 0, data |-> 0]
WriteTo(a, d) == [kind |-> "write", addr |-> a, data |-> d]
ReadFrom(a) == [kind |-> "read", addr |-> a, data |-> 0]

Writes(acc, a) == acc.kind = "write" /\ acc.addr = a
Reads(acc) == acc.kind = "read"
=============================================================================
