---------------------------- MODULE ParallelPort ----------------------------
(***************************************************************************)
(* The parallel port of counter_parallel_port/hw/hdl/parallel_port.vhd,    *)
(* one clock edge at a time.  A register is the set of its bits that are   *)
(* 1; line 2 interrupts.                                                   *)
(***************************************************************************)
EXTENDS Integers, AvalonSlave

CONSTANTS
  Lines,       (* lines of the port, 32 in the hardware                     *)
  Outside,     (* lines the outer world holds at 1                          *)
  Leftover     (* what an earlier program may have left in the register     *)

ASSUME LinesAssumption ==
  Lines \subseteq Nat /\ 2 \in Lines /\ Outside \subseteq Lines
  /\ Leftover \subseteq SUBSET Lines /\ Leftover # {}

VARIABLES iRegDir, iRegPort, portIRQEn, portReadData

portVars == <<iRegDir, iRegPort, portIRQEn, portReadData>>

(* The reset leaves the port register and the interrupt enable (the code's *)
(* iIRQEn) alone; no program writes the enable, which starts at 1.         *)
PortInit ==
  /\ iRegDir = {}
  /\ iRegPort \in Leftover
  /\ portIRQEn = 1
  /\ portReadData = {}

(* The pins: outputs from the register, inputs from outside.               *)
iRegPin == (iRegDir \cap iRegPort) \cup (Outside \ iRegDir)


port_irq == portIRQEn = 1 /\ 2 \in iRegDir /\ 2 \in iRegPort

(* Address 2 sets bits; address 3 is said to reset bits and is a NAND.     *)
PortWrite(acc) ==
  /\ iRegDir' = IF Writes(acc, 0) THEN acc.data ELSE iRegDir
  /\ iRegPort' = IF Writes(acc, 1) THEN acc.data
                 ELSE IF Writes(acc, 2) THEN iRegPort \cup acc.data
                 ELSE IF Writes(acc, 3) THEN Lines \ (iRegPort \cap acc.data)
                 ELSE iRegPort
  /\ portIRQEn' = IF Writes(acc, 4) THEN (IF 0 \in acc.data THEN 1 ELSE 0) ELSE portIRQEn

PortRead(acc) ==
  portReadData' = IF Reads(acc)
                  THEN <<iRegDir, iRegPort, iRegPin, IF portIRQEn = 1 THEN {0} ELSE {},
                         {}, {}, {}, {}>>[acc.addr + 1]
                  ELSE {}

PortEdge(acc) == PortWrite(acc) /\ PortRead(acc)
=============================================================================
