------------------------------ MODULE MCUsbMsd ------------------------------
(* Instances of UsbMsd: the commands, with transfer lengths that match.     *)
EXTENDS UsbMsdInv

Cmd(op, xfr, dir, lba, odd) ==
  [op |-> op, xfr |-> xfr, dir |-> dir, alloc |-> xfr, lba |-> lba, odd |-> odd]

MCCommands ==
  {Cmd(op, n, "in", 0, FALSE) : op \in {"INQUIRY", "MODE_SENSE"}, n \in 1..3}
  \union {Cmd("FORMAT_CAPACITIES", n, "in", 0, FALSE) : n \in 2..3}
  \union {Cmd("REQUEST_SENSE", n, "in", 0, FALSE) : n \in 1..3}
  \union {Cmd("READ_CAPACITY", 2, "in", 0, odd) : odd \in BOOLEAN}
  \union {Cmd("READ", n, "in", lba, FALSE) : n \in 1..3, lba \in 0..2}
  \union {Cmd("WRITE", n, "out", lba, FALSE) : n \in 1..3, lba \in 0..2}
  \union {Cmd("TEST_UNIT_READY", 0, "out", 0, FALSE)}
  \union {Cmd("OTHER", n, dir, 0, FALSE) : n \in 0..1, dir \in {"in", "out"}}
  \union {Cmd("BAD", 1, "in", 0, FALSE)}

\* What the theorems assume of the commands.
ASSUME MCMatched == Matched
=============================================================================
