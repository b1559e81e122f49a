------------------------------ MODULE MCAudio ------------------------------
\* The limits that the application is built with, one more user, and accesses at
\* the edges of the pages and of the lengths.
EXTENDS Audio

At(op, addr, size) == [op |-> op, addr |-> addr, size |-> size]

MCAccesses ==
  {At("read", 32, 12), At("write", 498, 2), At("read", 512, 256), At("write", 688, 2),
   At("write", 3840, 256), At("read", 65288, 4), At("write", 246, 2), At("write", 512, 258),
   At("read", 512, 258), At("read", 32, 0), At("read", 252, 4)}

\* What the theorems of AudioProofs assume beside AudioAssumption.
ASSUME MCBuilt == PerDev = 1 /\ Env = {}
============================================================================
