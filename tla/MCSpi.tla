------------------------------- MODULE MCSpi -------------------------------
(* Instances of Spi: FIFOs of four frames, of which two may be in transit.  *)
EXTENDS SpiInv

MCBlocks == {[w |-> 1, r |-> 0], [w |-> 2, r |-> 4], [w |-> 0, r |-> 2],
             [w |-> 3, r |-> 0]}

\* What the theorem about the packets assumes of the master.
ASSUME MCPatient == Patient

\* What the theorem about the answers assumes of the buffers.
ASSUME MCLongEnough == LongEnough
=============================================================================
