------------------------------ MODULE MCHpdma ------------------------------
(* Model checking of Hpdma.                                                *)
EXTENDS HpdmaInv

\* What the theorems assume of the length of a transfer.
ASSUME MCWithinLimits == WithinLimits
===========================================================================
