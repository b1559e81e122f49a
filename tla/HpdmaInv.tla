------------------------------ MODULE HpdmaInv ------------------------------
(***************************************************************************)
(* The inductive invariant of Hpdma, from which its safety properties      *)
(* follow when the driver is not preempted and a transfer has at most      *)
(* twice as many chunks as there are descriptors.  Checked by TLC here and *)
(* proved in HpdmaProofs.                                                  *)
(***************************************************************************)
EXTENDS Hpdma

\* How far the request is: "served" chunks have been acknowledged, "copied"
\* have been copied and "begun" have been given a descriptor.
copied == Len(moved)
begun  == total - left

\* The descriptors form a ring: chunk i goes to descriptor Slot(i), and among
\* the N chunks from "served" on, ChunkAt(d) is the one of descriptor d.
Slot(i) == IF i < N THEN i ELSE i - N

ChunkAt(d) ==
  LET i == IF d < served THEN d + N ELSE d
  IN IF i < served THEN i + N ELSE i

Quiet ==
  /\ \A d \in Desc : ~desc[d].valid /\ ~desc[d].irq
  /\ active = NoDesc /\ done = {} /\ ~pend

\* The chunks behind "begun" are at work, in order, those behind "copied" wait
\* for their interrupt, and every other descriptor is free.
RingOK ==
  /\ left <= total /\ served <= copied /\ copied <= begun
  /\ begun <= served + N
  /\ moved = [i \in 1 .. copied |-> i - 1]
  /\ next = IF left > 0 THEN begun ELSE total - 1
  /\ \A d \in Desc :
       /\ desc[d].irq   <=> ChunkAt(d) < begun
       /\ desc[d].valid <=> copied <= ChunkAt(d) /\ ChunkAt(d) < begun
       /\ desc[d].valid => desc[d].chunk = ChunkAt(d)
       /\ d \in done    <=> ChunkAt(d) < copied
  /\ active = IF copied < begun THEN Slot(copied) ELSE NoDesc
  /\ pend <=> served < copied

\* The loop of MSS_HPDMA_start and the interrupt handler give chunks away in
\* the same order.
LoopOK ==
  /\ pc \in {"loop", "call", "inc"} =>
       served = 0 /\ arg.want = total /\ begun <= N
  /\ pc = "loop" => end = begun
  /\ pc = "call" => end = begun /\ end < N /\ left > 0
                    /\ arg.next = next /\ arg.left = left
  /\ pc = "inc"  => end + 1 = begun
  /\ pc = "idle" =>
       /\ served < begun /\ (left = 0 \/ begun >= N)
       /\ left > 0 => end = IF begun = N THEN N ELSE begun - N - 1

\* The four situations of a driver that is not tainted.
Running ==
  /\ total > 0 /\ state = "IN_PROGRESS" /\ isr = "none"
  /\ pc \in {"loop", "call", "inc", "idle"}
  /\ served < total /\ cur = Slot(served)
  /\ RingOK /\ LoopOK

Ended ==
  /\ state # "IN_PROGRESS" /\ pc = "idle" /\ isr \in {"none", "complete"}
  /\ total > 0 => state = "COMPLETED" /\ moved = [i \in 1 .. total |-> i - 1]
  /\ Quiet

Aborting ==
  /\ total = 0 /\ state = "IN_PROGRESS" /\ isr = "none" /\ pc = "abort"
  /\ \A d \in Desc : desc[d].valid => desc[d].irq
  /\ \A d \in Desc : d < inc => ~desc[d].valid /\ ~desc[d].irq
  /\ active # NoDesc => desc[active].valid
  /\ done # {} => pend

Failing ==
  /\ total = 0 /\ state \in Failures /\ isr \in {"error", "clear"}
  /\ pc = "idle" /\ fault # "none" /\ ~pend

\* Every state is one of them, until a hazard taints it.
Situation == tainted \/ Running \/ Ended \/ Aborting \/ Failing

IInv == TypeOK /\ Situation

\* What the client must keep to: it is not interrupted inside the driver, and
\* no request is longer than twice the descriptors.
WithinLimits == ~Preempt /\ MaxChunks <= 2 * N

=============================================================================
