------------------------------- MODULE Hpdma -------------------------------
(***************************************************************************)
(* The driver of the high performance DMA controller                       *)
(* (drivers/mss_hpdma/mss_hpdma.c): MSS_HPDMA_init, _start, _pause,        *)
(* _resume, _abort, _set_handler, the local start_transfer and the two     *)
(* interrupt handlers, beside the controller itself (external, modelled    *)
(* from how the driver programs it).                                       *)
(*                                                                         *)
(* A transfer is cut into chunks of at most 64 KB, one per descriptor.     *)
(* Sizes and addresses are counted in chunks: chunk c is the c-th 64 KB    *)
(* of the request, the last one possibly shorter.  The main thread runs    *)
(* MSS_HPDMA_start and MSS_HPDMA_abort in several steps, between which the *)
(* interrupt handlers may run; the handlers themselves are atomic.         *)
(***************************************************************************)
EXTENDS Integers, Sequences, FiniteSets

CONSTANTS
  N,          \* NO_OF_HPDMA_DESCRIPTORS
  MaxChunks,  \* bound: the longest transfer requested, in chunks
  Preempt,    \* is the driver called in thread mode, so that an interrupt may be
              \* served inside MSS_HPDMA_start and _abort?  FALSE: it is called
              \* with interrupts masked, or from an interrupt of that priority
  Aborts,     \* does the client call MSS_HPDMA_abort?
  Errors,     \* can the controller meet an addressing or alignment error?
  Pauses,     \* does the client call MSS_HPDMA_pause and _resume?
  Restarts    \* does the completion handler start another transfer?

ASSUME HpdmaAssumption ==
  /\ N \in Nat \ {0}
  /\ MaxChunks \in Nat \ {0}
  /\ {Preempt, Aborts, Errors, Pauses, Restarts} \subseteq BOOLEAN

Desc     == 0 .. N - 1
NoDesc   == N
Chunks   == 0 .. MaxChunks - 1
Failures == {"SOURCE_ERROR", "DESTINATION_ERROR", "WORD_ALIGN_ERROR"}
Statuses == {"IN_PROGRESS", "COMPLETED"} \cup Failures

VARIABLES
  state,    \* g_transfer.state
  next,     \* g_transfer.src_addr and des_addr: the chunk they point at
  left,     \* g_transfer.xfr_size, in chunks
  handler,  \* is g_transfer.completion_handler set?
  end,      \* g_hpdma_end_desc
  cur,      \* g_hpdma_current_desc
  pc,       \* where the main thread is: "idle", "loop", "call", "inc", "abort"
  isr,      \* where the interrupt handlers are: "none"; "complete" and "error"
            \* at their call of the completion handler; "clear" after it
  arg,      \* its locals: hpdma_total_desc, the arguments of start_transfer
  inc,      \* the loop index of MSS_HPDMA_abort
  desc,     \* the descriptors' registers
  active,   \* the descriptor the controller is working on, or NoDesc
  done,     \* descriptors whose transfer complete interrupt is set
  fault,    \* the error the controller has stopped on, or "none"
  pend,     \* is HPDMA_Complete_IRQn pending in the NVIC?
  total,    \* history: chunks of the current request (0: no request is live)
  moved,    \* history: the chunks the controller has copied for it, in order
  served,   \* history: transfer complete interrupts served for it (not
            \* counted once tainted, where they may never end)
  tainted   \* history: has an abort left an interrupt behind, or the handler
            \* started a transfer from the error interrupt, since the last
            \* MSS_HPDMA_init?  (the README tells what then goes wrong)

drv   == <<state, next, left, handler, end, cur>>
main  == <<pc, arg, inc>>
hw    == <<desc, active, done, fault, pend>>
ghost == <<total, moved, served, tainted>>
vars  == <<drv, main, isr, hw, ghost>>

Clear == [chunk |-> 0, valid |-> FALSE, paused |-> TRUE, irq |-> FALSE]

Init ==
  /\ state = "COMPLETED" /\ next = 0 /\ left = 0 /\ handler = FALSE
  /\ end = 0 /\ cur = 0
  /\ pc = "idle" /\ arg = [want |-> 0, next |-> 0, left |-> 0] /\ inc = 0
  /\ isr = "none"
  /\ desc = [d \in Desc |-> Clear] /\ active = NoDesc
  /\ done = {} /\ fault = "none" /\ pend = FALSE
  /\ total = 0 /\ moved = <<>> /\ served = 0 /\ tainted = FALSE

---------------------------------------------------------------------------
(* The controller: it works on one descriptor at a time, in round robin    *)
(* order, and halts on a descriptor that is paused or in error.            *)

\* The first valid descriptor after d in round robin order: a set of one.
NextValid(ds, d) ==
  LET after(e) == IF e > d THEN e - d ELSE e - d + N
      valid == {e \in Desc : ds[e].valid}
  IN IF valid = {} THEN {NoDesc}
     ELSE {e \in valid : \A f \in valid : after(e) <= after(f)}

EngineMove ==
  /\ active # NoDesc /\ ~desc[active].paused /\ fault = "none"
  /\ moved' = (IF tainted THEN moved ELSE Append(moved, desc[active].chunk))
  /\ desc' = [desc EXCEPT ![active].valid = FALSE]
  /\ active' \in NextValid(desc', active)
  /\ done' = done \cup {active}
  /\ pend' = (pend \/ desc[active].irq)
  /\ UNCHANGED <<drv, main, isr, fault, total, served, tainted>>

EngineFault(kind) ==
  /\ Errors
  /\ active # NoDesc /\ ~desc[active].paused /\ fault = "none"
  /\ fault' = kind
  /\ UNCHANGED <<drv, main, isr, desc, active, done, pend, ghost>>

\* Writing DCP_CLR of the descriptors S.
Cleared(ds, S) == [d \in Desc |-> IF d \in S THEN Clear ELSE ds[d]]

---------------------------------------------------------------------------
(* start_transfer: program descriptor number e with the chunk "from", with *)
(* "size" chunks of the request left.  A size of 0 leaves the size field   *)
(* at 64 KB.  Index N is not a descriptor: nothing is programmed.          *)

\* Mutant: the descriptor's interrupts are left disabled.
ProgrammedWithoutIrq(ds, e, from) ==
  [d \in Desc |-> IF d = e THEN [chunk |-> from, valid |-> TRUE,
                                 paused |-> FALSE, irq |-> FALSE]
                  ELSE ds[d]]

Programmed(ds, e, from) ==
  [d \in Desc |-> IF d = e THEN [chunk |-> from, valid |-> TRUE,
                                 paused |-> FALSE, irq |-> TRUE]
                  ELSE ds[d]]

\* What is left in g_transfer after it: the last chunk does not advance the
\* addresses.
LeftAfter(size) == IF size > 1 THEN size - 1 ELSE 0

\* Mutant: the addresses are never advanced.
ChunkAfterStuck(from, size) == from

ChunkAfter(from, size) == IF size > 1 THEN from + 1 ELSE from

start_transfer(from, size, e) ==
  /\ desc' = Programmed(desc, e, from)
  /\ active' = IF active = NoDesc /\ e \in Desc THEN e ELSE active
  /\ left' = LeftAfter(size) /\ next' = ChunkAfter(from, size)

---------------------------------------------------------------------------
(* The main thread.                                                        *)

\* MSS_HPDMA_start up to its loop.
Start(n) ==
  /\ pc = "idle" /\ state # "IN_PROGRESS"
  /\ left' = n /\ next' = 0 /\ cur' = 0 /\ end' = 0
  /\ state' = "IN_PROGRESS"
  /\ pc' = "loop" /\ arg' = [arg EXCEPT !.want = n]
  /\ total' = n /\ moved' = <<>> /\ served' = 0
  /\ UNCHANGED <<handler, inc, isr, hw, tainted>>

\* The loop's test, and the evaluation of the arguments of start_transfer.
LoopTest ==
  /\ pc = "loop"
  /\ IF end < arg.want /\ end < N
     THEN pc' = "call" /\ arg' = [arg EXCEPT !.next = next, !.left = left]
     ELSE pc' = "idle" /\ UNCHANGED arg
  /\ UNCHANGED <<drv, inc, isr, hw, ghost>>

LoopCall ==
  /\ pc = "call"
  /\ start_transfer(arg.next, arg.left, end)
  /\ pc' = "inc"
  /\ pend' = (pend \/ end \in done)
  /\ UNCHANGED <<state, handler, end, cur, arg, inc, isr, done, fault, ghost>>

LoopInc ==
  /\ pc = "inc"
  /\ end' = end + 1
  /\ pc' = "loop"
  /\ UNCHANGED <<state, next, left, handler, cur, arg, inc, isr, hw, ghost>>

\* MSS_HPDMA_pause and MSS_HPDMA_resume act on g_hpdma_current_desc.
Pause ==
  /\ Pauses /\ pc = "idle"
  /\ desc' = [desc EXCEPT ![cur].paused = TRUE]
  /\ UNCHANGED <<drv, main, isr, active, done, fault, pend, ghost>>

Resume ==
  /\ Pauses /\ pc = "idle"
  /\ desc' = [desc EXCEPT ![cur].paused = FALSE]
  /\ UNCHANGED <<drv, main, isr, active, done, fault, pend, ghost>>

\* Mutant: the loop of MSS_HPDMA_abort misses the last descriptor.
AbortDoneEarly == inc = N - 1
AbortDone == inc = N

\* MSS_HPDMA_abort clears the descriptors one by one, then sets the status.
Abort ==
  /\ Aborts /\ pc = "idle" /\ state = "IN_PROGRESS"
  /\ pc' = "abort" /\ inc' = 0 /\ total' = 0
  /\ UNCHANGED <<drv, arg, isr, hw, moved, served, tainted>>

AbortClear ==
  /\ pc = "abort" /\ ~AbortDone
  /\ desc' = Cleared(desc, {inc})
  /\ active' \in IF active = inc THEN NextValid(desc', active) ELSE {active}
  /\ inc' = inc + 1
  /\ UNCHANGED <<drv, pc, arg, isr, done, fault, pend, ghost>>

AbortEnd ==
  /\ pc = "abort" /\ AbortDone
  /\ state' = "COMPLETED"
  /\ pc' = "idle" /\ inc' = 0
  /\ tainted' = (tainted \/ pend)
  /\ UNCHANGED <<next, left, handler, end, cur, arg, isr, hw, total, moved,
                 served>>

SetHandler(h) ==
  /\ pc = "idle" /\ handler # h
  /\ handler' = h
  /\ UNCHANGED <<state, next, left, end, cur, main, isr, hw, ghost>>

\* MSS_HPDMA_init resets the controller, pauses every descriptor and drops
\* the pending interrupts.
Reinit ==
  /\ pc = "idle"
  /\ left' = 0 /\ handler' = FALSE /\ state' = "COMPLETED"
  /\ desc' = [d \in Desc |-> Clear] /\ active' = NoDesc
  /\ done' = {} /\ fault' = "none" /\ pend' = FALSE
  /\ total' = 0 /\ moved' = <<>> /\ served' = 0 /\ tainted' = FALSE
  /\ UNCHANGED <<next, end, cur, main, isr>>

---------------------------------------------------------------------------
(* The interrupt handlers.                                                 *)

InterruptsOpen == isr = "none" /\ (Preempt \/ pc = "idle")

\* HPDMA_Complete_IRQHandler clears the interrupt of the current descriptor,
\* disables its interrupts and moves on to the following one.
Acked == [desc EXCEPT ![cur].irq = FALSE]

Following == IF cur + 1 = N THEN 0 ELSE cur + 1

EnterComplete ==
  /\ pend /\ InterruptsOpen
  /\ done' = done \ {cur}
  /\ served' = (IF tainted THEN served ELSE served + 1)

LeaveComplete ==
  /\ pend' = \E d \in done' : desc'[d].irq
  /\ UNCHANGED <<handler, main, fault, total, moved, tainted>>

EndAfter == IF end = N THEN 0 ELSE end + 1

\* It starts the next chunk if there is one ...
CompleteMore ==
  /\ EnterComplete /\ left > 0
  /\ end' = EndAfter
  /\ desc' = Programmed(Acked, EndAfter, next)
  /\ active' = IF active = NoDesc /\ EndAfter \in Desc THEN EndAfter ELSE active
  /\ left' = LeftAfter(left) /\ next' = ChunkAfter(next, left)
  /\ cur' = Following
  /\ UNCHANGED <<state, isr>>
  /\ LeaveComplete

\* Mutant: the transfer ends at the first interrupt with nothing left to start.
AllServedEarly == left = 0

\* Nothing is left to start and the following descriptor is not in use.
AllServed == left = 0 /\ ~Acked[Following].irq

\* ... waits for the descriptors still at work ...
CompleteWait ==
  /\ EnterComplete /\ left = 0 /\ ~AllServed
  /\ cur' = Following
  /\ desc' = Acked
  /\ UNCHANGED <<state, next, left, end, isr, active>>
  /\ LeaveComplete

\* ... or ends the transfer and calls the completion handler.
CompleteEnd ==
  /\ EnterComplete /\ AllServed
  /\ state' = "COMPLETED" /\ cur' = 0 /\ end' = 0
  /\ desc' = Acked
  /\ isr' = IF handler THEN "complete" ELSE "none"
  /\ UNCHANGED <<next, left, active>>
  /\ LeaveComplete

\* Mutant: the error is not recorded.
ErrorStatusKept == state

ErrorStatus == fault

\* HPDMA_Error_IRQHandler sets the status and calls the completion handler;
\* the complete interrupt, with the lower number, goes first.
ErrorIRQ ==
  /\ fault # "none" /\ ~pend /\ InterruptsOpen
  /\ state' = ErrorStatus
  /\ total' = 0
  /\ isr' = IF handler THEN "error" ELSE "clear"
  /\ UNCHANGED <<next, left, handler, end, cur, main, hw, moved, served, tainted>>

\* Only then it writes DCP_CLR and clears the interrupt of every descriptor.
ErrorClear ==
  /\ isr = "clear"
  /\ isr' = "none"
  /\ desc' = [d \in Desc |-> Clear] /\ active' = NoDesc
  /\ done' = {} /\ fault' = "none"
  /\ UNCHANGED <<drv, main, pend, ghost>>

\* The completion handler returns at once ...
AfterHandler == IF isr = "error" THEN "clear" ELSE "none"

HandlerReturn ==
  /\ isr \in {"complete", "error"}
  /\ isr' = AfterHandler
  /\ UNCHANGED <<drv, main, hw, ghost>>

\* ... or starts another transfer: the whole of MSS_HPDMA_start, inside the
\* interrupt.  The first chunks get a descriptor each, the others are left to
\* the interrupts to come.
HandlerRestart(n) ==
  /\ isr \in {"complete", "error"} /\ Restarts
  /\ state' = "IN_PROGRESS"
  /\ end' = (IF n < N THEN n ELSE N) /\ cur' = 0
  /\ left' = (IF n > N THEN n - N ELSE 0)
  /\ next' = (IF n > N THEN N ELSE n - 1)
  /\ desc' = [d \in Desc |-> IF d < n THEN Programmed(desc, d, d)[d] ELSE desc[d]]
  /\ active' = 0
  /\ total' = n /\ moved' = <<>> /\ served' = 0
  /\ isr' = AfterHandler
  /\ tainted' = (tainted \/ isr = "error")
  /\ UNCHANGED <<handler, main, done, fault, pend>>

---------------------------------------------------------------------------
MainStep == isr = "none" /\ (LoopTest \/ LoopCall \/ LoopInc \/ AbortClear \/ AbortEnd)

\* The calls of a client.  Once tainted it only initialises the driver again.
Call ==
  /\ isr = "none"
  /\ \/ ~tainted /\ \/ \E n \in 1 .. MaxChunks : Start(n)
                    \/ Pause \/ Resume \/ Abort
                    \/ \E h \in BOOLEAN : SetHandler(h)
     \/ Reinit

Engine == EngineMove \/ \E k \in Failures : EngineFault(k)

Isr == \/ CompleteMore \/ CompleteWait \/ CompleteEnd
       \/ ErrorIRQ \/ ErrorClear
       \/ HandlerReturn \/ \E n \in 1 .. MaxChunks : HandlerRestart(n)

Next == MainStep \/ Call \/ Engine \/ Isr

Spec == Init /\ [][Next]_vars

\* The processor runs, interrupts are served and the controller works.
Fairness == WF_vars(MainStep) /\ WF_vars(Isr) /\ WF_vars(EngineMove)
LiveSpec == Spec /\ Fairness

---------------------------------------------------------------------------
(* Properties.                                                             *)

\* Every variable has its type: in particular g_hpdma_current_desc is always
\* the number of a descriptor, and the loop of MSS_HPDMA_abort never passes N.
TypeOK ==
  /\ state \in Statuses /\ handler \in BOOLEAN
  /\ next \in Nat /\ left \in Nat /\ end \in Nat /\ cur \in Desc
  /\ pc \in {"idle", "loop", "call", "inc", "abort"}
  /\ isr \in {"none", "complete", "error", "clear"}
  /\ arg \in [want : Nat, next : Nat, left : Nat] /\ inc \in 0 .. N
  /\ desc \in [Desc -> [chunk : Nat, valid : BOOLEAN, paused : BOOLEAN,
                        irq : BOOLEAN]]
  /\ active \in Desc \cup {NoDesc} /\ done \subseteq Desc
  /\ fault \in Failures \cup {"none"} /\ pend \in BOOLEAN
  /\ total \in 0 .. MaxChunks /\ moved \in Seq(Nat) /\ served \in Nat
  /\ tainted \in BOOLEAN

\* A transfer that get_transfer_status reports as completed has copied every
\* chunk of the request, each once and in order: the chaining of chunks over
\* the descriptors, by the loop and then by the interrupt, loses nothing.
CompletedMeansCopied ==
  state = "COMPLETED" /\ total > 0 /\ ~tainted =>
    moved = [i \in 1 .. total |-> i - 1]

\* At every moment the chunks copied are the first ones of the request, in
\* order: no chunk is copied twice, skipped or sent ahead of another.
CopiedInOrder ==
  total > 0 /\ ~tainted =>
    moved = [i \in 1 .. Len(moved) |-> i - 1] /\ Len(moved) <= total

\* The interrupt handler acknowledges the descriptor that has finished: its
\* count g_hpdma_current_desc never leaves the controller's round robin.
AcksFinishedDescriptor == pend /\ total > 0 /\ ~tainted => cur \in done

\* A transfer in progress is never stranded: a descriptor is at work, an
\* interrupt is waiting, or the main thread is still in the driver.
NeverStranded ==
  state = "IN_PROGRESS" /\ ~tainted =>
    active # NoDesc \/ pend \/ pc # "idle" \/ isr # "none"

\* Once MSS_HPDMA_abort has returned, or a transfer has failed, nothing is at
\* work in the controller until the next MSS_HPDMA_start.
AbortStops ==
  total = 0 /\ pc = "idle" /\ isr = "none" /\ fault = "none" /\ ~tainted =>
    \A d \in Desc : ~desc[d].valid

\* start_transfer never reprograms a descriptor the controller still holds.
NoOverwrite ==
  [][\A d \in Desc : desc[d].valid /\ desc'[d].valid /\ ~tainted' =>
       desc'[d].chunk = desc[d].chunk]_vars

\* Every transfer ends, unless the client leaves it paused.
Terminates ==
  state = "IN_PROGRESS" ~>
    \/ state # "IN_PROGRESS" \/ tainted
    \/ active # NoDesc /\ desc[active].paused

===========================================================================
