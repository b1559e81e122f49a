---------------------------- MODULE HpdmaProofs ----------------------------
(***************************************************************************)
(* Proofs about Hpdma: its types for every value of the constants, and its *)
(* safety properties for a driver that is not preempted and transfers of   *)
(* at most 2N chunks, from the inductive invariant of HpdmaInv.            *)
(***************************************************************************)
EXTENDS HpdmaInv, TLAPS

USE HpdmaAssumption

---------------------------------------------------------------------------
(* Types.                                                                  *)

Register == [chunk : Nat, valid : BOOLEAN, paused : BOOLEAN, irq : BOOLEAN]

\* Programming a descriptor keeps the type of the registers.
LEMMA ProgrammedType ==
  ASSUME NEW ds \in [Desc -> Register], NEW e, NEW from \in Nat
  PROVE  Programmed(ds, e, from) \in [Desc -> Register]
BY DEF Programmed, Register

\* So does clearing them.
LEMMA ClearedType ==
  ASSUME NEW ds \in [Desc -> Register], NEW S
  PROVE  Cleared(ds, S) \in [Desc -> Register]
BY DEF Cleared, Clear, Register

\* The controller moves to a descriptor or to none.
LEMMA NextValidType ==
  ASSUME NEW ds, NEW d
  PROVE  NextValid(ds, d) \subseteq Desc \cup {NoDesc}
BY DEF NextValid

\* What start_transfer leaves is a number of chunks and a chunk.
LEMMA AfterType ==
  ASSUME NEW from \in Nat, NEW size \in Nat
  PROVE  LeftAfter(size) \in Nat /\ ChunkAfter(from, size) \in Nat
BY DEF LeftAfter, ChunkAfter

\* The types hold initially, and every action keeps them.
LEMMA InitTypeOK == Init => TypeOK
<1> SUFFICES ASSUME Init PROVE TypeOK OBVIOUS
<1> USE DEF Init
<1>1. cur \in Desc /\ inc \in 0 .. N /\ total \in 0 .. MaxChunks BY DEF Desc
<1>2. desc \in [Desc -> Register] BY DEF Clear, Register
<1>3. moved \in Seq(Nat) OBVIOUS
<1>4. next \in Nat /\ left \in Nat /\ end \in Nat /\ served \in Nat OBVIOUS
<1>5. arg \in [want : Nat, next : Nat, left : Nat] OBVIOUS
<1> QED BY <1>1, <1>2, <1>3, <1>4, <1>5 DEF TypeOK, Statuses, Register

LEMMA MainTypeOK == TypeOK /\ MainStep => TypeOK'
<1> SUFFICES ASSUME TypeOK, MainStep PROVE TypeOK' OBVIOUS
<1> USE DEF TypeOK
<1>1. CASE LoopTest BY <1>1 DEF LoopTest, drv, hw, ghost
<1>2. CASE LoopCall
  <2>1. desc' \in [Desc -> Register]
    BY <1>2, ProgrammedType DEF LoopCall, start_transfer, Register
  <2>2. left' \in Nat /\ next' \in Nat
    BY <1>2, AfterType DEF LoopCall, start_transfer
  <2> QED BY <1>2, <2>1, <2>2 DEF LoopCall, start_transfer, ghost, Register
<1>3. CASE LoopInc BY <1>3 DEF LoopInc, hw, ghost
<1>4. CASE AbortClear
  <2>1. desc' \in [Desc -> Register]
    BY <1>4, ClearedType DEF AbortClear, Register
  <2>2. active' \in Desc \cup {NoDesc}
    BY <1>4, NextValidType DEF AbortClear
  <2>3. inc' \in 0 .. N BY <1>4 DEF AbortClear, AbortDone
  <2> QED BY <1>4, <2>1, <2>2, <2>3 DEF AbortClear, drv, ghost, Register
<1>5. CASE AbortEnd BY <1>5 DEF AbortEnd, hw, Statuses
<1> QED BY <1>1, <1>2, <1>3, <1>4, <1>5 DEF MainStep

LEMMA CallTypeOK == TypeOK /\ Call => TypeOK'
<1> SUFFICES ASSUME TypeOK, Call PROVE TypeOK' OBVIOUS
<1> USE DEF TypeOK
<1>1. ASSUME NEW n \in 1 .. MaxChunks, Start(n) PROVE TypeOK'
  <2>1. arg' \in [want : Nat, next : Nat, left : Nat] BY <1>1 DEF Start
  <2>2. cur' \in Desc /\ total' \in 0 .. MaxChunks BY <1>1 DEF Start, Desc
  <2>3. next' \in Nat /\ left' \in Nat /\ end' \in Nat /\ served' \in Nat
    BY <1>1 DEF Start
  <2> QED BY <1>1, <2>1, <2>2, <2>3 DEF Start, hw, Statuses
<1>2. CASE Pause BY <1>2 DEF Pause, drv, main, ghost
<1>3. CASE Resume BY <1>3 DEF Resume, drv, main, ghost
<1>4. CASE Abort BY <1>4 DEF Abort, drv, hw
<1>5. ASSUME NEW h \in BOOLEAN, SetHandler(h) PROVE TypeOK'
  BY <1>5 DEF SetHandler, main, hw, ghost
<1>6. CASE Reinit
  <2>1. desc' \in [Desc -> Register] BY <1>6 DEF Reinit, Clear, Register
  <2>2. total' \in 0 .. MaxChunks /\ served' \in Nat /\ left' \in Nat
    BY <1>6 DEF Reinit
  <2>3. moved' \in Seq(Nat) BY <1>6 DEF Reinit
  <2> QED BY <1>6, <2>1, <2>2, <2>3 DEF Reinit, main, Statuses, Register
<1> QED BY <1>1, <1>2, <1>3, <1>4, <1>5, <1>6 DEF Call

LEMMA EngineTypeOK == TypeOK /\ Engine => TypeOK'
<1> SUFFICES ASSUME TypeOK, Engine PROVE TypeOK' OBVIOUS
<1> USE DEF TypeOK
<1>1. CASE EngineMove
  <2>1. active \in Desc BY <1>1 DEF EngineMove, NoDesc
  <2>2. active' \in Desc \cup {NoDesc} BY <1>1, NextValidType DEF EngineMove
  <2>3. moved' \in Seq(Nat) BY <1>1, <2>1 DEF EngineMove
  <2> QED BY <1>1, <2>1, <2>2, <2>3 DEF EngineMove, drv, main
<1>2. ASSUME NEW k \in Failures, EngineFault(k) PROVE TypeOK'
  BY <1>2 DEF EngineFault, drv, main, ghost
<1> QED BY <1>1, <1>2 DEF Engine

LEMMA IsrTypeOK == TypeOK /\ Isr => TypeOK'
<1> SUFFICES ASSUME TypeOK, Isr PROVE TypeOK' OBVIOUS
<1> USE DEF TypeOK
<1>1. Acked \in [Desc -> Register] BY DEF Acked, Register
<1>2. Following \in Desc BY DEF Following, Desc
<1>3. ASSUME EnterComplete, LeaveComplete
      PROVE  /\ done' \subseteq Desc /\ pend' \in BOOLEAN /\ served' \in Nat
             /\ handler' = handler /\ pc' = pc /\ arg' = arg /\ inc' = inc
             /\ fault' = fault /\ total' = total /\ moved' = moved
             /\ tainted' = tainted
  BY <1>3 DEF EnterComplete, LeaveComplete, main
<1>4. CASE CompleteMore
  <2>1. desc' \in [Desc -> Register]
    BY <1>4, <1>1, ProgrammedType DEF CompleteMore
  <2>2. left' \in Nat /\ next' \in Nat BY <1>4, AfterType DEF CompleteMore
  <2>3. end' \in Nat BY <1>4 DEF CompleteMore, EndAfter
  <2>4. active' \in Desc \cup {NoDesc} BY <1>4 DEF CompleteMore
  <2>5. cur' \in Desc /\ state' = state /\ isr' = isr BY <1>4, <1>2 DEF CompleteMore
  <2> QED BY <1>3, <1>4, <2>1, <2>2, <2>3, <2>4, <2>5 DEF CompleteMore, Register
<1>5. CASE CompleteWait
  BY <1>1, <1>2, <1>3, <1>5 DEF CompleteWait, Register
<1>6. CASE CompleteEnd
  BY <1>1, <1>3, <1>6 DEF CompleteEnd, Register, Statuses, Desc
<1>7. CASE ErrorIRQ
  BY <1>7 DEF ErrorIRQ, ErrorStatus, Statuses, main, hw
<1>8. CASE ErrorClear
  BY <1>8 DEF ErrorClear, Clear, drv, main, ghost
<1>9. CASE HandlerReturn
  BY <1>9 DEF HandlerReturn, AfterHandler, drv, main, hw, ghost
<1>10. ASSUME NEW n \in 1 .. MaxChunks, HandlerRestart(n) PROVE TypeOK'
  <2>1. desc' \in [Desc -> Register]
    <3>1. ASSUME NEW d \in Desc PROVE Programmed(desc, d, d)[d] \in Register
      BY <3>1 DEF Programmed, Register, Desc
    <3> QED BY <1>10, <3>1 DEF HandlerRestart, Register
  <2> QED BY <1>10, <2>1
         DEF HandlerRestart, AfterHandler, main, Register, Statuses, Desc
<1> QED BY <1>4, <1>5, <1>6, <1>7, <1>8, <1>9, <1>10 DEF Isr

\* Every variable keeps its type, for every value of the constants, with the
\* driver preempted or not.
THEOREM TypeCorrect == Spec => []TypeOK
<1>1. TypeOK /\ UNCHANGED vars => TypeOK'
  BY DEF TypeOK, vars, drv, main, hw, ghost
<1>2. TypeOK /\ [Next]_vars => TypeOK'
  BY <1>1, MainTypeOK, CallTypeOK, EngineTypeOK, IsrTypeOK DEF Next
<1> QED BY <1>2, InitTypeOK, PTL DEF Spec

---------------------------------------------------------------------------
(* What each write does to the registers, field by field.                  *)

\* The controller finishes a descriptor.
LEMMA MoveFields ==
  ASSUME TypeOK, active \in Desc,
         desc' = [desc EXCEPT ![active].valid = FALSE],
         NEW d \in Desc
  PROVE  /\ desc'[d].irq = desc[d].irq /\ desc'[d].chunk = desc[d].chunk
         /\ desc'[d].valid <=> d # active /\ desc[d].valid
<1>1. desc[d] \in Register /\ desc \in [Desc -> Register] BY DEF TypeOK, Register
<1>2. CASE d = active
  <2>1. desc'[d] = [desc[d] EXCEPT !.valid = FALSE] BY <1>1, <1>2, Zenon
  <2> QED BY <1>1, <1>2, <2>1 DEF Register
<1>3. CASE d # active
  <2>1. desc'[d] = desc[d] BY <1>1, <1>3, Zenon
  <2> QED BY <1>3, <2>1
<1> QED BY <1>2, <1>3

\* The interrupt handler acknowledges a descriptor.
LEMMA AckedFields ==
  ASSUME TypeOK, NEW d \in Desc
  PROVE  /\ Acked[d].valid = desc[d].valid /\ Acked[d].chunk = desc[d].chunk
         /\ Acked[d].irq <=> d # cur /\ desc[d].irq
<1>1. desc[d] \in Register /\ desc \in [Desc -> Register] BY DEF TypeOK, Register
<1>2. CASE d = cur
  <2>1. Acked[d] = [desc[d] EXCEPT !.irq = FALSE] BY <1>1, <1>2, Zenon DEF Acked
  <2> QED BY <1>1, <1>2, <2>1 DEF Register
<1>3. CASE d # cur
  <2>1. Acked[d] = desc[d] BY <1>1, <1>3, Zenon DEF Acked
  <2> QED BY <1>3, <2>1
<1> QED BY <1>2, <1>3

\* A descriptor is programmed.
LEMMA ProgrammedFields ==
  ASSUME NEW ds, NEW e, NEW from, NEW d \in Desc
  PROVE  /\ d = e => /\ Programmed(ds, e, from)[d].valid
                     /\ Programmed(ds, e, from)[d].irq
                     /\ Programmed(ds, e, from)[d].chunk = from
         /\ d # e => Programmed(ds, e, from)[d] = ds[d]
BY DEF Programmed

---------------------------------------------------------------------------
(* The inductive invariant: one lemma per part of Next.                    *)

\* ChunkAt is the inverse of Slot on the N chunks from "served" on.
LEMMA ChunkAtRange ==
  ASSUME served \in Nat, served < 2 * N, NEW d \in Desc
  PROVE  /\ ChunkAt(d) \in Nat /\ served <= ChunkAt(d) /\ ChunkAt(d) < served + N
         /\ ChunkAt(d) < 2 * N => Slot(ChunkAt(d)) = d
BY DEF ChunkAt, Slot, Desc

LEMMA SlotInverse ==
  ASSUME served \in Nat, NEW i \in Nat, served <= i, i < served + N, i < 2 * N
  PROVE  Slot(i) \in Desc /\ ChunkAt(Slot(i)) = i
BY DEF ChunkAt, Slot, Desc

\* Serving an interrupt moves the current descriptor to the end of the ring.
LEMMA RingAdvance ==
  ASSUME served \in Nat, served < 2 * N, served' = served + 1, NEW d \in Desc
  PROVE  ChunkAt(d)' = IF d = Slot(served) THEN served + N ELSE ChunkAt(d)
BY DEF ChunkAt, Slot, Desc

\* MSS_HPDMA_init leaves a driver with nothing to do.
LEMMA InitSituation == Init => Situation
BY DEF Init, Situation, Ended, Quiet, Clear

\* The loop of MSS_HPDMA_start.
LEMMA LoopSituation ==
  ASSUME TypeOK, Situation, WithinLimits, ~tainted, LoopTest \/ LoopCall \/ LoopInc
  PROVE  Situation'
<1>1. Running /\ pc \in {"loop", "call", "inc"}
  BY DEF Situation, Running, Ended, Aborting, Failing, LoopTest, LoopCall, LoopInc
<1>2. CASE LoopTest
  <2>1. RingOK'
    BY <1>1, <1>2 DEF LoopTest, Running, RingOK, copied, begun, ChunkAt, Slot,
                      drv, hw, ghost
  <2>2. LoopOK'
    <3>1. CASE end < arg.want /\ end < N
      <4>1. arg'.next = next /\ arg'.left = left /\ arg'.want = arg.want
        BY <1>2, <3>1 DEF LoopTest, TypeOK
      <4>2. arg.want = total /\ end = total - left
        BY <1>1, <1>2 DEF LoopTest, Running, LoopOK, begun
      <4>3. left > 0 BY <3>1, <4>2 DEF TypeOK
      <4> QED BY <1>1, <1>2, <3>1, <4>1, <4>3
              DEF LoopTest, Running, LoopOK, begun, drv, ghost
    <3>2. CASE ~(end < arg.want /\ end < N)
      BY <1>1, <1>2, <3>2
      DEF LoopTest, Running, LoopOK, RingOK, begun, drv, ghost, TypeOK
    <3> QED BY <3>1, <3>2
  <2>3. cur' = Slot(served)'
    BY <1>1, <1>2 DEF LoopTest, Running, Slot, drv, ghost
  <2> QED BY <1>1, <1>2, <2>1, <2>2, <2>3
          DEF Situation, Running, LoopTest, drv, ghost
<1>3. CASE LoopCall
  <2>1. /\ arg.next = next /\ arg.left = left /\ end = begun /\ end < N /\ left > 0
        /\ served = 0 /\ arg.want = total /\ next = begun
    BY <1>1, <1>3 DEF LoopCall, Running, RingOK, LoopOK
  <2>2. /\ left' = left - 1 /\ begun' = begun + 1 /\ total' = total
        /\ served' = served /\ copied' = copied /\ moved' = moved
        /\ next' = IF left' > 0 THEN begun' ELSE total - 1
    BY <1>3, <2>1
    DEF LoopCall, start_transfer, LeftAfter, ChunkAfter, begun, copied, ghost, TypeOK
  <2>3. end \in Desc /\ end \notin done /\ copied \in Nat
    BY <1>1, <2>1 DEF Running, RingOK, ChunkAt, Desc, TypeOK, copied
  <2>4. \A d \in Desc : ChunkAt(d)' = ChunkAt(d)
    BY <2>2 DEF ChunkAt
  <2>5. ASSUME NEW d \in Desc
        PROVE  /\ desc'[d].irq   <=> ChunkAt(d) < begun'
               /\ desc'[d].valid <=> copied <= ChunkAt(d) /\ ChunkAt(d) < begun'
               /\ desc'[d].valid => desc'[d].chunk = ChunkAt(d)
               /\ d \in done    <=> ChunkAt(d) < copied
    <3>1. desc' = Programmed(desc, end, next)
      BY <1>3, <2>1 DEF LoopCall, start_transfer
    <3>2. ChunkAt(d) = d BY <2>1 DEF ChunkAt, Desc
    <3>3. copied <= begun BY <1>1 DEF Running, RingOK
    <3>4. CASE d = end
      BY <1>1, <2>1, <2>2, <2>3, <3>1, <3>2, <3>3, <3>4, ProgrammedFields DEF begun, TypeOK
    <3>5. CASE d # end
      <4>1. desc'[d] = desc[d] BY <3>1, <3>5, ProgrammedFields
      <4>2. /\ desc[d].irq   <=> ChunkAt(d) < begun
            /\ desc[d].valid <=> copied <= ChunkAt(d) /\ ChunkAt(d) < begun
            /\ desc[d].valid => desc[d].chunk = ChunkAt(d)
            /\ d \in done    <=> ChunkAt(d) < copied
        BY <1>1 DEF Running, RingOK
      <4>3. ChunkAt(d) < begun <=> ChunkAt(d) < begun'
        BY <2>1, <2>2, <2>3, <3>2, <3>5 DEF Desc
      <4> QED BY <4>1, <4>2, <4>3
    <3> QED BY <3>4, <3>5
  <2>6. active' = IF copied < begun' THEN Slot(copied) ELSE NoDesc
    <3>1. active' = IF active = NoDesc THEN end ELSE active
      BY <1>3, <2>3 DEF LoopCall, start_transfer
    <3>2. active = IF copied < begun THEN Slot(copied) ELSE NoDesc
      BY <1>1 DEF Running, RingOK
    <3>3. copied <= begun BY <1>1 DEF Running, RingOK
    <3> QED BY <2>1, <2>2, <2>3, <3>1, <3>2, <3>3 DEF Slot, NoDesc, Desc
  <2>7. pend' = pend /\ done' = done BY <1>3, <2>3 DEF LoopCall, TypeOK
  <2>8. RingOK'
    <3>1. /\ left' <= total' /\ served' <= copied' /\ copied' <= begun'
          /\ begun' <= served' + N
          /\ pend' <=> served' < copied'
      BY <1>1, <2>1, <2>2, <2>3, <2>7 DEF Running, RingOK, TypeOK
    <3>2. moved' = [i \in 1 .. copied' |-> i - 1]
      BY <1>1, <2>2 DEF Running, RingOK
    <3>3. (\A d \in Desc :
             /\ desc[d].irq   <=> ChunkAt(d) < begun
             /\ desc[d].valid <=> copied <= ChunkAt(d) /\ ChunkAt(d) < begun
             /\ desc[d].valid => desc[d].chunk = ChunkAt(d)
             /\ d \in done    <=> ChunkAt(d) < copied)'
      BY <2>2, <2>4, <2>5, <2>7
    <3>4. (active = IF copied < begun THEN Slot(copied) ELSE NoDesc)'
      BY <2>2, <2>6 DEF Slot, NoDesc
    <3>5. (next = IF left > 0 THEN begun ELSE total - 1)' BY <2>2
    <3> QED BY <3>1, <3>2, <3>3, <3>4, <3>5 DEF RingOK
  <2>9. LoopOK'
    BY <1>3, <2>1, <2>2 DEF LoopOK, LoopCall, TypeOK
  <2> QED BY <1>1, <1>3, <2>2, <2>8, <2>9 DEF Situation, Running, LoopCall, Slot
<1>4. CASE LoopInc
  <2>1. RingOK'
    BY <1>1, <1>4 DEF LoopInc, Running, RingOK, copied, begun, ChunkAt, Slot, hw, ghost
  <2>2. LoopOK'
    BY <1>1, <1>4 DEF LoopInc, Running, LoopOK, begun, ghost, TypeOK
  <2> QED BY <1>1, <1>4, <2>1, <2>2 DEF Situation, Running, LoopInc, Slot, ghost
<1> QED BY <1>2, <1>3, <1>4

\* MSS_HPDMA_abort.
LEMMA AbortSituation ==
  ASSUME TypeOK, Situation, WithinLimits, ~tainted, Abort \/ AbortClear \/ AbortEnd
  PROVE  Situation'
<1>1. CASE Abort
  <2>1. Running /\ served \in Nat /\ served < 2 * N /\ total <= 2 * N
    BY <1>1 DEF Situation, Running, Ended, Aborting, Failing, Abort, Failures, TypeOK,
                WithinLimits
  <2>2. \A d \in Desc : desc[d].valid => desc[d].irq
    BY <2>1 DEF Running, RingOK
  <2>3. ASSUME active # NoDesc PROVE desc[active].valid
    <3>1. copied < begun /\ active = Slot(copied) /\ copied \in Nat
      BY <2>1, <2>3 DEF Running, RingOK, copied, TypeOK
    <3>2. served <= copied /\ copied < served + N /\ copied < 2 * N
      BY <2>1, <3>1 DEF Running, RingOK, begun, TypeOK
    <3>3. active \in Desc /\ ChunkAt(active) = copied
      BY <2>1, <3>1, <3>2, SlotInverse
    <3> QED BY <2>1, <3>1, <3>3 DEF Running, RingOK
  <2>4. done # {} => pend
    <3>1. ASSUME NEW d \in done PROVE served < copied
      <4>1. d \in Desc /\ copied \in Nat BY DEF TypeOK, copied
      <4>2. ChunkAt(d) < copied BY <2>1, <4>1 DEF Running, RingOK
      <4>3. ChunkAt(d) \in Nat /\ served <= ChunkAt(d) BY <2>1, <4>1, ChunkAtRange
      <4> QED BY <2>1, <4>1, <4>2, <4>3
    <3> QED BY <2>1, <3>1 DEF Running, RingOK
  <2> QED BY <1>1, <2>1, <2>2, <2>3, <2>4
          DEF Abort, Situation, Aborting, Running, drv, hw, Desc
<1>2. CASE AbortClear
  <2>1. Aborting
    BY <1>2 DEF Situation, Running, Ended, Aborting, Failing, AbortClear
  <2>2. /\ \A d \in Desc : d = inc => ~desc'[d].valid /\ ~desc'[d].irq
        /\ \A d \in Desc : d # inc => desc'[d] = desc[d]
    BY <1>2 DEF AbortClear, Cleared, Clear
  <2>3. \A d \in Desc : desc'[d].valid => desc'[d].irq
    BY <2>1, <2>2 DEF Aborting
  <2>4. \A d \in Desc : d < inc' => ~desc'[d].valid /\ ~desc'[d].irq
    <3>1. ASSUME NEW d \in Desc, d < inc' PROVE d < inc \/ d = inc
      BY <1>2, <3>1 DEF AbortClear, TypeOK, Desc
    <3>2. \A d \in Desc : d < inc => ~desc[d].valid /\ ~desc[d].irq
      BY <2>1 DEF Aborting
    <3> QED BY <2>2, <3>1, <3>2
  <2>5. active' # NoDesc => desc'[active'].valid
    <3>1. CASE active = inc
      BY <1>2, <3>1 DEF AbortClear, NextValid
    <3>2. CASE active # inc
      <4>1. active' = active /\ (active # NoDesc => active \in Desc)
        BY <1>2, <3>2 DEF AbortClear, TypeOK
      <4> QED BY <2>1, <2>2, <3>2, <4>1 DEF Aborting
    <3> QED BY <3>1, <3>2
  <2> QED BY <1>2, <2>1, <2>3, <2>4, <2>5
          DEF AbortClear, Situation, Aborting, drv, ghost
<1>3. CASE AbortEnd
  <2>1. Aborting
    BY <1>3 DEF Situation, Running, Ended, Aborting, Failing, AbortEnd
  <2>2. CASE pend BY <1>3, <2>2 DEF AbortEnd, Situation
  <2>3. CASE ~pend
    <3>1. \A d \in Desc : ~desc[d].valid /\ ~desc[d].irq
      BY <1>3, <2>1 DEF AbortEnd, AbortDone, Aborting, Desc
    <3>2. active = NoDesc BY <2>1, <3>1 DEF Aborting, TypeOK
    <3>3. done = {} BY <2>1, <2>3 DEF Aborting
    <3> QED BY <1>3, <2>1, <2>3, <3>1, <3>2, <3>3
            DEF AbortEnd, Situation, Ended, Quiet, Aborting, hw
  <2> QED BY <2>2, <2>3
<1> QED BY <1>1, <1>2, <1>3

\* MSS_HPDMA_pause and MSS_HPDMA_resume touch one bit of one descriptor.
LEMMA PauseSituation ==
  ASSUME TypeOK, Situation, WithinLimits, ~tainted, Pause \/ Resume
  PROVE  Situation'
<1>1. PICK b \in BOOLEAN : desc' = [desc EXCEPT ![cur].paused = b]
  BY DEF Pause, Resume
<1>2. ASSUME NEW d \in Desc
      PROVE  /\ desc'[d].valid = desc[d].valid /\ desc'[d].irq = desc[d].irq
             /\ desc'[d].chunk = desc[d].chunk
  <2>1. desc[d] \in Register /\ desc \in [Desc -> Register] BY DEF TypeOK, Register
  <2>2. CASE d = cur
    <3>1. desc'[d] = [desc[d] EXCEPT !.paused = b] BY <1>1, <2>1, <2>2, Zenon
    <3> QED BY <2>1, <3>1 DEF Register
  <2>3. CASE d # cur
    <3>1. desc'[d] = desc[d] BY <1>1, <2>1, <2>3, Zenon
    <3> QED BY <3>1
  <2> QED BY <2>2, <2>3
<1>3. UNCHANGED <<drv, main, isr, active, done, fault, pend, ghost>> /\ pc = "idle"
  BY DEF Pause, Resume
<1>4. CASE Running
  <2>1. RingOK'
    BY <1>2, <1>3, <1>4 DEF Running, RingOK, copied, begun, ChunkAt, Slot, drv, ghost
  <2>2. LoopOK'
    BY <1>3, <1>4 DEF Running, LoopOK, begun, drv, main, ghost
  <2> QED BY <1>3, <1>4, <2>1, <2>2 DEF Situation, Running, Slot, drv, main, ghost
<1>5. CASE Ended
  BY <1>2, <1>3, <1>5 DEF Situation, Ended, Quiet, drv, main, ghost
<1>6. CASE Failing
  BY <1>3, <1>6 DEF Situation, Failing, drv, main, ghost
<1> QED BY <1>3, <1>4, <1>5, <1>6 DEF Situation, Aborting

\* The calls of a client keep the driver in one of the four situations.
LEMMA CallSituation ==
  ASSUME TypeOK, Situation, WithinLimits, Call
  PROVE  Situation'
<1>1. CASE ~tainted /\ \E n \in 1 .. MaxChunks : Start(n)
  <2>1. PICK n \in 1 .. MaxChunks : Start(n) BY <1>1
  <2>2. Ended BY <1>1, <2>1 DEF Situation, Running, Aborting, Failing, Ended, Start, Call
  <2>3. /\ begun' = 0 /\ copied' = 0 /\ served' = 0 /\ left' = n /\ total' = n
        /\ moved' = <<>>
    BY <2>1 DEF Start, begun, copied
  <2>4. \A d \in Desc : ChunkAt(d)' >= 0 BY <2>3 DEF ChunkAt, Desc
  <2>5. RingOK'
    <3>1. moved' = [i \in 1 .. copied' |-> i - 1] BY <2>3
    <3>2. \A d \in Desc : ~desc'[d].irq /\ ~desc'[d].valid /\ d \notin done'
      BY <2>1, <2>2 DEF Start, hw, Ended, Quiet
    <3>3. (\A d \in Desc :
             /\ desc[d].irq   <=> ChunkAt(d) < begun
             /\ desc[d].valid <=> copied <= ChunkAt(d) /\ ChunkAt(d) < begun
             /\ desc[d].valid => desc[d].chunk = ChunkAt(d)
             /\ d \in done    <=> ChunkAt(d) < copied)'
      <4>1. \A d \in Desc : ~(ChunkAt(d)' < 0) /\ d \in Desc BY <2>3 DEF ChunkAt, Desc
      <4> QED BY <2>3, <3>2, <4>1
    <3> QED BY <2>1, <2>2, <2>3, <3>1, <3>3 DEF RingOK, Start, hw, Ended, Quiet
  <2>6. LoopOK' BY <2>1, <2>3 DEF LoopOK, Start, TypeOK
  <2> QED BY <2>1, <2>2, <2>3, <2>5, <2>6 DEF Situation, Running, Start, Slot, Ended, Call
<1>2. CASE ~tainted /\ (Pause \/ Resume) BY <1>2, PauseSituation
<1>3. CASE ~tainted /\ Abort BY <1>3, AbortSituation
<1>4. CASE ~tainted /\ \E h \in BOOLEAN : SetHandler(h)
  <2>1. UNCHANGED <<state, next, left, end, cur, main, isr, hw, ghost>>
    BY <1>4 DEF SetHandler
  <2>2. Running => Running'
    BY <2>1 DEF Running, RingOK, LoopOK, copied, begun, ChunkAt, Slot, main, hw, ghost
  <2>3. Ended => Ended' BY <2>1 DEF Ended, Quiet, main, hw, ghost
  <2>4. Aborting => Aborting' BY <2>1 DEF Aborting, main, hw, ghost
  <2>5. Failing => Failing' BY <2>1 DEF Failing, main, hw, ghost
  <2> QED BY <1>4, <2>2, <2>3, <2>4, <2>5 DEF Situation
<1>5. CASE Reinit
  BY <1>5 DEF Reinit, Situation, Ended, Quiet, Clear, main, Call
<1> QED BY <1>1, <1>2, <1>3, <1>4, <1>5 DEF Call

\* The first descriptor in round robin order is the following one.
LEMMA FirstAfter ==
  ASSUME NEW d \in 0 .. N - 1, NEW e \in 0 .. N - 1, NEW f,
         f = IF d = N - 1 THEN 0 ELSE d + 1,
         (IF e > d THEN e - d ELSE e - d + N) <= (IF f > d THEN f - d ELSE f - d + N)
  PROVE  e = f
<1>1. f \in 0 .. N - 1 OBVIOUS
<1>2. (IF f > d THEN f - d ELSE f - d + N) = 1 BY <1>1
<1>3. CASE e > d BY <1>1, <1>2, <1>3
<1>4. CASE ~(e > d) BY <1>1, <1>2, <1>4
<1> QED BY <1>3, <1>4

\* The controller finishes a chunk and takes the next one of the ring, or
\* stops on an error.
LEMMA MoveSituation ==
  ASSUME TypeOK, Situation, WithinLimits, ~tainted, EngineMove
  PROVE  Situation'
<1>1. /\ active \in Desc /\ fault = "none" /\ desc' = [desc EXCEPT ![active].valid = FALSE]
      /\ active' \in NextValid(desc', active) /\ done' = done \cup {active}
      /\ pend' = (pend \/ desc[active].irq) /\ moved' = Append(moved, desc[active].chunk)
      /\ UNCHANGED <<drv, main, isr, fault, total, served, tainted>>
  BY DEF EngineMove, TypeOK, NoDesc
<1>2. CASE Running
  <2>1. /\ copied < begun /\ active = Slot(copied) /\ copied \in Nat /\ begun \in Nat
        /\ served \in Nat /\ served <= copied /\ begun <= served + N
        /\ begun <= total /\ total <= 2 * N /\ total \in Nat
        /\ served < 2 * N /\ copied < 2 * N /\ copied < served + N
    <3>1. active # NoDesc BY <1>1 DEF Desc, NoDesc
    <3> QED BY <1>2, <3>1 DEF Running, RingOK, TypeOK, copied, begun, WithinLimits
  <2>2. ChunkAt(active) = copied BY <2>1, SlotInverse
  <2>3. desc[active].valid /\ desc[active].irq /\ desc[active].chunk = copied
    BY <1>1, <1>2, <2>1, <2>2 DEF Running, RingOK
  <2>4. /\ copied' = copied + 1 /\ begun' = begun /\ served' = served /\ total' = total
        /\ left' = left /\ next' = next
    BY <1>1, <2>3 DEF copied, begun, drv, TypeOK
  <2>5. moved' = [i \in 1 .. copied' |-> i - 1]
    BY <1>1, <1>2, <2>1, <2>3, <2>4 DEF Running, RingOK, copied, TypeOK
  <2>6. \A d \in Desc : ChunkAt(d)' = ChunkAt(d) BY <2>4 DEF ChunkAt
  <2>7. ASSUME NEW d \in Desc
        PROVE  /\ desc'[d].irq   <=> ChunkAt(d) < begun
               /\ desc'[d].valid <=> copied + 1 <= ChunkAt(d) /\ ChunkAt(d) < begun
               /\ desc'[d].valid => desc'[d].chunk = ChunkAt(d)
               /\ d \in done'    <=> ChunkAt(d) < copied + 1
    <3>1. /\ desc[d].irq   <=> ChunkAt(d) < begun
          /\ desc[d].valid <=> copied <= ChunkAt(d) /\ ChunkAt(d) < begun
          /\ desc[d].valid => desc[d].chunk = ChunkAt(d)
          /\ d \in done    <=> ChunkAt(d) < copied
      BY <1>2 DEF Running, RingOK
    <3>2. /\ desc'[d].irq = desc[d].irq /\ desc'[d].chunk = desc[d].chunk
          /\ desc'[d].valid <=> d # active /\ desc[d].valid
      BY <1>1, MoveFields
    <3>3. /\ ChunkAt(d) \in Nat /\ served <= ChunkAt(d)
          /\ ChunkAt(d) < 2 * N => Slot(ChunkAt(d)) = d
      BY <2>1, ChunkAtRange
    <3>4. d = active <=> ChunkAt(d) = copied BY <2>1, <2>2, <3>3
    <3> QED BY <1>1, <2>1, <3>1, <3>2, <3>3, <3>4
  <2>8. active' = IF copied + 1 < begun THEN Slot(copied + 1) ELSE NoDesc
    <3>1. CASE copied + 1 < begun
      <4> DEFINE i == copied + 1
      <4>0. i \in Nat /\ served <= i /\ i < served + N /\ i < 2 * N /\ i < begun
        BY <2>1, <3>1
      <4>1. Slot(i) \in Desc /\ ChunkAt(Slot(i)) = i
        <5> HIDE DEF i
        <5> QED BY <2>1, <4>0, SlotInverse
      <4>2. desc'[Slot(i)].valid
        <5>1. copied + 1 <= i BY <2>1
        <5> HIDE DEF i
        <5> QED BY <2>7, <4>0, <4>1, <5>1
      <4>3. /\ active' \in Desc /\ desc'[active'].valid
            /\ (IF active' > active THEN active' - active ELSE active' - active + N)
               <= (IF Slot(i) > active THEN Slot(i) - active
                   ELSE Slot(i) - active + N)
        BY <1>1, <4>1, <4>2 DEF NextValid
      <4>4. Slot(i) = IF active = N - 1 THEN 0 ELSE active + 1
        BY <2>1, <4>0 DEF Slot
      <4>5. active \in 0 .. N - 1 /\ active' \in 0 .. N - 1
        BY <1>1, <4>3 DEF Desc
      <4>6. active' = Slot(i) BY <4>3, <4>4, <4>5, FirstAfter
      <4> QED BY <3>1, <4>6
    <3>2. CASE ~(copied + 1 < begun)
      <4>1. \A d \in Desc : ~desc'[d].valid
        <5>1. ASSUME NEW d \in Desc, desc'[d].valid PROVE FALSE
          <6>1. copied + 1 <= ChunkAt(d) /\ ChunkAt(d) < begun BY <2>7, <5>1
          <6>2. ChunkAt(d) \in Nat BY <2>1, ChunkAtRange
          <6> QED BY <2>1, <3>2, <6>1, <6>2
        <5> QED BY <5>1
      <4> QED BY <1>1, <3>2, <4>1 DEF NextValid
    <3> QED BY <3>1, <3>2
  <2>9. RingOK'
    <3>1. /\ left' <= total' /\ served' <= copied' /\ copied' <= begun'
          /\ begun' <= served' + N
          /\ pend' <=> served' < copied'
          /\ next' = IF left' > 0 THEN begun' ELSE total' - 1
      <4>1. left <= total /\ next = IF left > 0 THEN begun ELSE total - 1
        BY <1>2 DEF Running, RingOK
      <4>2. pend' BY <1>1, <2>3
      <4> QED BY <2>1, <2>4, <4>1, <4>2
    <3>2. (\A d \in Desc :
             /\ desc[d].irq   <=> ChunkAt(d) < begun
             /\ desc[d].valid <=> copied <= ChunkAt(d) /\ ChunkAt(d) < begun
             /\ desc[d].valid => desc[d].chunk = ChunkAt(d)
             /\ d \in done    <=> ChunkAt(d) < copied)'
      BY <2>4, <2>6, <2>7
    <3>3. (active = IF copied < begun THEN Slot(copied) ELSE NoDesc)'
      BY <2>4, <2>8 DEF Slot, NoDesc
    <3> QED BY <2>5, <3>1, <3>2, <3>3 DEF RingOK
  <2>10. LoopOK'
    BY <1>1, <1>2, <2>4 DEF Running, LoopOK, drv, main
  <2> QED BY <1>1, <1>2, <2>4, <2>9, <2>10 DEF Situation, Running, Slot, drv, main
<1>3. CASE Ended BY <1>1, <1>3 DEF Ended, Quiet, Desc, NoDesc
<1>4. CASE Aborting
  <2>1. desc[active].valid /\ desc[active].irq
    BY <1>1, <1>4 DEF Aborting, Desc, NoDesc
  <2>2. \A d \in Desc : /\ desc'[d].irq = desc[d].irq
                        /\ desc'[d].valid <=> d # active /\ desc[d].valid
    BY <1>1, MoveFields
  <2>3. active' # NoDesc => desc'[active'].valid BY <1>1 DEF NextValid
  <2> QED BY <1>1, <1>4, <2>1, <2>2, <2>3 DEF Situation, Aborting, drv, main
<1>5. CASE Failing BY <1>1, <1>5 DEF Failing
<1> QED BY <1>2, <1>3, <1>4, <1>5 DEF Situation

\* An error stops the controller and changes nothing else.
LEMMA FaultSituation ==
  ASSUME TypeOK, Situation, WithinLimits, ~tainted,
         NEW k \in Failures, EngineFault(k)
  PROVE  Situation'
<1>1. /\ UNCHANGED <<drv, main, isr, desc, active, done, pend, ghost>>
      /\ active # NoDesc /\ fault = "none"
  BY DEF EngineFault
<1>2. Running => Running'
  BY <1>1 DEF Running, RingOK, LoopOK, copied, begun, ChunkAt, Slot, drv, main, ghost
<1>3. ~Ended /\ ~Failing BY <1>1 DEF Ended, Quiet, Failing
<1>4. Aborting => Aborting' BY <1>1 DEF Aborting, drv, main, ghost
<1> QED BY <1>2, <1>3, <1>4 DEF Situation

\* What holds when the complete interrupt is served: the descriptor of the
\* oldest chunk has finished, and the others keep their places.
Serving ==
  /\ Running /\ pc = "idle" /\ isr = "none"
  /\ served \in Nat /\ copied \in Nat /\ begun \in Nat /\ total \in Nat /\ left \in Nat
  /\ served < copied /\ copied <= begun /\ begun <= total /\ begun <= served + N
  /\ total <= 2 * N /\ served < 2 * N /\ begun = total - left
  /\ cur = Slot(served) /\ cur \in Desc /\ ChunkAt(cur) = served
  /\ \A d \in Desc : /\ ChunkAt(d) \in Nat /\ served <= ChunkAt(d)
                     /\ d = cur <=> ChunkAt(d) = served
                     /\ desc[d].irq   <=> ChunkAt(d) < begun
                     /\ desc[d].valid <=> copied <= ChunkAt(d) /\ ChunkAt(d) < begun
                     /\ desc[d].valid => desc[d].chunk = ChunkAt(d)
                     /\ d \in done    <=> ChunkAt(d) < copied

\* It holds whenever the complete interrupt is served.
LEMMA EnterServing ==
  ASSUME TypeOK, Situation, WithinLimits, ~tainted, EnterComplete
  PROVE  Serving
<1>1. pend /\ isr = "none" /\ pc = "idle"
  BY DEF EnterComplete, InterruptsOpen, WithinLimits
<1>2. Running BY <1>1 DEF Situation, Ended, Quiet, Aborting, Failing
<1>3. /\ served \in Nat /\ copied \in Nat /\ begun \in Nat /\ total \in Nat /\ left \in Nat
      /\ served < copied /\ copied <= begun /\ begun <= total /\ begun <= served + N
      /\ total <= 2 * N /\ served < 2 * N /\ begun = total - left /\ cur = Slot(served)
  BY <1>1, <1>2 DEF Running, RingOK, TypeOK, copied, begun, WithinLimits
<1>4. cur \in Desc /\ ChunkAt(cur) = served BY <1>3, SlotInverse
<1>5. ASSUME NEW d \in Desc
      PROVE  /\ ChunkAt(d) \in Nat /\ served <= ChunkAt(d)
             /\ d = cur <=> ChunkAt(d) = served
  <2>1. /\ ChunkAt(d) \in Nat /\ served <= ChunkAt(d)
        /\ ChunkAt(d) < 2 * N => Slot(ChunkAt(d)) = d
    BY <1>3, ChunkAtRange
  <2> QED BY <1>3, <1>4, <2>1
<1> QED BY <1>1, <1>2, <1>3, <1>4, <1>5 DEF Serving, Running, RingOK

\* The following descriptor is that of the following chunk.
LEMMA FollowingChunk ==
  ASSUME Serving, served + 1 < begun
  PROVE  Following = Slot(served + 1) /\ Following \in Desc
         /\ ChunkAt(Following) = served + 1
<1> DEFINE i == served + 1
<1>1. /\ i \in Nat /\ served <= i /\ i < served + N /\ i < 2 * N /\ served \in Nat
  BY DEF Serving
<1>2. Slot(i) \in Desc /\ ChunkAt(Slot(i)) = i
  <2> HIDE DEF i
  <2> QED BY <1>1, SlotInverse
<1>3. Following = Slot(i) BY <1>1 DEF Serving, Following, Slot
<1> QED BY <1>2, <1>3

\* Serving the interrupt of a transfer that goes on, with or without another
\* chunk: the part common to both.
LEMMA ServedRing ==
  ASSUME TypeOK, Serving, served' = served + 1, done' = done \ {cur},
         copied' = copied, NEW d \in Desc
  PROVE  /\ ChunkAt(d)' = IF d = cur THEN served + N ELSE ChunkAt(d)
         /\ ChunkAt(d)' \in Nat
         /\ d \in done' <=> ChunkAt(d)' < copied'
         /\ Acked[d].irq <=> ChunkAt(d)' < begun
         /\ Acked[d].valid <=> copied <= ChunkAt(d)' /\ ChunkAt(d)' < begun
         /\ Acked[d].valid => Acked[d].chunk = ChunkAt(d)'
<1>1. ChunkAt(d)' = IF d = cur THEN served + N ELSE ChunkAt(d)
  BY RingAdvance DEF Serving
<1>2. /\ Acked[d].valid = desc[d].valid /\ Acked[d].chunk = desc[d].chunk
      /\ Acked[d].irq <=> d # cur /\ desc[d].irq
  BY AckedFields
<1>3. CASE d = cur BY <1>1, <1>2, <1>3 DEF Serving
<1>4. CASE d # cur BY <1>1, <1>2, <1>4 DEF Serving
<1> QED BY <1>3, <1>4

\* The interrupt stays pending exactly when another chunk has been copied.
LEMMA ServedPending ==
  ASSUME TypeOK, Serving, done' = done \ {cur},
         pend' = \E d \in done' : desc'[d].irq,
         \A d \in Desc : Acked[d].irq => desc'[d].irq
  PROVE  pend' <=> served + 1 < copied
<1>1. ASSUME pend' PROVE served + 1 < copied
  <2>1. PICK d \in done' : d \in Desc /\ d # cur BY <1>1 DEF TypeOK
  <2> QED BY <2>1 DEF Serving
<1>2. ASSUME served + 1 < copied PROVE pend'
  <2>1. served + 1 < begun /\ ChunkAt(cur) = served /\ served \in Nat
    BY <1>2 DEF Serving
  <2>2. Following \in Desc /\ ChunkAt(Following) = served + 1 BY <2>1, FollowingChunk
  <2>3. Following # cur BY <2>1, <2>2
  <2>4. Following \in done' /\ desc[Following].irq
    BY <1>2, <2>1, <2>2, <2>3 DEF Serving
  <2>5. Acked[Following].irq BY <2>2, <2>3, <2>4, AckedFields
  <2> QED BY <2>2, <2>4, <2>5
<1> QED BY <1>1, <1>2

\* The interrupt handler when descriptors are still at work: it only moves on.
LEMMA WaitSituation ==
  ASSUME TypeOK, Situation, WithinLimits, ~tainted, CompleteWait
  PROVE  Situation'
<1>1. Serving BY EnterServing DEF CompleteWait
<1>2. /\ served' = served + 1 /\ done' = done \ {cur} /\ desc' = Acked
      /\ left = 0 /\ cur' = Following /\ pend' = \E d \in done' : desc'[d].irq
      /\ UNCHANGED <<state, next, left, end, isr, active, handler, main, fault, total,
                     moved, tainted>>
  BY DEF CompleteWait, EnterComplete, LeaveComplete
<1>3. copied' = copied /\ begun' = begun BY <1>2 DEF copied, begun
<1>4. served + 1 < begun
  <2>1. Following \in Desc BY DEF Following, Desc, TypeOK
  <2>2. Acked[Following].irq BY <1>2 DEF CompleteWait, AllServed
  <2>3. Following # cur /\ desc[Following].irq BY <2>1, <2>2, AckedFields
  <2> QED BY <1>1, <2>1, <2>3 DEF Serving
<1>5. RingOK'
  <2>1. (\A d \in Desc :
           /\ desc[d].irq   <=> ChunkAt(d) < begun
           /\ desc[d].valid <=> copied <= ChunkAt(d) /\ ChunkAt(d) < begun
           /\ desc[d].valid => desc[d].chunk = ChunkAt(d)
           /\ d \in done    <=> ChunkAt(d) < copied)'
    BY <1>1, <1>2, <1>3, ServedRing
  <2>2. pend' <=> served' < copied' BY <1>1, <1>2, <1>3, ServedPending
  <2>3. /\ left' <= total' /\ served' <= copied' /\ copied' <= begun'
        /\ begun' <= served' + N
    BY <1>1, <1>2, <1>3 DEF Serving
  <2>4. (/\ moved = [i \in 1 .. copied |-> i - 1]
         /\ next = IF left > 0 THEN begun ELSE total - 1
         /\ active = IF copied < begun THEN Slot(copied) ELSE NoDesc)'
    BY <1>1, <1>2, <1>3 DEF Serving, Running, RingOK, Slot, NoDesc
  <2> QED BY <2>1, <2>2, <2>3, <2>4 DEF RingOK
<1>6. LoopOK' BY <1>1, <1>2, <1>3, <1>4 DEF LoopOK, Serving, main
<1>7. cur' = Slot(served)' BY <1>1, <1>2, <1>4, FollowingChunk DEF Slot
<1> QED BY <1>1, <1>2, <1>4, <1>5, <1>6, <1>7 DEF Situation, Running, Serving, main

\* ... when there is another chunk: it gives the chunk a free descriptor.
LEMMA MoreSituation ==
  ASSUME TypeOK, Situation, WithinLimits, ~tainted, CompleteMore
  PROVE  Situation'
<1>1. Serving BY EnterServing DEF CompleteMore
<1>2. /\ served' = served + 1 /\ done' = done \ {cur} /\ end' = EndAfter
      /\ desc' = Programmed(Acked, EndAfter, next) /\ left > 0
      /\ active' = IF active = NoDesc /\ EndAfter \in Desc THEN EndAfter ELSE active
      /\ left' = LeftAfter(left) /\ next' = ChunkAfter(next, left)
      /\ cur' = Following /\ pend' = \E d \in done' : desc'[d].irq
      /\ UNCHANGED <<state, isr, handler, main, fault, total, moved, tainted>>
  BY DEF CompleteMore, EnterComplete, LeaveComplete
<1>3. /\ next = begun /\ begun >= N
      /\ end = IF begun = N THEN N ELSE begun - N - 1
      /\ moved = [i \in 1 .. copied |-> i - 1]
      /\ active = IF copied < begun THEN Slot(copied) ELSE NoDesc
  BY <1>1, <1>2 DEF Serving, Running, RingOK, LoopOK
<1>4. begun < total /\ begun < 2 * N BY <1>1, <1>2 DEF Serving
<1>5. EndAfter = begun - N /\ EndAfter \in Desc /\ EndAfter = Slot(begun)
  BY <1>1, <1>3, <1>4 DEF Serving, EndAfter, Slot, Desc
<1>6. /\ copied' = copied /\ left' = left - 1 /\ begun' = begun + 1
      /\ next' = IF left' > 0 THEN begun' ELSE total - 1
  BY <1>1, <1>2, <1>3 DEF Serving, LeftAfter, ChunkAfter, copied, begun
<1>7. ASSUME NEW d \in Desc
      PROVE  /\ ChunkAt(d)' \in Nat
             /\ d \in done' <=> ChunkAt(d)' < copied'
             /\ desc'[d].irq   <=> ChunkAt(d)' < begun'
             /\ desc'[d].valid <=> copied' <= ChunkAt(d)' /\ ChunkAt(d)' < begun'
             /\ desc'[d].valid => desc'[d].chunk = ChunkAt(d)'
  <2>1. /\ ChunkAt(d)' \in Nat
        /\ d \in done' <=> ChunkAt(d)' < copied'
        /\ Acked[d].irq <=> ChunkAt(d)' < begun
        /\ Acked[d].valid <=> copied <= ChunkAt(d)' /\ ChunkAt(d)' < begun
        /\ Acked[d].valid => Acked[d].chunk = ChunkAt(d)'
    BY <1>1, <1>2, <1>6, ServedRing
  <2>2. d = EndAfter <=> ChunkAt(d)' = begun
    BY <1>1, <1>2, <1>3, <1>4, <1>5 DEF Serving, ChunkAt, Desc
  <2>3. CASE d = EndAfter
    <3>1. desc'[d].irq /\ desc'[d].valid /\ desc'[d].chunk = begun
      BY <1>2, <1>3, <2>3, ProgrammedFields
    <3> QED BY <1>1, <1>6, <2>1, <2>2, <2>3, <3>1 DEF Serving
  <2>4. CASE d # EndAfter
    <3>1. desc'[d] = Acked[d] BY <1>2, <2>4, ProgrammedFields
    <3>2. ChunkAt(d)' < begun <=> ChunkAt(d)' < begun'
      BY <1>1, <1>6, <2>1, <2>2, <2>4 DEF Serving
    <3> QED BY <1>6, <2>1, <3>1, <3>2
  <2> QED BY <2>3, <2>4
<1>8. RingOK'
  <2>1. \A d \in Desc : Acked[d].irq => desc'[d].irq
    BY <1>2, ProgrammedFields
  <2>2. pend' <=> served' < copied' BY <1>1, <1>2, <1>6, <2>1, ServedPending
  <2>3. /\ left' <= total' /\ served' <= copied' /\ copied' <= begun'
        /\ begun' <= served' + N
    BY <1>1, <1>2, <1>6 DEF Serving
  <2>4. (active = IF copied < begun THEN Slot(copied) ELSE NoDesc)'
    <3>1. active' = Slot(copied)
      BY <1>1, <1>2, <1>3, <1>5 DEF Serving, Slot, NoDesc, Desc
    <3>2. copied' < begun' BY <1>1, <1>6 DEF Serving
    <3> QED BY <1>6, <3>1, <3>2 DEF Slot
  <2>5. (/\ moved = [i \in 1 .. copied |-> i - 1]
         /\ next = IF left > 0 THEN begun ELSE total - 1)'
    BY <1>2, <1>3, <1>6
  <2> QED BY <1>7, <2>2, <2>3, <2>4, <2>5 DEF RingOK
<1>9. LoopOK'
  BY <1>1, <1>2, <1>3, <1>5, <1>6 DEF LoopOK, Serving, main
<1>10. cur' = Slot(served)'
  BY <1>1, <1>2, <1>4 DEF Serving, Following, Slot
<1> QED BY <1>1, <1>2, <1>4, <1>8, <1>9, <1>10 DEF Situation, Running, Serving, main

\* ... when every chunk has been served: the transfer is over.
LEMMA EndSituation ==
  ASSUME TypeOK, Situation, WithinLimits, ~tainted, CompleteEnd
  PROVE  Situation'
<1>1. Serving BY EnterServing DEF CompleteEnd
<1>2. /\ done' = done \ {cur} /\ desc' = Acked /\ state' = "COMPLETED"
      /\ isr' \in {"none", "complete"} /\ pend' = \E d \in done' : desc'[d].irq
      /\ UNCHANGED <<main, total, moved, active>>
      /\ left = 0 /\ ~Acked[Following].irq
  BY DEF CompleteEnd, EnterComplete, LeaveComplete, AllServed
<1>3. served + 1 = begun /\ copied = begun /\ begun = total
  <2>1. ASSUME served + 1 < begun PROVE FALSE
    <3>1. Following \in Desc /\ ChunkAt(Following) = served + 1
      BY <1>1, <2>1, FollowingChunk
    <3>2. Following # cur /\ desc[Following].irq BY <1>1, <2>1, <3>1 DEF Serving
    <3> QED BY <1>2, <3>1, <3>2, AckedFields
  <2> QED BY <1>1, <1>2, <2>1 DEF Serving
<1>4. ASSUME NEW d \in Desc
      PROVE  ~desc'[d].valid /\ ~desc'[d].irq /\ d \notin done'
  <2>1. /\ Acked[d].valid = desc[d].valid
        /\ Acked[d].irq <=> d # cur /\ desc[d].irq
    BY AckedFields
  <2> QED BY <1>1, <1>2, <1>3, <2>1 DEF Serving
<1>5. done' = {} BY <1>2, <1>4 DEF TypeOK
<1>6. Quiet'
  BY <1>1, <1>2, <1>3, <1>4, <1>5 DEF Quiet, Serving, Running, RingOK, NoDesc
<1>7. moved' = [i \in 1 .. total' |-> i - 1]
  BY <1>1, <1>2, <1>3 DEF Serving, Running, RingOK
<1> QED BY <1>1, <1>2, <1>6, <1>7 DEF Situation, Ended, Serving, main

\* The error interrupt, and the return of the completion handler.
LEMMA ErrorSituation ==
  ASSUME TypeOK, Situation, WithinLimits, ~tainted,
         ErrorIRQ \/ ErrorClear \/ HandlerReturn
  PROVE  Situation'
<1>1. CASE ErrorIRQ
  <2>1. pc = "idle" /\ isr = "none" /\ fault \in Failures
    BY <1>1 DEF ErrorIRQ, InterruptsOpen, WithinLimits, TypeOK
  <2>2. Failing'
    BY <1>1, <2>1 DEF ErrorIRQ, ErrorStatus, Failing, main, hw
  <2> QED BY <2>2 DEF Situation
<1>2. CASE ErrorClear
  <2>1. Failing
    BY <1>2 DEF ErrorClear, Situation, Running, Ended, Aborting, Failing
  <2>2. pc' = pc /\ state' = state /\ total' = total /\ pend' = pend /\ state \in Failures
    BY <1>2, <2>1 DEF ErrorClear, drv, main, ghost, Failing
  <2>3. Quiet' BY <1>2, <2>1, <2>2 DEF ErrorClear, Quiet, Clear, Failing
  <2> QED BY <1>2, <2>1, <2>2, <2>3 DEF ErrorClear, Situation, Ended, Failing, Failures
<1>3. CASE HandlerReturn
  <2>1. UNCHANGED <<drv, main, hw, ghost>> /\ isr' = AfterHandler
        /\ isr \in {"complete", "error"}
    BY <1>3 DEF HandlerReturn
  <2>2. CASE Ended
    BY <2>1, <2>2 DEF AfterHandler, Situation, Ended, Quiet, drv, main, hw, ghost
  <2>3. CASE Failing
    BY <2>1, <2>3 DEF AfterHandler, Situation, Failing, drv, main, hw, ghost
  <2> QED BY <2>1, <2>2, <2>3 DEF Situation, Running, Aborting
<1> QED BY <1>1, <1>2, <1>3

\* The completion handler starts another transfer.
LEMMA RestartSituation ==
  ASSUME TypeOK, Situation, WithinLimits, ~tainted,
         NEW n \in 1 .. MaxChunks, HandlerRestart(n)
  PROVE  Situation'
<1>1. /\ isr \in {"complete", "error"} /\ state' = "IN_PROGRESS"
      /\ end' = (IF n < N THEN n ELSE N) /\ cur' = 0
      /\ left' = (IF n > N THEN n - N ELSE 0)
      /\ next' = (IF n > N THEN N ELSE n - 1)
      /\ desc' = [d \in Desc |-> IF d < n THEN Programmed(desc, d, d)[d] ELSE desc[d]]
      /\ active' = 0 /\ total' = n /\ moved' = <<>> /\ served' = 0
      /\ isr' = AfterHandler /\ tainted' = (tainted \/ isr = "error")
      /\ UNCHANGED <<main, done, pend>>
  BY DEF HandlerRestart
<1>2. CASE isr = "error" BY <1>1, <1>2 DEF Situation
<1>3. CASE isr = "complete"
  <2>1. Ended BY <1>3 DEF Situation, Running, Aborting, Failing
  <2>2. copied' = 0 /\ begun' = (IF n < N THEN n ELSE N)
    BY <1>1 DEF copied, begun
  <2>3. \A d \in Desc : ChunkAt(d)' = d BY <1>1 DEF ChunkAt, Desc
  <2>4. ASSUME NEW d \in Desc
        PROVE  /\ desc'[d].irq   <=> d < begun'
               /\ desc'[d].valid <=> 0 <= d /\ d < begun'
               /\ desc'[d].valid => desc'[d].chunk = d
               /\ d \in done'    <=> d < 0
    <3>1. ~desc[d].valid /\ ~desc[d].irq /\ d \notin done' BY <1>1, <2>1 DEF Ended, Quiet
    <3>2. d < n <=> d < begun' BY <2>2 DEF Desc
    <3>3. 0 <= d /\ ~(d < 0) BY DEF Desc
    <3>4. CASE d < n
      <4>1. desc'[d] = Programmed(desc, d, d)[d] BY <1>1, <3>4
      <4> QED BY <3>1, <3>2, <3>3, <3>4, <4>1, ProgrammedFields
    <3>5. CASE ~(d < n)
      <4>1. desc'[d] = desc[d] BY <1>1, <3>5
      <4> QED BY <3>1, <3>2, <3>3, <3>5, <4>1
    <3> QED BY <3>4, <3>5
  <2>5. RingOK'
    <3>1. (\A d \in Desc :
             /\ desc[d].irq   <=> ChunkAt(d) < begun
             /\ desc[d].valid <=> copied <= ChunkAt(d) /\ ChunkAt(d) < begun
             /\ desc[d].valid => desc[d].chunk = ChunkAt(d)
             /\ d \in done    <=> ChunkAt(d) < copied)'
      BY <2>2, <2>3, <2>4
    <3>2. /\ left' <= total' /\ served' <= copied' /\ copied' <= begun'
          /\ begun' <= served' + N
          /\ next' = IF left' > 0 THEN begun' ELSE total' - 1
          /\ moved' = [i \in 1 .. copied' |-> i - 1]
      BY <1>1, <2>2
    <3>3. active' = (IF copied < begun THEN Slot(copied) ELSE NoDesc)'
      BY <1>1, <2>2 DEF Slot
    <3>4. ~pend' /\ ~(served' < copied') BY <1>1, <2>1, <2>2 DEF Ended, Quiet
    <3> QED BY <3>1, <3>2, <3>3, <3>4 DEF RingOK
  <2>6. LoopOK' BY <1>1, <2>1, <2>2 DEF LoopOK, Ended, main
  <2> QED BY <1>1, <1>3, <2>1, <2>5, <2>6
          DEF Situation, Running, Ended, AfterHandler, Slot, main
<1> QED BY <1>1, <1>2, <1>3

\* A tainted driver stays so until MSS_HPDMA_init.
LEMMA TaintedSituation ==
  ASSUME Situation, tainted, Next
  PROVE  Situation'
<1>1. CASE MainStep
  BY <1>1 DEF MainStep, LoopTest, LoopCall, LoopInc, AbortClear, AbortEnd, ghost, Situation
<1>2. CASE Call
  <2>1. Reinit BY <1>2 DEF Call
  <2> QED BY <1>2, <2>1 DEF Call, Reinit, Situation, Ended, Quiet, Clear, main
<1>3. CASE Engine
  BY <1>3 DEF Engine, EngineMove, EngineFault, ghost, Situation
<1>4. CASE Isr
  BY <1>4 DEF Isr, CompleteMore, CompleteWait, CompleteEnd, LeaveComplete, ErrorIRQ,
              ErrorClear, HandlerReturn, HandlerRestart, ghost, Situation
<1> QED BY <1>1, <1>2, <1>3, <1>4 DEF Next

\* Every step keeps the driver in one of the four situations.
LEMMA NextSituation ==
  ASSUME WithinLimits, TypeOK, Situation, Next
  PROVE  Situation'
<1>1. CASE tainted BY <1>1, TaintedSituation
<1>2. CASE ~tainted
  <2>1. CASE MainStep BY <1>2, <2>1, LoopSituation, AbortSituation DEF MainStep
  <2>2. CASE Call BY <2>2, CallSituation
  <2>3. CASE Engine BY <1>2, <2>3, MoveSituation, FaultSituation DEF Engine
  <2>4. CASE Isr
    BY <1>2, <2>4, MoreSituation, WaitSituation, EndSituation, ErrorSituation,
       RestartSituation DEF Isr
  <2> QED BY <2>1, <2>2, <2>3, <2>4 DEF Next
<1> QED BY <1>1, <1>2

\* So does a step of the rest of the system.
LEMMA StutterSituation == Situation /\ UNCHANGED vars => Situation'
<1> SUFFICES ASSUME Situation, UNCHANGED vars PROVE Situation' OBVIOUS
<1> USE DEF vars, drv, main, hw, ghost
<1>1. Running => Running'
  BY DEF Running, RingOK, LoopOK, copied, begun, ChunkAt, Slot
<1>2. Ended => Ended' BY DEF Ended, Quiet
<1>3. Aborting => Aborting' BY DEF Aborting
<1>4. Failing => Failing' BY DEF Failing
<1> QED BY <1>1, <1>2, <1>3, <1>4 DEF Situation

\* The four situations are all there are: the ring of descriptors is in step
\* with the request whatever the controller, the interrupts and the client do.
THEOREM SituationHolds ==
  ASSUME WithinLimits
  PROVE  Spec => []Situation
<1>1. Init => Situation BY InitSituation
<1>2. TypeOK /\ Situation /\ [Next]_vars => Situation'
  BY NextSituation, StutterSituation
<1> QED BY <1>1, <1>2, TypeCorrect, PTL DEF Spec

---------------------------------------------------------------------------
(* The properties.                                                         *)

\* The chunks copied are the first ones of the request, in order, whatever the
\* interleaving of the loop of MSS_HPDMA_start, the controller and the chaining
\* in the interrupt handler.
THEOREM CopiedInOrderHolds ==
  ASSUME WithinLimits
  PROVE  Spec => []CopiedInOrder
<1>1. TypeOK /\ Situation => CopiedInOrder
  <2> SUFFICES ASSUME TypeOK, Situation, total > 0, ~tainted
               PROVE  moved = [i \in 1 .. Len(moved) |-> i - 1] /\ Len(moved) <= total
    BY DEF CopiedInOrder
  <2>1. CASE Running
    BY <2>1 DEF Running, RingOK, copied, begun, TypeOK
  <2>2. CASE Ended
    <3>1. moved = [i \in 1 .. total |-> i - 1] BY <2>2 DEF Ended
    <3>2. total \in Nat BY DEF TypeOK
    <3>3. Len(moved) = total BY <3>1, <3>2
    <3> QED BY <3>1, <3>2, <3>3
  <2> QED BY <2>1, <2>2 DEF Situation, Aborting, Failing
<1> QED BY <1>1, TypeCorrect, SituationHolds, PTL

\* A transfer reported as completed has copied every chunk of the request.
THEOREM CompletedMeansCopiedHolds ==
  ASSUME WithinLimits
  PROVE  Spec => []CompletedMeansCopied
<1>1. TypeOK /\ Situation => CompletedMeansCopied
  BY DEF Situation, CompletedMeansCopied, Running, Ended, Aborting, Failing, Failures
<1> QED BY <1>1, TypeCorrect, SituationHolds, PTL

\* The interrupt handler acknowledges a descriptor that has finished.
THEOREM AcksFinishedDescriptorHolds ==
  ASSUME WithinLimits
  PROVE  Spec => []AcksFinishedDescriptor
<1>1. TypeOK /\ Situation => AcksFinishedDescriptor
  <2> SUFFICES ASSUME TypeOK, Situation, pend, total > 0, ~tainted PROVE cur \in done
    BY DEF AcksFinishedDescriptor
  <2>1. Running BY DEF Situation, Ended, Quiet, Aborting, Failing
  <2>2. /\ served \in Nat /\ served < copied /\ served < 2 * N /\ cur = Slot(served)
        /\ cur \in Desc
    BY <2>1 DEF Running, RingOK, TypeOK, WithinLimits
  <2>3. ChunkAt(cur) = served BY <2>2, SlotInverse
  <2> QED BY <2>1, <2>2, <2>3 DEF Running, RingOK
<1> QED BY <1>1, TypeCorrect, SituationHolds, PTL

\* A transfer in progress always has something at work for it.
THEOREM NeverStrandedHolds ==
  ASSUME WithinLimits
  PROVE  Spec => []NeverStranded
<1>1. TypeOK /\ Situation => NeverStranded
  <2> SUFFICES ASSUME TypeOK, Situation, state = "IN_PROGRESS", ~tainted,
                      active = NoDesc, pc = "idle"
               PROVE  pend
    BY DEF NeverStranded
  <2>1. Running BY DEF Situation, Ended, Aborting, Failing, Failures
  <2>2. served < begun /\ copied <= begun /\ copied \in Nat /\ begun \in Int
    BY <2>1 DEF Running, RingOK, LoopOK, TypeOK, copied, begun
  <2>3. ASSUME copied < begun PROVE FALSE
    <3>1. Slot(copied) = NoDesc BY <2>1, <2>3 DEF Running, RingOK
    <3>2. copied < 2 * N
      BY <2>1, <2>2, <2>3 DEF Running, RingOK, begun, TypeOK, WithinLimits
    <3> QED BY <2>2, <3>1, <3>2 DEF Slot, NoDesc
  <2> QED BY <2>1, <2>2, <2>3 DEF Running, RingOK, TypeOK
<1> QED BY <1>1, TypeCorrect, SituationHolds, PTL

\* MSS_HPDMA_abort, and the error interrupt, leave nothing at work.
THEOREM AbortStopsHolds ==
  ASSUME WithinLimits
  PROVE  Spec => []AbortStops
<1>1. TypeOK /\ Situation => AbortStops
  BY DEF Situation, AbortStops, Running, Ended, Quiet, Aborting, Failing
<1> QED BY <1>1, TypeCorrect, SituationHolds, PTL

\* The step leaves the chunk of a descriptor at work as it is.
KeepsChunks ==
  \A d \in Desc : desc[d].valid /\ desc'[d].valid => desc'[d].chunk = desc[d].chunk

\* The loop of MSS_HPDMA_start programs a free descriptor.
LEMMA LoopKeepsChunks ==
  ASSUME TypeOK, Situation, WithinLimits, ~tainted, LoopCall
  PROVE  KeepsChunks
<1>1. Running
  BY DEF Situation, Running, Ended, Aborting, Failing, LoopCall
<1>2. end = begun /\ served = 0 /\ end \in Nat /\ desc' = Programmed(desc, end, arg.next)
  BY <1>1 DEF LoopCall, start_transfer, Running, LoopOK, TypeOK
<1>3. ASSUME NEW d \in Desc, desc[d].valid PROVE desc'[d].chunk = desc[d].chunk
  <2>1. ChunkAt(d) < begun BY <1>1, <1>3 DEF Running, RingOK
  <2>2. ChunkAt(d) = d BY <1>2 DEF ChunkAt, Desc
  <2>3. d # end BY <1>2, <2>1, <2>2 DEF Desc
  <2> QED BY <1>2, <2>3, ProgrammedFields
<1> QED BY <1>3 DEF KeepsChunks

\* So does the interrupt handler.
LEMMA MoreKeepsChunks ==
  ASSUME TypeOK, Situation, WithinLimits, ~tainted, CompleteMore
  PROVE  KeepsChunks
<1>1. Serving /\ left > 0 BY EnterServing DEF CompleteMore
<1>2. begun >= N /\ end = IF begun = N THEN N ELSE begun - N - 1
  BY <1>1 DEF Serving, Running, LoopOK
<1>3. EndAfter = begun - N /\ begun < 2 * N
  BY <1>1, <1>2 DEF Serving, EndAfter
<1>4. desc' = Programmed(Acked, EndAfter, next) BY DEF CompleteMore
<1>5. ASSUME NEW d \in Desc, desc[d].valid PROVE desc'[d].chunk = desc[d].chunk
  <2>1. copied <= ChunkAt(d) /\ ChunkAt(d) < begun BY <1>1, <1>5 DEF Serving
  <2>2. d # EndAfter BY <1>1, <1>2, <1>3, <2>1 DEF Serving, ChunkAt, Desc
  <2>3. desc'[d] = Acked[d] BY <1>4, <2>2, ProgrammedFields
  <2> QED BY <2>3, AckedFields
<1> QED BY <1>5 DEF KeepsChunks

\* No descriptor the controller still holds is programmed again.
THEOREM NoOverwriteHolds ==
  ASSUME WithinLimits
  PROVE  Spec => NoOverwrite
<1>1. ASSUME TypeOK, Situation, [Next]_vars
      PROVE  [~tainted' => KeepsChunks]_vars
  <2> SUFFICES ASSUME Next, ~tainted' PROVE KeepsChunks BY <1>1
  <2>1. CASE MainStep
    <3>1. ~tainted
      BY <2>1 DEF MainStep, LoopTest, LoopCall, LoopInc, AbortClear, AbortEnd, ghost
    <3>2. CASE LoopCall BY <1>1, <3>1, <3>2, LoopKeepsChunks
    <3>3. CASE AbortClear
      BY <3>3 DEF AbortClear, Cleared, Clear, KeepsChunks
    <3>4. CASE LoopTest \/ LoopInc \/ AbortEnd
      BY <3>4 DEF LoopTest, LoopInc, AbortEnd, hw, KeepsChunks
    <3> QED BY <2>1, <3>2, <3>3, <3>4 DEF MainStep
  <2>2. CASE Call
    <3>1. CASE Pause \/ Resume
      <4>1. PICK b \in BOOLEAN : desc' = [desc EXCEPT ![cur].paused = b]
        BY <3>1 DEF Pause, Resume
      <4>2. ASSUME NEW d \in Desc PROVE desc'[d].chunk = desc[d].chunk
        <5>1. desc[d] \in Register /\ desc \in [Desc -> Register]
          BY <1>1 DEF TypeOK, Register
        <5>2. CASE d = cur
          <6>1. desc'[d] = [desc[d] EXCEPT !.paused = b] BY <4>1, <5>1, <5>2, Zenon
          <6> QED BY <5>1, <6>1 DEF Register
        <5>3. CASE d # cur
          <6>1. desc'[d] = desc[d] BY <4>1, <5>1, <5>3, Zenon
          <6> QED BY <6>1
        <5> QED BY <5>2, <5>3
      <4> QED BY <4>2 DEF KeepsChunks
    <3>2. CASE Reinit BY <3>2 DEF Reinit, Clear, KeepsChunks
    <3>3. CASE Abort \/ (\E n \in 1 .. MaxChunks : Start(n))
               \/ (\E h \in BOOLEAN : SetHandler(h))
      BY <3>3 DEF Abort, Start, SetHandler, hw, KeepsChunks
    <3> QED BY <2>2, <3>1, <3>2, <3>3 DEF Call
  <2>3. CASE Engine
    <3>1. CASE EngineMove
      <4>1. active \in Desc /\ desc' = [desc EXCEPT ![active].valid = FALSE]
        BY <1>1, <3>1 DEF EngineMove, TypeOK, NoDesc
      <4> QED BY <1>1, <4>1, MoveFields DEF KeepsChunks
    <3>2. ASSUME NEW k \in Failures, EngineFault(k) PROVE KeepsChunks
      BY <3>2 DEF EngineFault, KeepsChunks
    <3> QED BY <2>3, <3>1, <3>2 DEF Engine
  <2>4. CASE Isr
    <3>1. ~tainted
      BY <2>4 DEF Isr, CompleteMore, CompleteWait, CompleteEnd, LeaveComplete, ErrorIRQ,
                  ErrorClear, HandlerReturn, HandlerRestart, ghost
    <3>2. CASE CompleteMore BY <1>1, <3>1, <3>2, MoreKeepsChunks
    <3>3. CASE CompleteWait \/ CompleteEnd
      BY <1>1, <3>3, AckedFields DEF CompleteWait, CompleteEnd, KeepsChunks
    <3>4. CASE ErrorIRQ \/ HandlerReturn
      BY <3>4 DEF ErrorIRQ, HandlerReturn, hw, KeepsChunks
    <3>5. CASE ErrorClear BY <3>5 DEF ErrorClear, Clear, KeepsChunks
    <3>6. ASSUME NEW n \in 1 .. MaxChunks, HandlerRestart(n) PROVE KeepsChunks
      <4>1. isr = "complete" BY <3>1, <3>6 DEF HandlerRestart
      <4>2. Ended BY <1>1, <3>1, <4>1 DEF Situation, Running, Aborting, Failing
      <4> QED BY <4>2 DEF Ended, Quiet, KeepsChunks
    <3> QED BY <2>4, <3>2, <3>3, <3>4, <3>5, <3>6 DEF Isr
  <2> QED BY <2>1, <2>2, <2>3, <2>4 DEF Next
<1>2. [~tainted' => KeepsChunks]_vars =>
        [\A d \in Desc : desc[d].valid /\ desc'[d].valid /\ ~tainted' =>
           desc'[d].chunk = desc[d].chunk]_vars
  BY DEF KeepsChunks
<1> QED BY <1>1, <1>2, TypeCorrect, SituationHolds, PTL DEF Spec, NoOverwrite

============================================================================
