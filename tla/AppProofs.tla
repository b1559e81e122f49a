----------------------------- MODULE AppProofs -----------------------------
(***************************************************************************)
(* Proofs about the application and about the I2C driver that it tells the  *)
(* camera through.  The first part is about I2c: its types and its safety    *)
(* properties, for every buffer length, slave and set of bus events, from    *)
(* the inductive invariant IInv.  The second is about App: what a command is *)
(* answered and what it sets, for every set of commands and size of memory,  *)
(* from the inductive invariant AppInvariant.                               *)
(***************************************************************************)
EXTENDS I2c, App, SequenceTheorems, TLAPS

---------------------------------------------------------------------------
(* The inductive invariant, checked by TLC on the instance of the run.     *)

Clean(events) == upset \cap events = {}
Busy == m.master_status = "IN_PROGRESS"

\* The bus is held: SI stays set after the end of the transfer, and serving the
\* interrupt once more would change nothing.
Held ==
  /\ hw.SI /\ hw.phase \in {"mtx", "mrx"} /\ m.transaction = "NO"
  /\ m.hold /\ m.bus_hold
  /\ hw.phase = "mtx" => hw.status \in {"SLAW_ACK", "TX_DATA_ACK"} /\ m.tx_idx >= m.tx_size
  /\ hw.phase = "mrx" => hw.status = "RX_DATA_NACK"

\* The status is one of the phase; STO, STA and the mask of the interrupt are
\* set only in the phases that call for them.
Wiring ==
  /\ hw.status \in IF hw.SI THEN SignalsOf(hw.phase) ELSE {"none"}
  /\ hw.STO => hw.phase \in {"mtx", "mrx", "idle"} /\ (hw.SI => hw.status = "BUS_ERROR")
  /\ ~hw.nvic => hw = InitialHw \/ Held
  /\ hw.phase = "start" /\ ~hw.SI =>
       /\ ~hw.STA /\ ~m.is_transaction_pending /\ hw.dir = m.dir
       /\ IF m.dir = "R" THEN m.rx_idx = 0 ELSE m.tx_idx = 0
  /\ hw.phase \in {"mtx", "mrx"} => ~m.is_transaction_pending /\ (hw.SI => ~hw.STA)

\* A read: the byte in DATA is the one that rx_idx stands at, and the last byte,
\* and no other, is refused.
Reads ==
  hw.phase = "mrx" /\ ~hw.STO /\ ~hw.STA =>
    /\ m.dir = "R"
    /\ hw.status \in {"SLAR_ACK", "SLAR_NACK"} => m.rx_idx = 0 /\ hw.data = Addr
    /\ hw.status = "RX_DATA_ACK" => hw.data = m.rx_idx /\ m.rx_idx < m.rx_size - 1 /\ hw.AA
    /\ hw.status = "RX_DATA_NACK" => hw.data = m.rx_idx /\ m.rx_idx = m.rx_size - 1
    /\ ~hw.SI => /\ m.rx_idx < m.rx_size /\ hw.data = m.rx_idx - 1
                 /\ hw.AA <=> m.rx_idx < m.rx_size - 1

\* The driver's request is the client's, and as long as nothing has upset the
\* driver only a request in progress keeps it on the bus.
Asked ==
  /\ Busy => client = "waiting"
  /\ m.transaction \in Kinds => m.transaction = m.pending_transaction
  /\ m.pending_transaction = "WRITE" => m.dir = "W"
  /\ m.pending_transaction = "READ" => m.dir = "R"
  /\ upset = {} =>
       /\ m.transaction \in Kinds => Busy
       /\ hw.phase \in Master /\ ~hw.STO /\ ~Held => Busy
       /\ hw.status \in {"LOST_ARB", "SLV_LA"} => Busy
       /\ hw.STA \/ m.is_transaction_pending => Busy

\* slave_status is in progress from the selection of the slave to the status
\* that ends it, and an enabled slave leaves each of these able to answer.
Selected ==
  m.slave_status = "IN_PROGRESS" /\ Clean({"HOLD"}) =>
    /\ ~hw.STO
    /\ \/ hw.phase \in Slave
       \/ hw.SI /\ hw.phase = "idle" /\ hw.status \notin {"LOST_ARB"}

Listening ==
  m.is_slave_enabled /\ Clean({"BUS_ERROR", "HOLD", "SLARW_LA"}) =>
    /\ hw.STO => hw.AA
    /\ hw.phase = "idle" /\ ~hw.SI /\ ~hw.STA => hw.AA

\* A request in progress is alive, also behind the STOP of the one before.
Kept ==
  /\ hw.status = "SLARW_LA" => ~Clean({"SLARW_LA"})
  /\ Clean({"SLARW_LA", "SLV_RST", "HOLD"}) /\ Busy =>
       /\ Alive
       /\ hw.STO => hw.STA

\* What has been transferred when tx_idx, or rx_idx, is n; and all of it.
Acked(n)   == acked = [i \in 1 .. n |-> i - 1]
InPlace(n) == got = {<<i, i>> : i \in 0 .. n - 1}

\* A write-read has sent its offset and goes on to read.
Turned == m.pending_transaction = "RANDOM_READ" /\ m.dir = "R"
Offset == Turned => Acked(m.tx_size)

AtBus == ~hw.STO /\ ~hw.STA /\ ~Held

\* Before the START, and between it and the address of the target.
Starting ==
  /\ hw.phase = "start" /\ ~hw.SI =>
       /\ m.transaction = m.pending_transaction /\ m.transaction \in Kinds
       /\ InPlace(0) /\ IF m.dir = "W" THEN Acked(0) ELSE Offset
  /\ hw.phase = "start" /\ hw.SI =>
       /\ m.pending_transaction \in Kinds
       /\ IF hw.status = "START" THEN ~Turned ELSE Offset
  /\ hw.phase # "start" /\ hw.STA /\ hw.status # "BUS_ERROR" =>
       /\ m.pending_transaction \in Kinds
       /\ Turned => /\ hw.phase = "mtx" /\ ~hw.SI /\ ~hw.STO
                    /\ Acked(m.tx_size) /\ m.transaction = "RANDOM_READ"
  /\ m.is_transaction_pending \/ hw.status \in {"LOST_ARB", "SLV_LA"} =>
       m.pending_transaction \in Kinds /\ ~Turned

\* The bytes that have been sent, and received.
Transferring ==
  /\ hw.phase = "mtx" /\ AtBus =>
       /\ m.transaction = m.pending_transaction /\ m.transaction \in {"WRITE", "RANDOM_READ"}
       /\ m.dir = "W"
       /\ hw.status = "SLAW_ACK" => m.tx_idx = 0
       /\ hw.status \in {"SLAW_ACK", "TX_DATA_ACK"} => Acked(m.tx_idx)
       /\ ~hw.SI => m.tx_idx > 0 /\ hw.data = m.tx_idx - 1 /\ Acked(m.tx_idx - 1)
  /\ hw.phase = "mrx" /\ AtBus =>
       /\ m.transaction = m.pending_transaction /\ m.transaction \in {"READ", "RANDOM_READ"}
       /\ Offset /\ InPlace(m.rx_idx)

\* A held bus is that of a success; nothing goes on behind one, and the transfer
\* is whole.
Succeeded ==
  /\ Held => m.master_status = "SUCCESS"
  /\ m.master_status = "SUCCESS" =>
       /\ ~hw.STA /\ ~m.is_transaction_pending
       /\ hw.phase \in Master => hw.STO \/ Held
       /\ hw.status \notin {"LOST_ARB", "SLV_LA"}
       /\ m.pending_transaction \in {"WRITE", "RANDOM_READ"} => Acked(m.tx_size)
       /\ m.pending_transaction \in {"READ", "RANDOM_READ"} => InPlace(m.rx_size)

Transfer ==
  client = "waiting" /\ Clean({"TIMEOUT", "LOST_ARB", "HOLD"}) =>
    Starting /\ Transferring /\ Succeeded

IInv == TypeOK /\ Wiring /\ Reads /\ Asked /\ Selected /\ Listening /\ Kept /\ Transfer

---------------------------------------------------------------------------

USE I2cAssumption
USE DEF Kinds, Statuses, Reasons, Master, Slave, Addr, Clean, Busy,
        Upset, Bus, Event, Hazard, Isr, Served, Cleared, ListenIf, Pended

---------------------------------------------------------------------------
(* Types.  A record has its type when it has the shape of one that has it  *)
(* and each of its fields has the field's type.                            *)

Like(r, s) == DOMAIN r = DOMAIN s /\ r = [f \in DOMAIN r |-> r[f]]

DriverFields(r) ==
  /\ r.transaction \in Kinds \cup {"NO", "WRITE_SLAVE", "READ_SLAVE"}
  /\ r.pending_transaction \in Kinds \cup {"NO"} /\ r.dir \in {"W", "R"}
  /\ {r.tx_size, r.tx_idx, r.rx_size, r.rx_idx} \subseteq 0 .. MaxLen
  /\ r.master_status \in Statuses /\ r.hold \in BOOLEAN /\ r.bus_hold \in BOOLEAN
  /\ r.is_transaction_pending \in BOOLEAN /\ r.timeout \in BOOLEAN
  /\ r.is_slave_enabled \in BOOLEAN
  /\ r.slave_status \in Statuses \ {"TIMED_OUT"}
  /\ r.slave_rx_idx \in 0 .. SlaveRxSize
  /\ {r.slave_tx_idx, r.random_read_addr} \subseteq Offsets

ControllerFields(h) ==
  /\ {h.STA, h.STO, h.AA, h.SI, h.nvic} \subseteq BOOLEAN
  /\ h.status \in Signals /\ h.dir \in {"W", "R"} /\ h.data \in Addr .. MaxLen
  /\ h.phase \in {"idle"} \cup Master \cup Slave

LEMMA DriverOfFields ==
  ASSUME NEW s \in Driver, NEW r, Like(r, s), DriverFields(r)
  PROVE  r \in Driver
BY Zenon DEF Driver, DriverFields, Like

LEMMA ControllerOfFields ==
  ASSUME NEW s \in Controller, NEW r, Like(r, s), ControllerFields(r)
  PROVE  r \in Controller
BY Zenon DEF Controller, ControllerFields, Like

\* Every step only updates fields of the two records, or starts them anew.
LEMMA ShapesKept ==
  ASSUME m \in Driver, hw \in Controller, [Next]_vars
  PROVE  Like(m', m) /\ Like(hw', hw)
<1> USE DEF Like, Driver, Controller
<1>1. ASSUME NEW kind, NEW tx, NEW rx, NEW hold, Request(kind, tx, rx, hold)
     PROVE  Like(m', m) /\ Like(hw', hw)
  BY ZenonT(40), <1>1 DEF Request
<1>2. CASE StatusSeen BY Zenon, <1>2 DEF StatusSeen
<1>3. ASSUME NEW timed, WaitComplete(timed) PROVE Like(m', m) /\ Like(hw', hw)
  BY Zenon, <1>3 DEF WaitComplete
<1>4. CASE EnableSlave BY Zenon, <1>4 DEF EnableSlave
<1>5. CASE DisableSlave BY Zenon, <1>5 DEF DisableSlave
<1>6. CASE Reinit BY Zenon, <1>6 DEF Reinit, InitialRecord, InitialHw
<1>7. CASE ClientStep
  BY <1>1, <1>2, <1>3, <1>4, <1>5, <1>6, <1>7 DEF ClientStep, Requests
<1>8. CASE TickExpired BY Zenon, <1>8 DEF TickExpired
<1>9. CASE BusStart BY Zenon, <1>9 DEF BusStart
<1>10. CASE BusStop BY Zenon, <1>10 DEF BusStop
<1>11. CASE BusAddressed BY Zenon, <1>11 DEF BusAddressed
<1>12. CASE BusSent BY Zenon, <1>12 DEF BusSent
<1>13. CASE BusReceived BY Zenon, <1>13 DEF BusReceived
<1>14. CASE BusLostArb BY Zenon, <1>14 DEF BusLostArb
<1>15. CASE BusLostToWriter BY Zenon, <1>15 DEF BusLostToWriter
<1>16. CASE BusLostToReader BY Zenon, <1>16 DEF BusLostToReader
<1>17. CASE BusSelected BY ZenonT(40), <1>17 DEF BusSelected
<1>18. CASE BusSlaveWritten BY Zenon, <1>18 DEF BusSlaveWritten
<1>19. CASE BusSlaveRead BY Zenon, <1>19 DEF BusSlaveRead
<1>20. CASE BusSlaveReset BY Zenon, <1>20 DEF BusSlaveReset
<1>21. CASE BusError BY Zenon, <1>21 DEF BusError
<1>22. CASE BusStep
  BY <1>9, <1>10, <1>11, <1>12, <1>13, <1>14, <1>15, <1>16, <1>17, <1>18, <1>19,
     <1>20, <1>21, <1>22 DEF BusStep, BusOther
<1>23. CASE IsrStart BY Zenon, <1>23 DEF IsrStart, AtStart
<1>24. CASE IsrLostArb BY Zenon, <1>24 DEF IsrLostArb
<1>25. CASE IsrRefused BY Zenon, <1>25 DEF IsrRefused
<1>26. CASE IsrSendNext BY Zenon, <1>26 DEF IsrSendNext
<1>27. CASE IsrTurnRound BY Zenon, <1>27 DEF IsrTurnRound
<1>28. CASE IsrSent BY Zenon, <1>28 DEF IsrSent, Finish
<1>29. CASE IsrReadAddressed
  <2>1. CASE m.rx_size = 0 BY Zenon, <1>29, <2>1 DEF IsrReadAddressed
  <2>2. CASE m.rx_size # 0
    <3>1. m' = m /\ hw' = [Cleared EXCEPT !.AA = m.rx_size > 1]
      BY <1>29, <2>2 DEF IsrReadAddressed
    <3> QED BY Zenon, <3>1
  <2> QED BY <2>1, <2>2
<1>30. CASE IsrReceived BY Zenon, <1>30 DEF IsrReceived
<1>31. CASE IsrReceivedLast BY Zenon, <1>31 DEF IsrReceivedLast, Store, Finish
<1>32. CASE IsrSlaveSelected BY Zenon, <1>32 DEF IsrSlaveSelected
<1>33. CASE IsrSlaveData
  <2>1. CASE RoomInSlaveRx BY Zenon, <1>33, <2>1 DEF IsrSlaveData
  <2>2. CASE ~RoomInSlaveRx
    <3>1. m' = m /\ hw' = [Cleared EXCEPT !.AA = @ /\ m'.slave_rx_idx < SlaveRxSize]
      BY <1>33, <2>2 DEF IsrSlaveData
    <3> QED BY Zenon, <3>1
  <2> QED BY <2>1, <2>2
<1>34. CASE IsrSlaveRefused BY Zenon, <1>34 DEF IsrSlaveRefused
<1>35. CASE IsrSlaveReset BY Zenon, <1>35 DEF IsrSlaveReset
<1>36. CASE IsrSlaveSend BY ZenonT(40), <1>36 DEF IsrSlaveSend
<1>37. CASE IsrSlaveSent BY Zenon, <1>37 DEF IsrSlaveSent
<1>38. CASE IsrBusError BY Zenon, <1>38 DEF IsrBusError
<1>39. ASSUME NEW answer, IsrSlaveStop(answer) PROVE Like(m', m) /\ Like(hw', hw)
  BY ZenonT(40), <1>39 DEF IsrSlaveStop
<1>40. CASE IsrStep
  BY <1>23, <1>24, <1>25, <1>26, <1>27, <1>28, <1>29, <1>30, <1>31, <1>32,
     <1>33, <1>34, <1>35, <1>36, <1>37, <1>38, <1>39, <1>40 DEF IsrStep
<1>41. CASE UNCHANGED vars BY Zenon, <1>41 DEF vars
<1> QED BY <1>7, <1>8, <1>22, <1>40, <1>41 DEF Next

---------------------------------------------------------------------------
(* What has been transferred when nothing has; and an interrupt that the   *)
(* NVIC does not let through is that of a held bus.                        *)

LEMMA NothingMoved ==
  <<>> = [i \in 1 .. 0 |-> i - 1] /\ {<<i, i>> : i \in 0 .. 0 - 1} = {}
OBVIOUS

LEMMA EmptyIsBytes == <<>> \in Seq(Addr .. MaxLen)
OBVIOUS

\* One more byte is in its place.
LEMMA PlacedNext ==
  ASSUME NEW n \in Nat
  PROVE  {<<i, i>> : i \in 0 .. n - 1} \cup {<<n, n>>} =
           {<<i, i>> : i \in 0 .. n + 1 - 1}
<1>1. 0 .. n + 1 - 1 = (0 .. n - 1) \cup {n} OBVIOUS
<1> QED BY <1>1

LEMMA InitialInRange ==
  /\ 0 \in 0 .. MaxLen /\ 0 \in 0 .. SlaveRxSize /\ 0 \in Offsets
  /\ Addr \in Addr .. MaxLen
BY DEF Offsets

\* The offset that the bytes make up has the width of its variable, and a slave that
\* goes on in its buffer stays in it.
LEMMA OffsetsAre ==
  ASSUME NEW r \in Offsets, NEW byte \in SlaveBytes
  PROVE  (r * 256 + byte) % Wrap \in Offsets
<1>1. r \in Nat /\ byte \in Nat /\ Wrap \in Nat /\ Wrap > 0 BY DEF Offsets
<1>2. r * 256 + byte \in Nat BY <1>1
<1>3. (r * 256 + byte) % Wrap \in 0 .. Wrap - 1 BY <1>1, <1>2
<1> QED BY <1>3 DEF Offsets

LEMMA OffsetNext ==
  ASSUME m.slave_tx_idx \in Offsets, m.slave_tx_idx < SlaveTxSize
  PROVE  m.slave_tx_idx + 1 \in Offsets
BY DEF Offsets

LEMMA Unmasked == TypeOK /\ Wiring /\ hw.SI /\ ~hw.nvic => Held
BY DEF TypeOK, Controller, Wiring, InitialHw

---------------------------------------------------------------------------
(* The inductive invariant, with the types as those of the fields: every   *)
(* action keeps it.                                                        *)

Fields ==
  /\ DriverFields(m) /\ m.tx_idx <= m.tx_size /\ m.rx_idx <= m.rx_size
  /\ ControllerFields(hw)
  /\ client \in {"free", "waiting"} /\ upset \subseteq Reasons
  /\ acked \in Seq(Addr .. MaxLen) /\ got \subseteq Nat \X (Addr .. MaxLen)

Situation ==
  Fields /\ Wiring /\ Reads /\ Asked /\ Selected /\ Listening /\ Kept /\ Transfer


\* A request of the client: it is free, so that nothing goes on.
LEMMA RequestKeeps ==
  ASSUME IInv, NEW kind \in Kinds, NEW tx \in 0 .. MaxLen, NEW rx \in 0 ..
         MaxLen, NEW hold \in BOOLEAN, Request(kind, tx, rx, hold)
  PROVE  Situation'
<1> USE DEF IInv, Request
<1>1. Fields'
  BY SMTT(30) DEF EventWaiting, Fields, DriverFields, ControllerFields, TypeOK, Driver,
      Controller, Signals
<1>2. Wiring'
  BY SMTT(30) DEF EventWaiting, Wiring, Held, InitialHw, SignalsOf, TypeOK, Driver,
      Controller, Signals, Asked, Selected
<1>3. Reads'
  BY SMTT(30) DEF EventWaiting, Reads, TypeOK, Driver, Controller, Signals, Wiring,
      Held, InitialHw, SignalsOf, Selected
<1>4. Asked' BY DEF EventWaiting, Asked, Held
<1>5. Selected'
  BY SMTT(30) DEF EventWaiting, Selected, TypeOK, Driver, Controller, Signals, Wiring,
      Held, InitialHw, SignalsOf
<1>6. Listening'
  BY Unmasked DEF EventWaiting, TypeOK, Driver, Controller, Wiring, SignalsOf, Held,
       Selected, Listening
<1>7. Kept'
  BY Unmasked DEF EventWaiting, TypeOK, Driver, Controller, Held, Selected, Kept, Alive
<1>8. Transfer'
  BY SMTT(30) DEF EventWaiting, Transfer, Starting, Transferring, Succeeded, AtBus,
      Held, Offset, Turned, Acked, InPlace, TypeOK, Driver, Controller,
      Signals, Wiring, InitialHw, SignalsOf, Asked, Selected, Reads
<1> QED BY <1>1, <1>2, <1>3, <1>4, <1>5, <1>6, <1>7, <1>8 DEF Situation

LEMMA RequestsKeeps ==
  ASSUME IInv, Requests
  PROVE  Situation'
<1>1. PICK hold \in BOOLEAN :
        \/ \E n \in 0 .. MaxLen : Request("WRITE", n, 0, hold)
        \/ \E n \in 0 .. MaxLen : Request("READ", 0, n, hold)
        \/ \E t, r \in 1 .. MaxLen : Request("RANDOM_READ", t, r, hold)
  BY Zenon DEF Requests
<1>2. 0 \in 0 .. MaxLen /\ 1 .. MaxLen \subseteq 0 .. MaxLen OBVIOUS
<1> QED BY <1>1, <1>2, RequestKeeps

\* The client sees the end of its request.
LEMMA StatusSeenKeeps ==
  ASSUME IInv, StatusSeen
  PROVE  Situation'
<1> USE DEF IInv, StatusSeen
<1>1. Fields'
  BY DEF Fields, DriverFields, ControllerFields, TypeOK, Driver, Controller,
      Signals
<1>2. Wiring'
  BY DEF Wiring, Held, InitialHw, SignalsOf, TypeOK, Driver, Controller,
      Signals
<1>3. (Reads /\ Asked /\ Selected /\ Listening /\ Kept)'
  BY DEF Reads, Asked, Held, Selected, Listening, Kept, Alive
<1>4. Transfer'
  BY DEF Transfer, Starting, Transferring, Succeeded, AtBus, Held, Offset,
      Turned, Acked, InPlace
<1> QED BY <1>1, <1>2, <1>3, <1>4 DEF Situation

\* The client sets its time-out.
LEMMA WaitCompleteKeeps ==
  ASSUME IInv, NEW timed \in BOOLEAN, WaitComplete(timed)
  PROVE  Situation'
<1> USE DEF IInv, WaitComplete
<1>1. Fields'
  BY DEF Fields, DriverFields, ControllerFields, TypeOK, Driver, Controller,
      Signals
<1>2. Wiring'
  BY DEF Wiring, Held, InitialHw, SignalsOf, TypeOK, Driver, Controller,
      Signals
<1>3. (Reads /\ Asked /\ Selected /\ Listening /\ Kept)'
  BY DEF Reads, Asked, Held, Selected, Listening, Kept, Alive
<1>4. Transfer'
  BY DEF Transfer, Starting, Transferring, Succeeded, AtBus, Held, Offset,
      Turned, Acked, InPlace
<1> QED BY <1>1, <1>2, <1>3, <1>4 DEF Situation

\* The client enables the slave, or disables it.
LEMMA EnableSlaveKeeps ==
  ASSUME IInv, EnableSlave
  PROVE  Situation'
<1> USE DEF IInv, EnableSlave
<1>1. Fields'
  BY DEF Fields, DriverFields, ControllerFields, TypeOK, Driver, Controller,
      Signals
<1>2. Wiring'
  BY DEF Wiring, Held, InitialHw, SignalsOf, TypeOK, Driver, Controller,
      Signals
<1>3. Reads' BY DEF Reads, TypeOK, Driver, Controller, Signals, Asked, Held
<1>4. (Asked /\ Selected /\ Listening /\ Kept)'
  BY DEF Asked, Held, Selected, Listening, Kept, Alive
<1>5. Transfer'
  BY DEF Transfer, Starting, Transferring, Succeeded, AtBus, Held, Offset,
      Turned, Acked, InPlace
<1> QED BY <1>1, <1>2, <1>3, <1>4, <1>5 DEF Situation

LEMMA DisableSlaveKeeps ==
  ASSUME IInv, DisableSlave
  PROVE  Situation'
<1> USE DEF IInv, DisableSlave
<1>1. Fields'
  BY DEF Fields, DriverFields, ControllerFields, TypeOK, Driver, Controller,
      Signals
<1>2. Wiring'
  <2> USE DEF TypeOK, Controller
  <2>1. hw = InitialHw => ~hw.AA BY DEF InitialHw
  <2>2. ~hw.AA => hw' = hw OBVIOUS
  <2>3. CASE ~hw.AA BY <2>2, <2>3 DEF Wiring, Held
  <2>4. CASE hw.AA
    <3>1. hw # InitialHw BY <2>1, <2>4
    <3>2. hw' = [hw EXCEPT !.AA = FALSE] OBVIOUS
    <3> QED BY <3>1, <3>2, <2>4 DEF Wiring, Held, SignalsOf, Driver, InitialHw
  <2> QED BY <2>3, <2>4
<1>3. Reads' BY DEF Reads, TypeOK, Driver, Controller, Signals, Asked, Held
<1>4. (Asked /\ Selected /\ Listening /\ Kept)'
  BY DEF Asked, Held, Selected, Listening, Kept, Alive
<1>5. Transfer'
  BY DEF Transfer, Starting, Transferring, Succeeded, AtBus, Held, Offset,
      Turned, Acked, InPlace
<1> QED BY <1>1, <1>2, <1>3, <1>4, <1>5 DEF Situation

\* The client initialises the driver again.
LEMMA ReinitKeeps ==
  ASSUME IInv, Reinit
  PROVE  Situation'
<1> USE DEF IInv, Reinit
<1>1. Fields'
  BY InitialInRange DEF InitialRecord, InitialHw, Fields, DriverFields, ControllerFields,
      TypeOK, Driver, Controller, Signals
<1>2. Wiring' BY DEF InitialRecord, InitialHw, Wiring, Held, SignalsOf
<1>3. (Reads /\ Asked /\ Selected /\ Listening /\ Kept)'
  BY DEF InitialRecord, InitialHw, Reads, Asked, Held, Selected, Listening,
      Kept, Alive
<1>4. Transfer'
  BY DEF InitialRecord, InitialHw, Transfer, Starting, Transferring,
      Succeeded, AtBus, Held, Offset, Turned, Acked, InPlace
<1> QED BY <1>1, <1>2, <1>3, <1>4 DEF Situation

\* The system tick times the request out.
LEMMA TickExpiredKeeps ==
  ASSUME IInv, TickExpired
  PROVE  Situation'
<1> USE DEF IInv, TickExpired
<1>1. Fields'
  BY DEF Fields, DriverFields, ControllerFields, TypeOK, Driver, Controller,
      Signals
<1>2. Wiring'
  BY DEF Wiring, Held, InitialHw, SignalsOf, TypeOK, Driver, Controller,
      Signals
<1>3. (Reads /\ Asked /\ Selected /\ Listening /\ Kept)'
  BY DEF Reads, Asked, Held, Selected, Listening, Kept, Alive
<1>4. Transfer'
  BY DEF Transfer, Starting, Transferring, Succeeded, AtBus, Held, Offset,
      Turned, Acked, InPlace
<1> QED BY <1>1, <1>2, <1>3, <1>4 DEF Situation

\* START, and STOP.
LEMMA BusStartKeeps ==
  ASSUME IInv, BusStart
  PROVE  Situation'
<1> USE DEF IInv, BusStart
<1>1. Fields'
  BY DEF Fields, DriverFields, ControllerFields, TypeOK, Driver, Controller,
      Signals, Wiring, Held, InitialHw, SignalsOf
<1>2. Wiring' BY DEF Wiring, Held, InitialHw, SignalsOf
<1>3. (Reads /\ Asked /\ Selected /\ Listening /\ Kept)'
  BY DEF Reads, Asked, Held, Selected, Listening, Kept, Alive
<1>4. Transfer'
  BY DEF Transfer, Starting, Transferring, Succeeded, AtBus, Held, Offset,
      Turned, Acked, InPlace, TypeOK, Driver, Controller, Signals, Wiring,
      InitialHw, SignalsOf
<1> QED BY <1>1, <1>2, <1>3, <1>4 DEF Situation

LEMMA BusStopKeeps ==
  ASSUME IInv, BusStop
  PROVE  Situation'
<1> USE DEF IInv, BusStop
<1>1. Fields'
  BY DEF Fields, DriverFields, ControllerFields, TypeOK, Driver, Controller,
      Signals
<1>2. Wiring' BY DEF Wiring, Held, InitialHw, SignalsOf
<1>3. (Reads /\ Asked /\ Selected /\ Listening /\ Kept)'
  BY DEF Reads, Asked, Held, Selected, Listening, Kept, Alive
<1>4. Transfer'
  BY DEF Transfer, Starting, Transferring, Succeeded, AtBus, Held, Offset,
      Turned, Acked, InPlace, TypeOK, Driver, Controller, Signals, Wiring,
      InitialHw, SignalsOf
<1> QED BY <1>1, <1>2, <1>3, <1>4 DEF Situation

\* A byte is received as a master.
LEMMA BusReceivedKeeps ==
  ASSUME IInv, BusReceived
  PROVE  Situation'
<1> USE DEF IInv, BusReceived
<1>1. Fields'
  BY SMTT(30) DEF Fields, DriverFields, ControllerFields, TypeOK, Driver, Controller,
      Signals, Wiring, Held, InitialHw, SignalsOf, Reads
<1>2. Wiring' BY DEF Wiring, Held, InitialHw, SignalsOf
<1>3. Reads'
  BY SMTT(30) DEF Reads, TypeOK, Driver, Controller, Signals, Wiring, Held, InitialHw,
      SignalsOf
<1>4. (Asked /\ Selected /\ Listening /\ Kept)'
  BY DEF Asked, Held, Selected, Listening, Kept, Alive
<1>5. Transfer'
  BY DEF Transfer, Starting, Transferring, Succeeded, AtBus, Held, Offset,
      Turned, Acked, InPlace
<1> QED BY <1>1, <1>2, <1>3, <1>4, <1>5 DEF Situation

\* Arbitration is lost: to others, and to a master that addresses this device.
LEMMA BusLostArbKeeps ==
  ASSUME IInv, BusLostArb
  PROVE  Situation'
<1> USE DEF IInv, BusLostArb
<1>1. Fields'
  BY SMTT(30) DEF Fields, DriverFields, ControllerFields, TypeOK, Driver, Controller,
      Signals, Wiring, Held, InitialHw, SignalsOf
<1>2. Wiring' BY DEF Wiring, Held, InitialHw, SignalsOf
<1>3. (Reads /\ Asked /\ Selected /\ Listening /\ Kept)'
  BY DEF Reads, Asked, Held, Selected, Listening, Kept, Alive
<1>4. Transfer'
  <2> SUFFICES ASSUME client' = "waiting", Clean({"TIMEOUT", "LOST_ARB", "HOLD"})'
            PROVE  (Starting /\ Transferring /\ Succeeded)'
    BY DEF Transfer
  <2> USE DEF TypeOK, Driver, Controller, Wiring, SignalsOf, Held, Transfer
  <2>1. Starting' BY DEF Starting, Transferring, Turned, AtBus
  <2>2. Transferring' BY DEF Transferring
  <2>3. Succeeded' BY DEF Succeeded
  <2> QED BY <2>1, <2>2, <2>3
<1> QED BY <1>1, <1>2, <1>3, <1>4 DEF Situation

LEMMA BusLostToWriterKeeps ==
  ASSUME IInv, BusLostToWriter
  PROVE  Situation'
<1> USE DEF IInv, BusLostToWriter
<1>1. Fields'
  BY SMTT(30) DEF Fields, DriverFields, ControllerFields, TypeOK, Driver, Controller,
      Signals, Wiring, Held, InitialHw, SignalsOf
<1>2. Wiring' BY DEF Wiring, Held, InitialHw, SignalsOf
<1>3. Reads' BY DEF Reads
<1>4. Asked'
  BY DEF Asked, Held, TypeOK, Driver, Controller, Signals, Wiring, InitialHw,
      SignalsOf
<1>5. (Selected /\ Listening /\ Kept)' BY DEF Selected, Listening, Kept, Alive
<1>6. Transfer'
  <2> SUFFICES ASSUME client' = "waiting", Clean({"TIMEOUT", "LOST_ARB", "HOLD"})'
            PROVE  (Starting /\ Transferring /\ Succeeded)'
    BY DEF Transfer
  <2> USE DEF TypeOK, Driver, Controller, Wiring, SignalsOf, Held, Transfer
  <2>1. Starting' BY DEF Starting, Transferring, Turned, AtBus
  <2>2. Transferring' BY DEF Transferring
  <2>3. Succeeded' BY DEF Succeeded
  <2> QED BY <2>1, <2>2, <2>3
<1> QED BY <1>1, <1>2, <1>3, <1>4, <1>5, <1>6 DEF Situation

LEMMA BusLostToReaderKeeps ==
  ASSUME IInv, BusLostToReader
  PROVE  Situation'
<1> USE DEF IInv, BusLostToReader
<1>1. Fields'
  BY DEF Fields, DriverFields, ControllerFields, TypeOK, Driver, Controller,
      Signals, Wiring, Held, InitialHw, SignalsOf
<1>2. Wiring' BY DEF Wiring, Held, InitialHw, SignalsOf
<1>3. (Reads /\ Asked /\ Selected /\ Listening /\ Kept)'
  BY DEF Reads, Asked, Held, Selected, Listening, Kept, Alive
<1>4. Transfer'
  BY DEF Transfer, Starting, Transferring, Succeeded, AtBus, Held, Offset,
      Turned, Acked, InPlace, TypeOK, Driver, Controller, Signals, Wiring,
      InitialHw, SignalsOf
<1> QED BY <1>1, <1>2, <1>3, <1>4 DEF Situation

\* The time-out of a selected slave, and an illegal START or STOP.
LEMMA BusSlaveResetKeeps ==
  ASSUME IInv, BusSlaveReset
  PROVE  Situation'
<1> USE DEF IInv, BusSlaveReset
<1>1. Fields'
  BY DEF Fields, DriverFields, ControllerFields, TypeOK, Driver, Controller,
      Signals, Wiring, Held, InitialHw, SignalsOf
<1>2. Wiring' BY DEF Wiring, Held, InitialHw, SignalsOf
<1>3. (Reads /\ Asked /\ Selected /\ Listening /\ Kept)'
  BY DEF Reads, Asked, Held, Selected, Listening, Kept, Alive
<1>4. Transfer'
  BY SMTT(30) DEF Transfer, Starting, Transferring, Succeeded, AtBus, Held, Offset,
      Turned, Acked, InPlace, TypeOK, Driver, Controller, Signals, Wiring,
      InitialHw, SignalsOf
<1> QED BY <1>1, <1>2, <1>3, <1>4 DEF Situation

LEMMA BusErrorKeeps ==
  ASSUME IInv, BusError
  PROVE  Situation'
<1> USE DEF IInv, BusError
<1>1. Fields'
  BY DEF Fields, DriverFields, ControllerFields, TypeOK, Driver, Controller,
      Signals, Wiring, Held, InitialHw, SignalsOf
<1>2. Wiring' BY DEF Wiring, Held, InitialHw, SignalsOf
<1>3. (Reads /\ Asked /\ Selected /\ Listening /\ Kept)'
  BY DEF Reads, Asked, Held, Selected, Listening, Kept, Alive
<1>4. Transfer'
  BY DEF Transfer, Starting, Transferring, Succeeded, AtBus, Held, Offset,
      Turned, Acked, InPlace
<1> QED BY <1>1, <1>2, <1>3, <1>4 DEF Situation

\* The target answers its address.
LEMMA BusAddressedKeeps ==
  ASSUME IInv, BusAddressed
  PROVE  Situation'
<1> USE DEF IInv
<1>1. ASSUME Bus({"start"}), hw.dir = "W", NEW s \in {"SLAW_ACK", "SLAW_NACK"},
            Event(s, "mtx"), UNCHANGED <<acked, got, upset>>
     PROVE  Situation'
  <2> USE <1>1
  <2>1. Fields'
    BY DEF Fields, DriverFields, ControllerFields, TypeOK, Driver,
        Controller, Signals, Wiring, Held, InitialHw, SignalsOf
  <2>2. Wiring' BY DEF Wiring, Held, InitialHw, SignalsOf
  <2>3. (Reads /\ Asked /\ Selected /\ Listening /\ Kept)'
    BY DEF Reads, Asked, Held, Selected, Listening, Kept, Alive
  <2>4. Transfer'
    BY SMTT(30) DEF Transfer, Starting, Transferring, Succeeded, AtBus, Held, Offset,
        Turned, Acked, InPlace, TypeOK, Driver, Controller, Signals, Wiring,
        InitialHw, SignalsOf, Asked
  <2> QED BY <2>1, <2>2, <2>3, <2>4 DEF Situation
<1>2. ASSUME Bus({"start"}), hw.dir = "R", NEW s \in {"SLAR_ACK", "SLAR_NACK"},
            Event(s, "mrx"), UNCHANGED <<acked, got, upset>>
     PROVE  Situation'
  <2> USE <1>2
  <2>1. Fields'
    BY DEF Fields, DriverFields, ControllerFields, TypeOK, Driver,
        Controller, Signals, Wiring, Held, InitialHw, SignalsOf
  <2>2. Wiring' BY DEF Wiring, Held, InitialHw, SignalsOf
  <2>3. Reads'
    BY DEF Reads, TypeOK, Driver, Controller, Signals, Wiring, Held,
        InitialHw, SignalsOf
  <2>4. (Asked /\ Selected /\ Listening /\ Kept)'
    BY DEF Asked, Held, Selected, Listening, Kept, Alive
  <2>5. Transfer'
    BY SMTT(30) DEF Transfer, Starting, Transferring, Succeeded, AtBus, Held, Offset,
        Turned, Acked, InPlace, TypeOK, Driver, Controller, Signals, Wiring,
        InitialHw, SignalsOf, Asked
  <2> QED BY <2>1, <2>2, <2>3, <2>4, <2>5 DEF Situation
<1> QED BY <1>1, <1>2 DEF BusAddressed

\* A byte is sent.
LEMMA BusSentKeeps ==
  ASSUME IInv, BusSent
  PROVE  Situation'
<1> USE DEF IInv
<1>1. ASSUME Bus({"mtx"}), ~hw.STO, ~hw.STA, Event("TX_DATA_ACK", "mtx"),
            acked' = Append(acked, hw.data), UNCHANGED <<got, upset>>
     PROVE  Situation'
  <2> USE <1>1
  <2>1. Fields'
    BY DEF Fields, DriverFields, ControllerFields, TypeOK, Driver,
        Controller, Signals, Wiring, Held, InitialHw, SignalsOf
  <2>2. Wiring' BY DEF Wiring, Held, InitialHw, SignalsOf
  <2>3. (Reads /\ Asked /\ Selected /\ Listening /\ Kept)'
    BY DEF Reads, Asked, Held, Selected, Listening, Kept, Alive
  <2>4. Transfer'
    BY SMTT(30) DEF Transfer, Starting, Transferring, Succeeded, AtBus, Held, Offset,
        Turned, Acked, InPlace, TypeOK, Driver, Controller, Signals
  <2> QED BY <2>1, <2>2, <2>3, <2>4 DEF Situation
<1>2. ASSUME Bus({"mtx"}), ~hw.STO, ~hw.STA, Event("TX_DATA_NACK", "mtx"),
            UNCHANGED <<acked, got, upset>>
     PROVE  Situation'
  <2> USE <1>2
  <2>1. Fields'
    BY SMTT(30) DEF Fields, DriverFields, ControllerFields, TypeOK, Driver,
        Controller, Signals, Wiring, Held, InitialHw, SignalsOf
  <2>2. Wiring' BY DEF Wiring, Held, InitialHw, SignalsOf
  <2>3. (Reads /\ Asked /\ Selected /\ Listening /\ Kept)'
    BY DEF Reads, Asked, Held, Selected, Listening, Kept, Alive
  <2>4. Transfer'
    BY DEF Transfer, Starting, Transferring, Succeeded, AtBus, Held, Offset,
        Turned, Acked, InPlace
  <2> QED BY <2>1, <2>2, <2>3, <2>4 DEF Situation
<1> QED BY <1>1, <1>2 DEF BusSent

\* Another master addresses this device, and writes it or reads it.
LEMMA BusSelectedKeeps ==
  ASSUME IInv, BusSelected
  PROVE  Situation'
<1> USE DEF IInv
<1>1. ASSUME Bus({"idle"}), hw.AA, ~hw.STO, Event("SLAVE_SLAW", "srx"),
            UNCHANGED <<acked, got, upset>>
     PROVE  Situation'
  <2> USE <1>1
  <2>1. Fields'
    BY DEF Fields, DriverFields, ControllerFields, TypeOK, Driver,
        Controller, Signals, Wiring, Held, InitialHw, SignalsOf
  <2>2. Wiring' BY DEF Wiring, Held, InitialHw, SignalsOf
  <2>3. (Reads /\ Asked /\ Selected /\ Listening /\ Kept)'
    BY DEF Reads, Asked, Held, Selected, Listening, Kept, Alive
  <2>4. Transfer'
    BY DEF Transfer, Starting, Transferring, Succeeded, AtBus, Held, Offset,
        Turned, Acked, InPlace, TypeOK, Driver, Controller, Signals, Wiring,
        InitialHw, SignalsOf
  <2> QED BY <2>1, <2>2, <2>3, <2>4 DEF Situation
<1>2. ASSUME Bus({"idle"}), hw.AA, ~hw.STO, Event("SLAVE_SLAR_ACK", "stx"),
            UNCHANGED <<acked, got, upset>>
     PROVE  Situation'
  <2> USE <1>2
  <2>1. Fields'
    BY DEF Fields, DriverFields, ControllerFields, TypeOK, Driver,
        Controller, Signals, Wiring, Held, InitialHw, SignalsOf
  <2>2. Wiring' BY DEF Wiring, Held, InitialHw, SignalsOf
  <2>3. (Reads /\ Asked /\ Selected /\ Listening /\ Kept)'
    BY DEF Reads, Asked, Held, Selected, Listening, Kept, Alive
  <2>4. Transfer'
    BY DEF Transfer, Starting, Transferring, Succeeded, AtBus, Held, Offset,
        Turned, Acked, InPlace, TypeOK, Driver, Controller, Signals, Wiring,
        InitialHw, SignalsOf
  <2> QED BY <2>1, <2>2, <2>3, <2>4 DEF Situation
<1> QED BY <1>1, <1>2 DEF BusSelected

LEMMA BusSlaveWrittenKeeps ==
  ASSUME IInv, BusSlaveWritten
  PROVE  Situation'
<1> USE DEF IInv
<1>1. ASSUME Bus({"srx"}), hw.AA, Event("RDATA", "srx"),
            UNCHANGED <<acked, got, upset>>
     PROVE  Situation'
  <2> USE <1>1
  <2>1. Fields'
    BY DEF Fields, DriverFields, ControllerFields, TypeOK, Driver,
        Controller, Signals, Wiring, Held, InitialHw, SignalsOf
  <2>2. Wiring' BY DEF Wiring, Held, InitialHw, SignalsOf
  <2>3. (Reads /\ Asked /\ Selected /\ Listening /\ Kept)'
    BY DEF Reads, Asked, Held, Selected, Listening, Kept, Alive
  <2>4. Transfer'
    BY DEF Transfer, Starting, Transferring, Succeeded, AtBus, Held, Offset,
        Turned, Acked, InPlace, TypeOK, Driver, Controller, Signals, Wiring,
        InitialHw, SignalsOf
  <2> QED BY <2>1, <2>2, <2>3, <2>4 DEF Situation
<1>2. ASSUME Bus({"srx"}), ~hw.AA, Event("SLA_NACK", "idle"),
            UNCHANGED <<acked, got, upset>>
     PROVE  Situation'
  <2> USE <1>2
  <2>1. Fields'
    BY DEF Fields, DriverFields, ControllerFields, TypeOK, Driver,
        Controller, Signals, Wiring, Held, InitialHw, SignalsOf
  <2>2. Wiring' BY DEF Wiring, Held, InitialHw, SignalsOf
  <2>3. (Reads /\ Asked /\ Selected /\ Listening /\ Kept)'
    BY DEF Reads, Asked, Held, Selected, Listening, Kept, Alive
  <2>4. Transfer'
    BY DEF Transfer, Starting, Transferring, Succeeded, AtBus, Held, Offset,
        Turned, Acked, InPlace, TypeOK, Driver, Controller, Signals, Wiring,
        InitialHw, SignalsOf
  <2> QED BY <2>1, <2>2, <2>3, <2>4 DEF Situation
<1>3. ASSUME Bus({"srx"}), Event("RSTOP", "idle"),
            UNCHANGED <<acked, got, upset>>
     PROVE  Situation'
  <2> USE <1>3
  <2>1. Fields'
    BY DEF Fields, DriverFields, ControllerFields, TypeOK, Driver,
        Controller, Signals, Wiring, Held, InitialHw, SignalsOf
  <2>2. Wiring' BY DEF Wiring, Held, InitialHw, SignalsOf
  <2>3. (Reads /\ Asked /\ Selected /\ Listening /\ Kept)'
    BY DEF Reads, Asked, Held, Selected, Listening, Kept, Alive
  <2>4. Transfer'
    BY DEF Transfer, Starting, Transferring, Succeeded, AtBus, Held, Offset,
        Turned, Acked, InPlace, TypeOK, Driver, Controller, Signals, Wiring,
        InitialHw, SignalsOf
  <2> QED BY <2>1, <2>2, <2>3, <2>4 DEF Situation
<1> QED BY <1>1, <1>2, <1>3 DEF BusSlaveWritten

LEMMA BusSlaveReadKeeps ==
  ASSUME IInv, BusSlaveRead
  PROVE  Situation'
<1> USE DEF IInv
<1>1. ASSUME Bus({"stx"}), hw.AA, Event("RACK", "stx"),
            UNCHANGED <<acked, got, upset>>
     PROVE  Situation'
  <2> USE <1>1
  <2>1. Fields'
    BY DEF Fields, DriverFields, ControllerFields, TypeOK, Driver,
        Controller, Signals, Wiring, Held, InitialHw, SignalsOf
  <2>2. Wiring' BY DEF Wiring, Held, InitialHw, SignalsOf
  <2>3. (Reads /\ Asked /\ Selected /\ Listening /\ Kept)'
    BY DEF Reads, Asked, Held, Selected, Listening, Kept, Alive
  <2>4. Transfer'
    BY DEF Transfer, Starting, Transferring, Succeeded, AtBus, Held, Offset,
        Turned, Acked, InPlace, TypeOK, Driver, Controller, Signals, Wiring,
        InitialHw, SignalsOf
  <2> QED BY <2>1, <2>2, <2>3, <2>4 DEF Situation
<1>2. ASSUME Bus({"stx"}), ~hw.AA, Event("FINAL", "idle"),
            UNCHANGED <<acked, got, upset>>
     PROVE  Situation'
  <2> USE <1>2
  <2>1. Fields'
    BY DEF Fields, DriverFields, ControllerFields, TypeOK, Driver,
        Controller, Signals, Wiring, Held, InitialHw, SignalsOf
  <2>2. Wiring' BY DEF Wiring, Held, InitialHw, SignalsOf
  <2>3. (Reads /\ Asked /\ Selected /\ Listening /\ Kept)'
    BY DEF Reads, Asked, Held, Selected, Listening, Kept, Alive
  <2>4. Transfer'
    BY DEF Transfer, Starting, Transferring, Succeeded, AtBus, Held, Offset,
        Turned, Acked, InPlace, TypeOK, Driver, Controller, Signals, Wiring,
        InitialHw, SignalsOf
  <2> QED BY <2>1, <2>2, <2>3, <2>4 DEF Situation
<1>3. ASSUME Bus({"stx"}), Event("RNACK", "idle"),
            UNCHANGED <<acked, got, upset>>
     PROVE  Situation'
  <2> USE <1>3
  <2>1. Fields'
    BY DEF Fields, DriverFields, ControllerFields, TypeOK, Driver,
        Controller, Signals, Wiring, Held, InitialHw, SignalsOf
  <2>2. Wiring' BY DEF Wiring, Held, InitialHw, SignalsOf
  <2>3. (Reads /\ Asked /\ Selected /\ Listening /\ Kept)'
    BY DEF Reads, Asked, Held, Selected, Listening, Kept, Alive
  <2>4. Transfer'
    BY DEF Transfer, Starting, Transferring, Succeeded, AtBus, Held, Offset,
        Turned, Acked, InPlace, TypeOK, Driver, Controller, Signals, Wiring,
        InitialHw, SignalsOf
  <2> QED BY <2>1, <2>2, <2>3, <2>4 DEF Situation
<1> QED BY <1>1, <1>2, <1>3 DEF BusSlaveRead

\* The interrupt service routine as a master.
LEMMA IsrStartKeeps ==
  ASSUME IInv, IsrStart
  PROVE  Situation'
<1> USE DEF IInv, IsrStart
<1>1. Fields'
  <2> USE DEF TypeOK
  <2>1. acked' \in Seq(Addr .. MaxLen) /\ got' \subseteq Nat \X (Addr .. MaxLen)
    BY EmptyIsBytes
  <2>2. DriverFields(m') /\ ControllerFields(hw')
    BY SMTT(30) DEF AtStart, Driver, Controller, Signals, DriverFields, ControllerFields
  <2> QED BY <2>1, <2>2 DEF AtStart, Driver, Controller, Fields
<1>2. Wiring'
  BY DEF AtStart, Wiring, Held, InitialHw, SignalsOf, TypeOK, Driver,
      Controller, Signals
<1>3. Reads'
  BY DEF AtStart, Reads, TypeOK, Driver, Controller, Signals, Wiring, Held,
      InitialHw, SignalsOf
<1>4. Asked'
  BY SMTT(30) DEF AtStart, Asked, Held, TypeOK, Driver, Controller, Signals, Wiring,
      InitialHw, SignalsOf
<1>5. (Selected /\ Listening /\ Kept)'
  BY DEF AtStart, Selected, TypeOK, Driver, Controller, Signals, Wiring, Held,
      InitialHw, SignalsOf, Listening, Kept, Alive
<1>6. Transfer'
  <2> SUFFICES ASSUME client' = "waiting", Clean({"TIMEOUT", "LOST_ARB", "HOLD"})'
            PROVE  (Starting /\ Transferring /\ Succeeded)'
    BY DEF Transfer
  <2> USE DEF TypeOK, Driver, Controller, Wiring, SignalsOf, Held, Transfer
  <2>1. Starting'
    <3> USE DEF AtStart
    <3>1. m.dir = "W" => Acked(0)' BY NothingMoved DEF Acked
    <3>2. m.dir = "R" => Offset' BY DEF Starting, Turned, Offset, Acked
    <3>3. InPlace(0)' BY NothingMoved DEF InPlace
    <3> QED BY <3>1, <3>2, <3>3 DEF Starting, Turned
  <2>2. Transferring' BY DEF AtStart, Transferring
  <2>3. Succeeded' BY DEF AtStart, Succeeded
  <2> QED BY <2>1, <2>2, <2>3
<1> QED BY <1>1, <1>2, <1>3, <1>4, <1>5, <1>6 DEF Situation

LEMMA IsrLostArbKeeps ==
  ASSUME IInv, IsrLostArb
  PROVE  Situation'
<1> USE DEF IInv, IsrLostArb
<1>1. Fields'
  BY DEF Fields, DriverFields, ControllerFields, TypeOK, Driver, Controller,
      Signals
<1>2. Wiring' BY DEF Wiring, Held, InitialHw, SignalsOf
<1>3. (Reads /\ Asked /\ Selected /\ Listening /\ Kept)'
  BY DEF Reads, Asked, Held, Selected, Listening, Kept, Alive
<1>4. Transfer'
  BY DEF Transfer, Starting, Transferring, Succeeded, AtBus, Held, Offset,
      Turned, Acked, InPlace, TypeOK, Driver, Controller, Signals, Wiring,
      InitialHw, SignalsOf
<1> QED BY <1>1, <1>2, <1>3, <1>4 DEF Situation

LEMMA IsrRefusedKeeps ==
  ASSUME IInv, IsrRefused
  PROVE  Situation'
<1> USE DEF IInv, IsrRefused
<1>1. Fields'
  BY DEF Fields, DriverFields, ControllerFields, TypeOK, Driver, Controller,
      Signals
<1>2. Wiring'
  BY DEF Wiring, Held, InitialHw, SignalsOf, TypeOK, Driver, Controller,
      Signals
<1>3. Reads' BY DEF Reads
<1>4. Asked'
  BY DEF Asked, Held, TypeOK, Driver, Controller, Signals, Wiring, InitialHw,
      SignalsOf
<1>5. Selected'
  BY DEF Selected, TypeOK, Driver, Controller, Signals, Wiring, Held,
      InitialHw, SignalsOf
<1>6. Listening' BY DEF Listening, TypeOK, Driver, Controller, Signals
<1>7. Kept' BY DEF Kept, Alive
<1>8. Transfer'
  BY DEF Transfer, Starting, Transferring, Succeeded, AtBus, Held, Offset,
      Turned, Acked, InPlace, TypeOK, Driver, Controller, Signals, Wiring,
      InitialHw, SignalsOf
<1> QED BY <1>1, <1>2, <1>3, <1>4, <1>5, <1>6, <1>7, <1>8 DEF Situation

LEMMA IsrSendNextKeeps ==
  ASSUME IInv, IsrSendNext
  PROVE  Situation'
<1> USE DEF IInv, IsrSendNext
<1>1. Fields'
  BY SMTT(30) DEF Fields, DriverFields, ControllerFields, TypeOK, Driver, Controller,
      Signals
<1>2. Wiring' BY DEF Wiring, Held, InitialHw, SignalsOf
<1>3. Reads'
  BY DEF Reads, TypeOK, Driver, Controller, Signals, Wiring, Held, InitialHw,
      SignalsOf
<1>4. Asked' BY DEF Asked, Held, TypeOK, Driver, Controller, Signals
<1>5. (Selected /\ Listening /\ Kept)'
  BY SMTT(30) DEF Selected, TypeOK, Driver, Controller, Signals, Wiring, Held,
      InitialHw, SignalsOf, Listening, Kept, Alive
<1>6. Transfer'
  BY SMTT(30) DEF Transfer, Starting, Transferring, Succeeded, AtBus, Held, Offset,
      Turned, Acked, InPlace, TypeOK, Driver, Controller, Signals, Wiring,
      InitialHw, SignalsOf
<1> QED BY <1>1, <1>2, <1>3, <1>4, <1>5, <1>6 DEF Situation

LEMMA IsrTurnRoundKeeps ==
  ASSUME IInv, IsrTurnRound
  PROVE  Situation'
<1> USE DEF IInv, IsrTurnRound
<1>1. Fields'
  BY DEF Fields, DriverFields, ControllerFields, TypeOK, Driver, Controller,
      Signals
<1>2. Wiring' BY DEF Wiring, Held, InitialHw, SignalsOf
<1>3. (Reads /\ Asked)' BY DEF Reads, Asked, Held
<1>4. Selected'
  BY DEF Selected, TypeOK, Driver, Controller, Signals, Wiring, Held,
      InitialHw, SignalsOf
<1>5. (Listening /\ Kept)' BY DEF Listening, Kept, Alive
<1>6. Transfer'
  BY SMTT(30) DEF Transfer, Starting, Transferring, Succeeded, AtBus, Held, Offset,
      Turned, Acked, InPlace, TypeOK, Driver, Controller, Signals, Wiring,
      InitialHw, SignalsOf
<1> QED BY <1>1, <1>2, <1>3, <1>4, <1>5, <1>6 DEF Situation

LEMMA IsrSentKeeps ==
  ASSUME IInv, IsrSent
  PROVE  Situation'
<1> USE DEF IInv, IsrSent
<1>1. Fields'
  <2> USE DEF TypeOK, Finish, Driver, Controller
  <2>1. DriverFields(m') BY SMTT(30) DEF DriverFields
  <2>2. ControllerFields(hw')
    <3> USE DEF ControllerFields, Signals
    <3>1. CASE m.hold BY <3>1
    <3>2. CASE ~m.hold BY <3>2
    <3> QED BY <3>1, <3>2
  <2> QED BY <2>1, <2>2 DEF Fields
<1>2. Wiring'
  BY DEF Finish, Wiring, Held, InitialHw, SignalsOf, TypeOK, Driver,
      Controller, Signals
<1>3. Reads' BY DEF Finish, Reads
<1>4. Asked'
  BY DEF Finish, Asked, Held, TypeOK, Driver, Controller, Signals, Wiring,
      InitialHw, SignalsOf
<1>5. Selected'
  BY DEF Finish, Selected, TypeOK, Driver, Controller, Signals, Wiring, Held,
      InitialHw, SignalsOf
<1>6. Listening' BY DEF Finish, Listening, TypeOK, Driver, Controller, Signals
<1>7. Kept' BY DEF Finish, Kept, Alive
<1>8. Transfer'
  BY SMTT(30) DEF Finish, Transfer, Starting, Transferring, Succeeded, AtBus, Held,
      Offset, Turned, Acked, InPlace, TypeOK, Driver, Controller, Signals,
      Wiring, InitialHw, SignalsOf
<1> QED BY <1>1, <1>2, <1>3, <1>4, <1>5, <1>6, <1>7, <1>8 DEF Situation

LEMMA IsrReceivedKeeps ==
  ASSUME IInv, IsrReceived
  PROVE  Situation'
<1> USE DEF IInv, IsrReceived
<1>1. Fields'
  BY SMTT(30) DEF Store, Acknowledge, Fields, DriverFields, ControllerFields, TypeOK,
      Driver, Controller, Signals, Wiring, Held, InitialHw, SignalsOf, Reads
<1>2. Wiring' BY DEF Store, Acknowledge, Wiring, Held, InitialHw, SignalsOf
<1>3. Reads'
  <2> USE DEF Store, Acknowledge, TypeOK, Driver, Controller
  <2>1. hw.phase = "mrx" /\ ~hw.STO /\ ~hw.STA BY DEF Wiring, SignalsOf, Signals
  <2> QED BY SMTT(30), <2>1 DEF Reads
<1>4. Asked' BY DEF Store, Acknowledge, Asked, Held
<1>5. (Selected /\ Listening /\ Kept)'
  BY DEF Store, Acknowledge, Selected, TypeOK, Driver, Controller, Signals,
      Wiring, Held, InitialHw, SignalsOf, Listening, Kept, Alive
<1>6. Transfer'
  <2> SUFFICES ASSUME client' = "waiting", Clean({"TIMEOUT", "LOST_ARB", "HOLD"})'
            PROVE  (Starting /\ Transferring /\ Succeeded)'
    BY DEF Transfer
  <2> USE DEF TypeOK, Driver, Controller, Wiring, SignalsOf, Held, Transfer
  <2>1. Starting' BY DEF Starting
  <2>2. Transferring'
    <3>1. hw.phase = "mrx" /\ AtBus BY DEF AtBus
    <3>2. m.rx_idx \in Nat /\ hw.data = m.rx_idx BY <3>1 DEF AtBus, Reads
    <3>3. InPlace(m.rx_idx) BY <3>1 DEF Transferring
    <3>4. InPlace(m.rx_idx)' BY SMTT(30), <3>2, <3>3, PlacedNext DEF Store, InPlace
    <3> QED BY <3>1, <3>4 DEF Transferring, AtBus, Turned, Offset, Acked
  <2>3. Succeeded' BY DEF Succeeded, Reads
  <2> QED BY <2>1, <2>2, <2>3
<1> QED BY <1>1, <1>2, <1>3, <1>4, <1>5, <1>6 DEF Situation

LEMMA IsrReceivedLastKeeps ==
  ASSUME IInv, IsrReceivedLast
  PROVE  Situation'
<1> USE DEF IInv, IsrReceivedLast
<1>1. Fields'
  <2> USE DEF TypeOK, Finish, Driver, Controller
  <2>1. DriverFields(m') BY DEF DriverFields
  <2>2. ControllerFields(hw') BY DEF ControllerFields, Signals
  <2>3. got' \subseteq Nat \X (Addr .. MaxLen) BY DEF Store
  <2> QED BY <2>1, <2>2, <2>3 DEF Fields
<1>2. Wiring'
  BY DEF Store, Finish, Wiring, Held, InitialHw, SignalsOf, TypeOK, Driver,
      Controller, Signals
<1>3. Reads' BY DEF Store, Finish, Reads
<1>4. Asked'
  BY DEF Store, Finish, Asked, Held, TypeOK, Driver, Controller, Signals,
      Wiring, InitialHw, SignalsOf
<1>5. Selected'
  BY DEF Store, Finish, Selected, TypeOK, Driver, Controller, Signals, Wiring,
      Held, InitialHw, SignalsOf
<1>6. Listening'
  BY DEF Store, Finish, Listening, TypeOK, Driver, Controller, Signals
<1>7. Kept' BY DEF Store, Finish, Kept, Alive
<1>8. Transfer'
  <2> SUFFICES ASSUME client' = "waiting", Clean({"TIMEOUT", "LOST_ARB", "HOLD"})'
            PROVE  (Starting /\ Transferring /\ Succeeded)'
    BY DEF Transfer
  <2> USE DEF TypeOK, Driver, Controller, Wiring, SignalsOf, Held, Transfer
  <2> USE DEF Finish, Store
  <2>1. Starting' BY DEF Starting, Turned, Transferring, AtBus
  <2>2. Transferring' BY DEF Transferring, AtBus
  <2>3. Succeeded'
    <3> USE DEF Transferring, AtBus, Succeeded, Acked, InPlace, Turned, Offset,
                Reads, Asked
    <3>1. CASE Held BY SMTT(30), <3>1
    <3>2. CASE ~Held BY SMTT(30), <3>2
    <3> QED BY <3>1, <3>2
  <2> QED BY <2>1, <2>2, <2>3
<1> QED BY <1>1, <1>2, <1>3, <1>4, <1>5, <1>6, <1>7, <1>8 DEF Situation

\* The interrupt service routine as a slave.
LEMMA IsrSlaveSelectedKeeps ==
  ASSUME IInv, IsrSlaveSelected
  PROVE  Situation'
<1> USE DEF IInv, IsrSlaveSelected
<1>1. Fields'
  BY InitialInRange DEF InterruptsRequest, Fields, DriverFields, ControllerFields, TypeOK,
      Driver, Controller, Signals
<1>2. Wiring' BY DEF InterruptsRequest, Wiring, Held, InitialHw, SignalsOf
<1>3. Reads'
  BY DEF InterruptsRequest, Reads, TypeOK, Driver, Controller, Signals,
      Wiring, Held, InitialHw, SignalsOf
<1>4. Asked'
  BY DEF InterruptsRequest, Asked, Held, TypeOK, Driver, Controller, Signals
<1>5. (Selected /\ Listening /\ Kept)'
  BY DEF InterruptsRequest, Selected, TypeOK, Driver, Controller, Signals,
      Wiring, Held, InitialHw, SignalsOf, Listening, Kept, Alive
<1>6. Transfer'
  BY DEF InterruptsRequest, Transfer, Starting, Transferring, Succeeded,
      AtBus, Held, Offset, Turned, Acked, InPlace, TypeOK, Driver, Controller,
      Signals, Wiring, InitialHw, SignalsOf
<1> QED BY <1>1, <1>2, <1>3, <1>4, <1>5, <1>6 DEF Situation

LEMMA IsrSlaveRefusedKeeps ==
  ASSUME IInv, IsrSlaveRefused
  PROVE  Situation'
<1> USE DEF IInv, IsrSlaveRefused
<1>1. Fields'
  BY DEF Fields, DriverFields, ControllerFields, TypeOK, Driver, Controller,
      Signals
<1>2. Wiring' BY DEF Wiring, Held, InitialHw, SignalsOf
<1>3. Reads'
  BY DEF Reads, TypeOK, Driver, Controller, Signals, Wiring, Held, InitialHw,
      SignalsOf
<1>4. Asked' BY DEF Asked, Held, TypeOK, Driver, Controller, Signals
<1>5. (Selected /\ Listening)' BY DEF Selected, Listening
<1>6. Kept' BY DEF Kept, Alive, TypeOK, Driver, Controller, Signals
<1>7. Transfer'
  BY SMTT(30) DEF Transfer, Starting, Transferring, Succeeded, AtBus, Held, Offset,
      Turned, Acked, InPlace, TypeOK, Driver, Controller, Signals, Wiring,
      InitialHw, SignalsOf
<1> QED BY <1>1, <1>2, <1>3, <1>4, <1>5, <1>6, <1>7 DEF Situation

LEMMA IsrSlaveResetKeeps ==
  ASSUME IInv, IsrSlaveReset
  PROVE  Situation'
<1> USE DEF IInv, IsrSlaveReset
<1>1. Fields'
  BY InitialInRange DEF EndedInError, Fields, DriverFields, ControllerFields, TypeOK, Driver,
      Controller, Signals
<1>2. Wiring' BY DEF EndedInError, Wiring, Held, InitialHw, SignalsOf
<1>3. Reads'
  BY DEF EndedInError, Reads, TypeOK, Driver, Controller, Signals, Wiring,
      Held, InitialHw, SignalsOf
<1>4. (Asked /\ Selected)' BY DEF EndedInError, Asked, Held, Selected
<1>5. Listening'
  BY DEF EndedInError, Listening, TypeOK, Driver, Controller, Signals
<1>6. Kept' BY DEF EndedInError, Kept, Alive
<1>7. Transfer'
  BY SMTT(30) DEF EndedInError, Transfer, Starting, Transferring, Succeeded, AtBus,
      Held, Offset, Turned, Acked, InPlace, TypeOK, Driver, Controller,
      Signals, Wiring, InitialHw, SignalsOf
<1> QED BY <1>1, <1>2, <1>3, <1>4, <1>5, <1>6, <1>7 DEF Situation

LEMMA IsrSlaveSendKeeps ==
  ASSUME IInv, IsrSlaveSend
  PROVE  Situation'
<1> USE DEF IInv, IsrSlaveSend
<1>1. Fields'
  <2>1. m.slave_tx_idx < SlaveTxSize => m.slave_tx_idx + 1 \in Offsets
    BY OffsetNext DEF TypeOK, Driver
  <2>2. DriverFields(m')
    BY SMTT(30), <2>1, InitialInRange DEF DriverFields, TypeOK, Driver
  <2>3. ControllerFields(hw')
    BY SMTT(30) DEF ControllerFields, TypeOK, Controller, Signals
  <2> QED BY <2>2, <2>3 DEF Fields, TypeOK
<1>2. Wiring' BY DEF Wiring, Held, InitialHw, SignalsOf
<1>3. Reads'
  BY SMTT(30) DEF Reads, TypeOK, Driver, Controller, Signals, Wiring, Held, InitialHw,
      SignalsOf
<1>4. Asked' BY DEF Asked, Held, TypeOK, Driver, Controller, Signals
<1>5. (Selected /\ Listening /\ Kept)'
  BY DEF Selected, TypeOK, Driver, Controller, Signals, Wiring, Held,
      InitialHw, SignalsOf, Listening, Kept, Alive
<1>6. Transfer'
  BY SMTT(30) DEF Transfer, Starting, Transferring, Succeeded, AtBus, Held, Offset,
      Turned, Acked, InPlace, TypeOK, Driver, Controller, Signals, Wiring,
      InitialHw, SignalsOf
<1> QED BY <1>1, <1>2, <1>3, <1>4, <1>5, <1>6 DEF Situation

LEMMA IsrSlaveSentKeeps ==
  ASSUME IInv, IsrSlaveSent
  PROVE  Situation'
<1> USE DEF IInv, IsrSlaveSent
<1>1. Fields'
  BY InitialInRange DEF Fields, DriverFields, ControllerFields, TypeOK, Driver, Controller,
      Signals
<1>2. Wiring' BY DEF Wiring, Held, InitialHw, SignalsOf
<1>3. Reads'
  BY DEF Reads, TypeOK, Driver, Controller, Signals, Wiring, Held, InitialHw,
      SignalsOf
<1>4. Asked' BY DEF Asked, Held, TypeOK, Driver, Controller, Signals
<1>5. (Selected /\ Listening)' BY DEF Selected, Listening
<1>6. Kept' BY DEF Kept, Alive, TypeOK, Driver, Controller, Signals
<1>7. Transfer'
  BY DEF Transfer, Starting, Transferring, Succeeded, AtBus, Held, Offset,
      Turned, Acked, InPlace, TypeOK, Driver, Controller, Signals, Wiring,
      InitialHw, SignalsOf
<1> QED BY <1>1, <1>2, <1>3, <1>4, <1>5, <1>6, <1>7 DEF Situation

\* The interrupt service routine after a bus error.
LEMMA IsrBusErrorKeeps ==
  ASSUME IInv, IsrBusError
  PROVE  Situation'
<1> USE DEF IInv, IsrBusError
<1>1. Fields'
  BY InitialInRange DEF EndedInError, Fields, DriverFields, ControllerFields, TypeOK, Driver,
      Controller, Signals
<1>2. Wiring' BY DEF EndedInError, Wiring, Held, InitialHw, SignalsOf
<1>3. Reads'
  BY DEF EndedInError, Reads, TypeOK, Driver, Controller, Signals, Wiring,
      Held, InitialHw, SignalsOf
<1>4. Asked'
  <2>1. /\ m'.transaction = "NO" /\ m'.master_status # "IN_PROGRESS"
        /\ m'.pending_transaction = m.pending_transaction /\ m'.dir = m.dir
        /\ m'.is_transaction_pending = m.is_transaction_pending
    BY DEF EndedInError, TypeOK, Driver
  <2>2. /\ ~hw'.STA /\ hw'.phase = "idle" /\ hw'.status = "none"
        /\ upset' = {} => ~m.is_transaction_pending
    BY DEF Wiring, SignalsOf, TypeOK, Controller
  <2> QED BY <2>1, <2>2 DEF Asked
<1>5. (Selected /\ Listening /\ Kept)'
  BY DEF EndedInError, Selected, Listening, Kept, Alive
<1>6. Transfer'
  BY DEF EndedInError, Transfer, Starting, Transferring, Succeeded, AtBus,
      Held, Offset, Turned, Acked, InPlace, TypeOK, Driver, Controller,
      Signals, Wiring, InitialHw, SignalsOf
<1> QED BY <1>1, <1>2, <1>3, <1>4, <1>5, <1>6 DEF Situation

\* The address of a read is acknowledged.
LEMMA IsrReadAddressedKeeps ==
  ASSUME IInv, IsrReadAddressed
  PROVE  Situation'
<1> USE DEF IInv
<1>1. ASSUME m.rx_size = 0, Isr({"SLAR_ACK"}),
            m' = [m EXCEPT !.master_status = "SUCCESS", !.transaction = "NO"],
            hw' = [Cleared EXCEPT !.AA = TRUE, !.STO = TRUE],
            UNCHANGED <<acked, got>>
     PROVE  Situation'
  <2> USE <1>1
  <2>1. Fields'
    BY DEF Fields, DriverFields, ControllerFields, TypeOK, Driver,
        Controller, Signals, Wiring, Held, InitialHw, SignalsOf, Asked
  <2>2. Wiring'
    BY DEF Wiring, Held, InitialHw, SignalsOf, TypeOK, Driver, Controller,
        Signals, Asked
  <2>3. Reads'
    BY DEF Reads, TypeOK, Driver, Controller, Signals, Wiring, Held,
        InitialHw, SignalsOf, Asked
  <2>4. Asked'
    BY DEF Asked, Held, TypeOK, Driver, Controller, Signals, Wiring,
        InitialHw, SignalsOf
  <2>5. (Selected /\ Listening)'
    BY DEF Selected, TypeOK, Driver, Controller, Signals, Wiring, Held,
        InitialHw, SignalsOf, Asked, Listening
  <2>6. Kept' BY DEF Kept, Alive
  <2>7. Transfer'
    BY SMTT(30) DEF Transfer, Starting, Transferring, Succeeded, AtBus, Held, Offset,
        Turned, Acked, InPlace, TypeOK, Driver, Controller, Signals, Wiring,
        InitialHw, SignalsOf, Asked, Reads
  <2> QED BY <2>1, <2>2, <2>3, <2>4, <2>5, <2>6, <2>7 DEF Situation
<1>2. ASSUME m.rx_size # 0, Isr({"SLAR_ACK"}),
            hw' = [Cleared EXCEPT !.AA = m.rx_size > 1],
            UNCHANGED <<m, acked, got>>
     PROVE  Situation'
  <2> USE <1>2
  <2>1. Fields'
    BY DEF Fields, DriverFields, ControllerFields, TypeOK, Driver,
        Controller, Signals, Wiring, Held, InitialHw, SignalsOf, Asked
  <2>2. Wiring'
    BY DEF Wiring, Held, InitialHw, SignalsOf, TypeOK, Driver, Controller,
        Signals, Asked
  <2>3. Reads'
    BY DEF Reads, TypeOK, Driver, Controller, Signals, Wiring, Held,
        InitialHw, SignalsOf, Asked
  <2>4. Asked'
    BY DEF Asked, Held, TypeOK, Driver, Controller, Signals, Wiring,
        InitialHw, SignalsOf
  <2>5. Selected'
    BY DEF Selected, TypeOK, Driver, Controller, Signals, Wiring, Held,
        InitialHw, SignalsOf
  <2>6. Listening'
    BY DEF Listening, TypeOK, Driver, Controller, Signals, Wiring, Held,
        InitialHw, SignalsOf, Asked
  <2>7. Kept'
    BY DEF Kept, Alive, TypeOK, Driver, Controller, Signals, Wiring, Held,
        InitialHw, SignalsOf
  <2>8. Transfer'
    BY SMTT(30) DEF Transfer, Starting, Transferring, Succeeded, AtBus, Held, Offset,
        Turned, Acked, InPlace, TypeOK, Driver, Controller, Signals, Wiring,
        InitialHw, SignalsOf
  <2> QED BY <2>1, <2>2, <2>3, <2>4, <2>5, <2>6, <2>7, <2>8 DEF Situation
<1> QED BY <1>1, <1>2 DEF IsrReadAddressed

\* The slave is given a byte, or told that its transaction is over.
LEMMA IsrSlaveDataKeeps ==
  ASSUME IInv, IsrSlaveData
  PROVE  Situation'
<1> USE DEF IInv
<1>1. ASSUME RoomInSlaveRx, Isr({"RDATA"}), NEW offset \in Offsets,
            m' = [m EXCEPT !.slave_rx_idx = @ + 1, !.random_read_addr = offset],
            hw' = [Cleared EXCEPT !.AA = @ /\ m'.slave_rx_idx < SlaveRxSize],
            UNCHANGED <<acked, got>>
     PROVE  Situation'
  <2> USE <1>1
  <2>1. Fields'
    BY SMTT(30) DEF RoomInSlaveRx, Fields, DriverFields, ControllerFields, TypeOK,
        Driver, Controller, Signals
  <2>2. Wiring' BY DEF RoomInSlaveRx, Wiring, Held, InitialHw, SignalsOf
  <2>3. Reads'
    BY DEF RoomInSlaveRx, Reads, TypeOK, Driver, Controller, Signals,
        Wiring, Held, InitialHw, SignalsOf
  <2>4. Asked' BY DEF RoomInSlaveRx, Asked, Held
  <2>5. (Selected /\ Listening /\ Kept)'
    BY DEF RoomInSlaveRx, Selected, TypeOK, Driver, Controller, Signals,
        Wiring, Held, InitialHw, SignalsOf, Listening, Kept, Alive
  <2>6. Transfer'
    BY SMTT(30) DEF RoomInSlaveRx, Transfer, Starting, Transferring, Succeeded,
        AtBus, Held, Offset, Turned, Acked, InPlace, TypeOK, Driver,
        Controller, Signals, Wiring, InitialHw, SignalsOf
  <2> QED BY <2>1, <2>2, <2>3, <2>4, <2>5, <2>6 DEF Situation
<1>2. ASSUME ~RoomInSlaveRx, Isr({"RDATA"}), UNCHANGED <<m, acked, got>>,
            hw' = [Cleared EXCEPT !.AA = @ /\ m'.slave_rx_idx < SlaveRxSize]
     PROVE  Situation'
  <2> USE <1>2
  <2>1. Fields'
    BY DEF RoomInSlaveRx, Fields, DriverFields, ControllerFields, TypeOK,
        Driver, Controller, Signals
  <2>2. Wiring' BY DEF RoomInSlaveRx, Wiring, Held, InitialHw, SignalsOf
  <2>3. Reads'
    BY DEF RoomInSlaveRx, Reads, TypeOK, Driver, Controller, Signals,
        Wiring, Held, InitialHw, SignalsOf
  <2>4. Asked' BY DEF RoomInSlaveRx, Asked, Held
  <2>5. (Selected /\ Listening /\ Kept)'
    BY DEF RoomInSlaveRx, Selected, TypeOK, Driver, Controller, Signals,
        Wiring, Held, InitialHw, SignalsOf, Listening, Kept, Alive
  <2>6. Transfer'
    BY SMTT(30) DEF RoomInSlaveRx, Transfer, Starting, Transferring, Succeeded,
        AtBus, Held, Offset, Turned, Acked, InPlace, TypeOK, Driver,
        Controller, Signals, Wiring, InitialHw, SignalsOf
  <2> QED BY <2>1, <2>2, <2>3, <2>4, <2>5, <2>6 DEF Situation
<1>3. ASSUME NEW byte \in SlaveBytes PROVE OffsetWith(byte) \in Offsets
  BY OffsetsAre, Zenon DEF OffsetWith, TypeOK, Driver
<1>4. CASE RoomInSlaveRx
  <2>1. PICK byte \in SlaveBytes :
          m' = [m EXCEPT !.slave_rx_idx = @ + 1, !.random_read_addr = OffsetWith(byte)]
    BY Zenon, <1>4 DEF IsrSlaveData
  <2>2. Isr({"RDATA"}) /\ UNCHANGED <<acked, got>>
        /\ hw' = [Cleared EXCEPT !.AA = @ /\ m'.slave_rx_idx < SlaveRxSize]
    BY Zenon DEF IsrSlaveData
  <2> QED BY Zenon, <1>1, <1>3, <1>4, <2>1, <2>2
<1>5. CASE ~RoomInSlaveRx BY Zenon, <1>2, <1>5 DEF IsrSlaveData
<1> QED BY <1>4, <1>5

LEMMA IsrSlaveStopKeeps ==
  ASSUME IInv, NEW answer \in {"REENABLE", "PAUSE"}, IsrSlaveStop(answer)
  PROVE  Situation'
<1> USE DEF IInv, IsrSlaveStop
<1>1. Fields'
  BY SMTT(30), InitialInRange DEF Fields, DriverFields, ControllerFields, TypeOK, Driver, Controller,
      Signals, Wiring, Held, InitialHw, SignalsOf
<1>2. Wiring' BY DEF Wiring, Held, InitialHw, SignalsOf
<1>3. Reads'
  BY DEF Reads, TypeOK, Driver, Controller, Signals, Wiring, Held, InitialHw,
      SignalsOf
<1>4. Asked' BY DEF Asked, Held, TypeOK, Driver, Controller, Signals
<1>5. Selected' BY DEF Selected
<1>6. (Listening /\ Kept)'
  BY DEF Listening, TypeOK, Driver, Controller, Signals, Kept, Alive
<1>7. Transfer'
  BY DEF Transfer, Starting, Transferring, Succeeded, AtBus, Held, Offset,
      Turned, Acked, InPlace, TypeOK, Driver, Controller, Signals, Wiring,
      InitialHw, SignalsOf
<1> QED BY <1>1, <1>2, <1>3, <1>4, <1>5, <1>6, <1>7 DEF Situation

\* And a step that changes nothing.
LEMMA StutterKeeps ==
  ASSUME IInv, UNCHANGED vars
  PROVE  Situation'
<1> USE DEF IInv
<1>1. Fields'
  BY DEF vars, Fields, DriverFields, ControllerFields, TypeOK, Driver,
      Controller, Signals
<1>2. Wiring'
  BY DEF vars, Wiring, Held, InitialHw, SignalsOf, TypeOK, Driver, Controller,
      Signals
<1>3. (Reads /\ Asked /\ Selected /\ Listening /\ Kept)'
  BY DEF vars, Reads, Asked, Held, Selected, Listening, Kept, Alive
<1>4. Transfer'
  BY DEF vars, Transfer, Starting, Transferring, Succeeded, AtBus, Held,
      Offset, Turned, Acked, InPlace
<1> QED BY <1>1, <1>2, <1>3, <1>4 DEF Situation

---------------------------------------------------------------------------
(* The invariant holds initially and every step keeps it.                  *)

LEMMA InitInvariant == Init => IInv
<1> SUFFICES ASSUME Init PROVE IInv OBVIOUS
<1> USE DEF Init, InitialRecord, InitialHw
<1>1. m \in Driver BY Zenon, I2cAssumption, InitialInRange DEF Driver
<1>2. hw \in Controller BY Zenon, InitialInRange DEF Controller, Signals
<1>3. TypeOK BY <1>1, <1>2, EmptyIsBytes DEF TypeOK
<1>4. Wiring /\ Reads /\ Asked BY DEF Wiring, SignalsOf, Held, Reads, Asked
<1>5. Selected /\ Listening /\ Kept BY DEF Selected, Listening, Kept, Alive
<1>6. Transfer BY DEF Transfer
<1> QED BY <1>3, <1>4, <1>5, <1>6 DEF IInv

LEMMA NextInvariant == IInv /\ [Next]_vars => IInv'
<1> SUFFICES ASSUME IInv, [Next]_vars PROVE IInv' OBVIOUS
<1>1. Situation'
  <2>1. CASE ClientStep
    BY <2>1, RequestsKeeps, StatusSeenKeeps, WaitCompleteKeeps, EnableSlaveKeeps,
       DisableSlaveKeeps, ReinitKeeps DEF ClientStep
  <2>2. CASE TickExpired BY <2>2, TickExpiredKeeps
  <2>3. CASE BusStep
    BY <2>3, BusStartKeeps, BusStopKeeps, BusAddressedKeeps, BusSentKeeps,
       BusReceivedKeeps, BusLostArbKeeps, BusLostToWriterKeeps, BusLostToReaderKeeps,
       BusSelectedKeeps, BusSlaveWrittenKeeps, BusSlaveReadKeeps, BusSlaveResetKeeps,
       BusErrorKeeps DEF BusStep, BusOther
  <2>4. CASE IsrStep
    BY <2>4, IsrStartKeeps, IsrLostArbKeeps, IsrRefusedKeeps, IsrSendNextKeeps,
       IsrTurnRoundKeeps, IsrSentKeeps, IsrReadAddressedKeeps, IsrReceivedKeeps,
       IsrReceivedLastKeeps, IsrSlaveSelectedKeeps, IsrSlaveDataKeeps,
       IsrSlaveRefusedKeeps, IsrSlaveStopKeeps, IsrSlaveResetKeeps, IsrSlaveSendKeeps,
       IsrSlaveSentKeeps, IsrBusErrorKeeps DEF IsrStep
  <2>5. CASE UNCHANGED vars BY <2>5, StutterKeeps
  <2> QED BY <2>1, <2>2, <2>3, <2>4, <2>5 DEF Next
<1>2. m' \in Driver /\ hw' \in Controller
  <2>1. m \in Driver /\ hw \in Controller BY DEF IInv, TypeOK
  <2>2. Like(m', m) /\ Like(hw', hw) BY <2>1, ShapesKept
  <2> QED BY <1>1, <2>1, <2>2, DriverOfFields, ControllerOfFields DEF Situation, Fields
<1> QED BY <1>1, <1>2 DEF Situation, Fields, TypeOK, IInv

\* The inductive invariant of the driver, the controller and the client holds, for
\* every set of bus events.
THEOREM InvariantHolds == Spec => []IInv
BY InitInvariant, NextInvariant, PTL DEF Spec

---------------------------------------------------------------------------
(* What the client and the other masters may rely on.                      *)

\* No index of a buffer, of the master or of the slave, ever passes its end.
THEOREM TypeCorrect == Spec => []TypeOK
<1>1. IInv => TypeOK BY DEF IInv
<1> QED BY <1>1, InvariantHolds, PTL

\* A request reported as a success was carried out, byte by byte and in order, and no
\* byte is stored past the end of its buffer (mss_i2c_isr).
THEOREM TransfersAreRightHolds == Spec => []TransfersAreRight
<1>1. IInv => SuccessMeansTransferred
  BY DEF IInv, Transfer, Succeeded, SuccessMeansTransferred, Acked, InPlace
<1>2. IInv => ReceivesInBounds
  <2> SUFFICES ASSUME IInv, hw.SI, hw.status \in {"RX_DATA_ACK", "RX_DATA_NACK"}
               PROVE  m.rx_idx < m.rx_size
    BY DEF ReceivesInBounds
  <2> USE DEF IInv, TypeOK, Driver, Controller
  <2>1. hw.phase = "mrx" BY DEF Wiring, SignalsOf
  <2>2. ~hw.STO /\ ~hw.STA BY <2>1 DEF Wiring
  <2> QED BY <2>1, <2>2 DEF Reads
<1> QED BY <1>1, <1>2, InvariantHolds, PTL DEF TransfersAreRight

\* A request in progress is never forgotten, across lost arbitration, bus errors and
\* slave transactions, in every environment but the three whose events lose one.
THEOREM RequestKeptHolds == Spec => []RequestKept
<1>1. IInv => RequestKept BY DEF IInv, Kept, RequestKept, RequestNeverLost
<1> QED BY <1>1, InvariantHolds, PTL

\* The controller goes for the bus only for a request in progress: the driver never
\* starts a finished or failed one again.
THEOREM NoGhostRequestHolds == Spec => []NoGhostRequest
<1>1. IInv => NoGhostRequest BY DEF IInv, Asked, NoGhostRequest
<1> QED BY <1>1, InvariantHolds, PTL

\* An enabled slave answers whenever the driver leaves the bus, and its transactions
\* end in the driver when they end on the bus.
THEOREM SlaveIsServedHolds == Spec => []SlaveIsServed
<1>1. IInv => SlaveReachable BY DEF IInv, Listening, SlaveReachable
<1>2. IInv => SlaveInProgressIsReal BY DEF IInv, Selected, SlaveInProgressIsReal
<1> QED BY <1>1, <1>2, InvariantHolds, PTL DEF SlaveIsServed

---------------------------------------------------------------------------
(* The application: the inductive invariant, checked by TLC on the instance *)
(* of the run.                                                              *)

TablesAt == Len(FirstSetUp) + 6
MuxAt == Len(FirstSetUp) + 10

Shapes ==
  /\ DOMAIN main = {"at", "delay", "seen", "mode"}
  /\ DOMAIN board = {"mem", "i2c", "hdmi", "tables"}
  /\ DOMAIN gpio = {"out", "cfg"} /\ DOMAIN gpio.out = Pins /\ DOMAIN gpio.cfg = Pins
  /\ DOMAIN fabric = Registers
  /\ DOMAIN ram = {"mem", "ptr"} /\ DOMAIN ram.mem = Addrs
  /\ audio \in [done : BOOLEAN, runs : BOOLEAN]
  /\ DOMAIN hid = {"in", "ready", "rx", "tx", "data"} /\ hid.in \in BOOLEAN
  /\ DOMAIN wire = {"out", "dma", "reply"} /\ wire.dma \in BOOLEAN
  /\ DOMAIN host = {"up", "asked", "got", "sent", "mem", "set"}
  /\ DOMAIN host.mem = Addrs /\ DOMAIN host.set = Settings

\* What main has done before the loop, and the host not.
Booted ==
  /\ main.at \in 1..Len(Program)
  /\ main.at > TablesAt => board.tables
  /\ main.at > MuxAt => "buffer" \in gpio.cfg["mux"]
  /\ main.at < Test => /\ host.asked = None /\ wire.out = None /\ ~hid.in
                       /\ \A r \in Settings : host.set[r] = None

\* GPIO_OUT is as main has read it.
PinsKept ==
  /\ main.seen # None => main.seen = gpio.out
  /\ hid.in /\ hid.rx.op = 5 => main.seen = None

Right(c, says) ==
  /\ c.op = 1 => Answered(c, says)
  /\ c.op = 9 => says = <<9, 10>>
  /\ c.op = 10 => says \in {<<10, FALSE>>, <<10, audio.runs>>}
  /\ c.op = 11 => says = <<11>>

Value(r) == IF r = "mux" THEN Level(gpio, "mux") ELSE fabric[r]

\* The command is executed, and its reply on its way.
Replied ==
  /\ wire.out = None /\ ~hid.in
  /\ IF wire.dma THEN wire.reply = None /\ Right(host.asked, hid.tx)
     ELSE Right(host.asked, wire.reply)
  /\ Sets(host.asked) => Value(SetBy[host.asked.op]) = Meant(host.asked)

\* Where the command is that the host waits for; or, if for none, a bulk write.
Exchange ==
  /\ hid.ready = TRUE
  /\ wire.out # None => wire.out \in Commands /\ ~hid.in
  /\ hid.in => hid.rx \in Commands
  /\ IF host.asked = None
     THEN /\ ~wire.dma /\ wire.reply = None
          /\ wire.out # None => wire.out.op = 0
          /\ hid.in => hid.rx.op = 0
     ELSE /\ host.asked \in Commands /\ host.asked.op # 0 /\ host.got = None
          /\ \/ /\ wire.out = host.asked \/ (hid.in /\ hid.rx = host.asked)
                /\ ~wire.dma /\ wire.reply = None
             \/ Replied

\* The memory once the bulk write that is under way is done, and what the host knows.
StoredWith(c, words) == Filled(ram.mem, c.val.addr, words)
InMemory ==
  CASE wire.out # None /\ wire.out.op = 0 -> StoredWith(wire.out, Received(wire.out))
    [] hid.in /\ hid.rx.op = 0 -> StoredWith(hid.rx, hid.data)
    [] OTHER -> ram.mem
Known(a) == host.mem[a] # None
Memory == \A a \in Addrs : Known(a) => host.mem[a] = InMemory[a]

Asking(r) == host.asked # None /\ Sets(host.asked) /\ SetBy[host.asked.op] = r
Obeyed ==
  /\ audio.done => audio.runs
  /\ host.got # None => host.got.to # None /\ Right(host.got.to, host.got.says)
  /\ \A r \in Settings : host.set[r] # None /\ ~Asking(r) => host.set[r] = Value(r)
  /\ host.set["sharpness"] # None => \E c \in Commands : c.op = 4 /\ host.set["sharpness"] = c.val

AppInvariant == Shapes /\ Booted /\ PinsKept /\ Exchange /\ Memory /\ Obeyed

---------------------------------------------------------------------------
(* The steps of main, by their place.                                        *)

Loop == <<S("test", None)>>
ToTest == Boot \o Loop
ToOverride == ToTest \o SetUp
Whole == ToOverride \o Override
Steps == {StartUp[i] : i \in 1..7} \union {SetUp[i] : i \in 1..17} \union {BringUp[i] : i \in 1..11}
         \union {Loop[i] : i \in 1..1} \union {Override[i] : i \in 1..4}
Drives == {"low", "high", "drive_high", "drive_low"}
Loops == {"wait", "i2c", "tell"} \union Drives

LEMMA StepIs == \A do, to : S(do, to).do = do /\ S(do, to).to = to
  BY DEF S

LEMMA StartUpIs ==
  /\ StartUp \in Seq(Steps) /\ Len(StartUp) = 7
  /\ \A i \in 1..7 : StartUp[i].do \notin Drives \union {"test"}
<1>0. Len(StartUp) = 7 /\ StartUp = [i \in 1..7 |-> StartUp[i]] BY DEF StartUp
<1>1. Len(StartUp) = 7 /\ StartUp \in Seq(Steps) BY <1>0 DEF Steps
<1>2. /\ StartUp[1] = S("workarounds", None) /\ StartUp[2] = S("ddr", None)
      /\ StartUp[3] = S("settle", None) /\ StartUp[4] = S("timer", None)
      /\ StartUp[5] = S("gpio", None) /\ StartUp[6] = S("config", "camera")
      /\ StartUp[7] = S("config", "clock")
  BY DEF StartUp
<1>3. /\ StartUp[1].do = "workarounds" /\ StartUp[2].do = "ddr" /\ StartUp[3].do = "settle"
      /\ StartUp[4].do = "timer" /\ StartUp[5].do = "gpio" /\ StartUp[6].do = "config"
      /\ StartUp[7].do = "config"
  BY <1>2, StepIs
<1>4. 1..7 = {1, 2, 3, 4, 5, 6, 7} OBVIOUS
<1> QED BY <1>1, <1>3, <1>4 DEF Drives

LEMMA SetUpIs ==
  /\ SetUp \in Seq(Steps) /\ Len(SetUp) = 17
  /\ \A i \in 1..17 : SetUp[i].do \in Loops /\ (SetUp[i].do \in Drives => SetUp[i].to = "camera")
<1>0. Len(SetUp) = 17 /\ SetUp = [i \in 1..17 |-> SetUp[i]] BY DEF SetUp
<1>1. Len(SetUp) = 17 /\ SetUp \in Seq(Steps) BY <1>0 DEF Steps
<1>2. /\ SetUp[1] = S("low", "camera") /\ SetUp[2] = Wait /\ SetUp[3] = S("high", "camera")
      /\ SetUp[4] = S("i2c", 0) /\ SetUp[5] = Wait /\ SetUp[6] = S("tell", "pll")
      /\ SetUp[7] = Wait /\ SetUp[8] = Wait /\ SetUp[9] = S("tell", "sequencer")
      /\ SetUp[10] = S("tell", "color") /\ SetUp[11] = S("tell", "window")
      /\ SetUp[12] = S("tell", "patch") /\ SetUp[13] = S("tell", "flips") /\ SetUp[14] = Wait
      /\ SetUp[15] = S("tell", "patch") /\ SetUp[16] = Wait /\ SetUp[17] = S("tell", "stream")
  BY DEF SetUp
<1>3. /\ SetUp[1].do = "low" /\ SetUp[1].to = "camera" /\ SetUp[3].do = "high" /\ SetUp[3].to = "camera"
      /\ SetUp[4].do = "i2c"
      /\ \A i \in {2, 5, 7, 8, 14, 16} : SetUp[i].do = "wait"
      /\ \A i \in {6, 9, 10, 11, 12, 13, 15, 17} : SetUp[i].do = "tell"
  BY <1>2, StepIs DEF Wait
<1>4. 1..17 = {1, 3, 4} \union {2, 5, 7, 8, 14, 16} \union {6, 9, 10, 11, 12, 13, 15, 17} OBVIOUS
<1> QED BY <1>1, <1>3, <1>4 DEF Drives, Loops

LEMMA OverrideIs ==
  /\ Override \in Seq(Steps) /\ Len(Override) = 4
  /\ \A i \in 1..4 : Override[i].do \in Loops /\ (Override[i].do \in Drives => Override[i].to = "clock")
<1>0. Len(Override) = 4 /\ Override = [i \in 1..4 |-> Override[i]] BY DEF Override
<1>1. Len(Override) = 4 /\ Override \in Seq(Steps) BY <1>0 DEF Steps
<1>2. /\ Override[1] = S("drive_high", "clock") /\ Override[2] = Wait
      /\ Override[3] = S("drive_low", "clock") /\ Override[4] = Wait
  BY DEF Override
<1>3. 1..4 = {1, 2, 3, 4} OBVIOUS
<1>4. Override[1].do = "drive_high" /\ Override[1].to = "clock" BY <1>2 DEF S
<1>5. Override[3].do = "drive_low" /\ Override[3].to = "clock" BY <1>2 DEF S
<1>6. Override[2].do = "wait" /\ Override[4].do = "wait" BY <1>2, StepIs, Zenon DEF Wait
<1> QED BY <1>1, <1>3, <1>4, <1>5, <1>6 DEF Drives, Loops

LEMMA BringUpIs ==
  /\ BringUp \in Seq(Steps) /\ Len(BringUp) = 11
  /\ \A i \in 1..11 : BringUp[i].do # "test" /\ (BringUp[i].do \in Drives => BringUp[i].to = "usb")
  /\ BringUp[6].do = "tables" /\ BringUp[10].do = "config" /\ BringUp[10].to = "mux"
  /\ BringUp[11].do = "defaults"
<1>0. Len(BringUp) = 11 /\ BringUp = [i \in 1..11 |-> BringUp[i]] BY DEF BringUp
<1>1. Len(BringUp) = 11 /\ BringUp \in Seq(Steps) BY <1>0 DEF Steps
<1>2. /\ BringUp[1] = Wait /\ BringUp[2] = S("i2c", 1) /\ BringUp[3] = Wait
      /\ BringUp[4] = S("hdmi", None) /\ BringUp[5] = Wait /\ BringUp[6] = S("tables", None)
      /\ BringUp[7] = S("config", "usb") /\ BringUp[8] = S("low", "usb")
      /\ BringUp[9] = S("usb", None) /\ BringUp[10] = S("config", "mux")
      /\ BringUp[11] = S("defaults", None)
  BY DEF BringUp
<1>3. /\ \A i \in {1, 3, 5} : BringUp[i].do = "wait"
      /\ BringUp[2].do = "i2c" /\ BringUp[4].do = "hdmi" /\ BringUp[6].do = "tables"
      /\ BringUp[7].do = "config" /\ BringUp[8].do = "low" /\ BringUp[8].to = "usb"
      /\ BringUp[9].do = "usb" /\ BringUp[10].do = "config" /\ BringUp[10].to = "mux"
      /\ BringUp[11].do = "defaults"
  BY <1>2, StepIs DEF Wait
<1>4. 1..11 = {1, 3, 5} \union {2, 4, 6, 7, 8, 9, 10, 11} OBVIOUS
<1> QED BY <1>1, <1>3, <1>4 DEF Drives

LEMMA LoopIs == Loop \in Seq(Steps) /\ Len(Loop) = 1 /\ Loop[1].do = "test"
<1>1. Len(Loop) = 1 /\ Loop = [i \in 1..1 |-> Loop[i]] /\ Loop[1] = S("test", None) BY DEF Loop
<1> QED BY <1>1, StepIs DEF Steps

LEMMA FirstSetUpIs ==
  /\ FirstSetUp \in Seq(Steps) /\ Len(FirstSetUp) = 24
  /\ \A i \in 1..7 : FirstSetUp[i] = StartUp[i]
  /\ \A i \in 1..17 : FirstSetUp[7 + i] = SetUp[i]
<1> DEFINE st == StartUp \o SetUp
<1>1. StartUp \in Seq(Steps) /\ SetUp \in Seq(Steps) BY StartUpIs, SetUpIs
<1>2. Len(StartUp) = 7 /\ Len(SetUp) = 17 BY StartUpIs, SetUpIs
<1>3. st \in Seq(Steps) /\ Len(st) = Len(StartUp) + Len(SetUp)
  BY <1>1, ConcatProperties, Zenon
<1>8. \A i \in 1 .. Len(StartUp) + Len(SetUp) :
        st[i] = IF i <= Len(StartUp) THEN StartUp[i] ELSE SetUp[i - Len(StartUp)]
  BY <1>1, ConcatProperties, Zenon
<1>4. FirstSetUp = st BY DEF FirstSetUp
<1> HIDE DEF st
<1>5. \A i \in 1..24 : FirstSetUp[i] = IF i <= 7 THEN StartUp[i] ELSE SetUp[i - 7]
  BY <1>2, <1>4, <1>8
<1>6. \A i \in 1..7 : FirstSetUp[i] = StartUp[i] BY <1>5
<1>7. ASSUME NEW i \in 1..17 PROVE FirstSetUp[7 + i] = SetUp[i]
  <2>1. 7 + i \in 1..24 /\ ~(7 + i <= 7) /\ (7 + i) - 7 = i OBVIOUS
  <2> QED BY <1>5, <2>1
<1> QED BY <1>2, <1>3, <1>4, <1>6, <1>7

LEMMA BootIs ==
  /\ Boot \in Seq(Steps) /\ Len(Boot) = 35
  /\ \A i \in 1..24 : Boot[i] = FirstSetUp[i]
  /\ \A i \in 1..11 : Boot[24 + i] = BringUp[i]
<1> DEFINE st == FirstSetUp \o BringUp
<1>1. FirstSetUp \in Seq(Steps) /\ BringUp \in Seq(Steps) BY FirstSetUpIs, BringUpIs
<1>2. Len(FirstSetUp) = 24 /\ Len(BringUp) = 11 BY FirstSetUpIs, BringUpIs
<1>3. st \in Seq(Steps) /\ Len(st) = Len(FirstSetUp) + Len(BringUp)
  BY <1>1, ConcatProperties, Zenon
<1>8. \A i \in 1 .. Len(FirstSetUp) + Len(BringUp) :
        st[i] = IF i <= Len(FirstSetUp) THEN FirstSetUp[i] ELSE BringUp[i - Len(FirstSetUp)]
  BY <1>1, ConcatProperties, Zenon
<1>4. Boot = st BY DEF Boot
<1> HIDE DEF st
<1>5. \A i \in 1..35 : Boot[i] = IF i <= 24 THEN FirstSetUp[i] ELSE BringUp[i - 24]
  BY <1>2, <1>4, <1>8
<1>6. \A i \in 1..24 : Boot[i] = FirstSetUp[i] BY <1>5
<1>7. ASSUME NEW i \in 1..11 PROVE Boot[24 + i] = BringUp[i]
  <2>1. 24 + i \in 1..35 /\ ~(24 + i <= 24) /\ (24 + i) - 24 = i OBVIOUS
  <2> QED BY <1>5, <2>1
<1> QED BY <1>2, <1>3, <1>4, <1>6, <1>7

LEMMA ToTestIs ==
  /\ ToTest \in Seq(Steps) /\ Len(ToTest) = 36
  /\ \A i \in 1..35 : ToTest[i] = Boot[i]
  /\ \A i \in 1..1 : ToTest[35 + i] = Loop[i]
<1> DEFINE st == Boot \o Loop
<1>1. Boot \in Seq(Steps) /\ Loop \in Seq(Steps) BY BootIs, LoopIs
<1>2. Len(Boot) = 35 /\ Len(Loop) = 1 BY BootIs, LoopIs
<1>3. st \in Seq(Steps) /\ Len(st) = Len(Boot) + Len(Loop)
  BY <1>1, ConcatProperties, Zenon
<1>8. \A i \in 1 .. Len(Boot) + Len(Loop) :
        st[i] = IF i <= Len(Boot) THEN Boot[i] ELSE Loop[i - Len(Boot)]
  BY <1>1, ConcatProperties, Zenon
<1>4. ToTest = st BY DEF ToTest
<1> HIDE DEF st
<1>5. \A i \in 1..36 : ToTest[i] = IF i <= 35 THEN Boot[i] ELSE Loop[i - 35]
  BY <1>2, <1>4, <1>8
<1>6. \A i \in 1..35 : ToTest[i] = Boot[i] BY <1>5
<1>7. ASSUME NEW i \in 1..1 PROVE ToTest[35 + i] = Loop[i]
  <2>1. 35 + i \in 1..36 /\ ~(35 + i <= 35) /\ (35 + i) - 35 = i OBVIOUS
  <2> QED BY <1>5, <2>1
<1> QED BY <1>2, <1>3, <1>4, <1>6, <1>7

LEMMA ToOverrideIs ==
  /\ ToOverride \in Seq(Steps) /\ Len(ToOverride) = 53
  /\ \A i \in 1..36 : ToOverride[i] = ToTest[i]
  /\ \A i \in 1..17 : ToOverride[36 + i] = SetUp[i]
<1> DEFINE st == ToTest \o SetUp
<1>1. ToTest \in Seq(Steps) /\ SetUp \in Seq(Steps) BY ToTestIs, SetUpIs
<1>2. Len(ToTest) = 36 /\ Len(SetUp) = 17 BY ToTestIs, SetUpIs
<1>3. st \in Seq(Steps) /\ Len(st) = Len(ToTest) + Len(SetUp)
  BY <1>1, ConcatProperties, Zenon
<1>8. \A i \in 1 .. Len(ToTest) + Len(SetUp) :
        st[i] = IF i <= Len(ToTest) THEN ToTest[i] ELSE SetUp[i - Len(ToTest)]
  BY <1>1, ConcatProperties, Zenon
<1>4. ToOverride = st BY DEF ToOverride
<1> HIDE DEF st
<1>5. \A i \in 1..53 : ToOverride[i] = IF i <= 36 THEN ToTest[i] ELSE SetUp[i - 36]
  BY <1>2, <1>4, <1>8
<1>6. \A i \in 1..36 : ToOverride[i] = ToTest[i] BY <1>5
<1>7. ASSUME NEW i \in 1..17 PROVE ToOverride[36 + i] = SetUp[i]
  <2>1. 36 + i \in 1..53 /\ ~(36 + i <= 36) /\ (36 + i) - 36 = i OBVIOUS
  <2> QED BY <1>5, <2>1
<1> QED BY <1>2, <1>3, <1>4, <1>6, <1>7

LEMMA WholeIs ==
  /\ Whole \in Seq(Steps) /\ Len(Whole) = 57
  /\ \A i \in 1..53 : Whole[i] = ToOverride[i]
  /\ \A i \in 1..4 : Whole[53 + i] = Override[i]
<1> DEFINE st == ToOverride \o Override
<1>1. ToOverride \in Seq(Steps) /\ Override \in Seq(Steps) BY ToOverrideIs, OverrideIs
<1>2. Len(ToOverride) = 53 /\ Len(Override) = 4 BY ToOverrideIs, OverrideIs
<1>3. st \in Seq(Steps) /\ Len(st) = Len(ToOverride) + Len(Override)
  BY <1>1, ConcatProperties, Zenon
<1>8. \A i \in 1 .. Len(ToOverride) + Len(Override) :
        st[i] = IF i <= Len(ToOverride) THEN ToOverride[i] ELSE Override[i - Len(ToOverride)]
  BY <1>1, ConcatProperties, Zenon
<1>4. Whole = st BY DEF Whole
<1> HIDE DEF st
<1>5. \A i \in 1..57 : Whole[i] = IF i <= 53 THEN ToOverride[i] ELSE Override[i - 53]
  BY <1>2, <1>4, <1>8
<1>6. \A i \in 1..53 : Whole[i] = ToOverride[i] BY <1>5
<1>7. ASSUME NEW i \in 1..4 PROVE Whole[53 + i] = Override[i]
  <2>1. 53 + i \in 1..57 /\ ~(53 + i <= 53) /\ (53 + i) - 53 = i OBVIOUS
  <2> QED BY <1>5, <2>1
<1> QED BY <1>2, <1>3, <1>4, <1>6, <1>7

LEMMA ProgramIs ==
  /\ Test = 36 /\ Overrides = 54 /\ Len(Program) = 57 /\ TablesAt = 30 /\ MuxAt = 34
  /\ \A i \in 1..7 : Program[i] = StartUp[i]
  /\ \A i \in 8..24 : Program[i] = SetUp[i - 7]
  /\ \A i \in 25..35 : Program[i] = BringUp[i - 24]
  /\ Program[36].do = "test"
  /\ \A i \in 37..53 : Program[i] = SetUp[i - 36]
  /\ \A i \in 54..57 : Program[i] = Override[i - 53]
<1>1. Program = Whole BY DEF Program, Whole, ToOverride, ToTest, Loop
<1>2. Len(Boot) = 35 /\ Len(SetUp) = 17 /\ Len(FirstSetUp) = 24 /\ Len(Whole) = 57
  BY BootIs, SetUpIs, FirstSetUpIs, WholeIs
<1>3. Test = 36 /\ TablesAt = 30 /\ MuxAt = 34 /\ Overrides = 54 /\ Len(Program) = 57
  BY <1>1, <1>2 DEF Test, TablesAt, MuxAt, Overrides
<1>4. /\ \A i \in 1..7 : FirstSetUp[i] = StartUp[i]
      /\ \A i \in 1..17 : FirstSetUp[7 + i] = SetUp[i]
      /\ \A i \in 1..24 : Boot[i] = FirstSetUp[i]
      /\ \A i \in 1..11 : Boot[24 + i] = BringUp[i]
      /\ \A i \in 1..35 : ToTest[i] = Boot[i]
      /\ \A i \in 1..1 : ToTest[35 + i] = Loop[i]
      /\ \A i \in 1..36 : ToOverride[i] = ToTest[i]
      /\ \A i \in 1..17 : ToOverride[36 + i] = SetUp[i]
      /\ \A i \in 1..53 : Program[i] = ToOverride[i]
      /\ \A i \in 1..4 : Program[53 + i] = Override[i]
  BY <1>1, FirstSetUpIs, BootIs, ToTestIs, ToOverrideIs, WholeIs
<1>5. \A i \in 1..35 : Program[i] = Boot[i] BY <1>4
<1>6. \A i \in 1..24 : Program[i] = FirstSetUp[i] BY <1>4, <1>5
<1>7. \A i \in 1..7 : Program[i] = StartUp[i] BY <1>4, <1>6
<1>8. ASSUME NEW i \in 8..24 PROVE Program[i] = SetUp[i - 7]
  <2>1. i - 7 \in 1..17 /\ 7 + (i - 7) = i /\ i \in 1..24 OBVIOUS
  <2> QED BY <1>4, <1>6, <2>1
<1>9. ASSUME NEW i \in 25..35 PROVE Program[i] = BringUp[i - 24]
  <2>1. i - 24 \in 1..11 /\ 24 + (i - 24) = i /\ i \in 1..35 OBVIOUS
  <2> QED BY <1>4, <1>5, <2>1
<1>10. Program[36].do = "test"
  <2>1. 36 \in 1..53 /\ 36 \in 1..36 /\ 1 \in 1..1 /\ 35 + 1 = 36 OBVIOUS
  <2>2. Program[36] = Loop[1] BY <1>4, <2>1
  <2> QED BY <2>2, LoopIs
<1>11. ASSUME NEW i \in 37..53 PROVE Program[i] = SetUp[i - 36]
  <2>1. i - 36 \in 1..17 /\ 36 + (i - 36) = i /\ i \in 1..53 OBVIOUS
  <2> QED BY <1>4, <2>1
<1>12. ASSUME NEW i \in 54..57 PROVE Program[i] = Override[i - 53]
  <2>1. i - 53 \in 1..4 /\ 53 + (i - 53) = i OBVIOUS
  <2> QED BY <1>4, <2>1
<1> QED BY <1>3, <1>7, <1>8, <1>9, <1>10, <1>11, <1>12

\* What is done where, as far as the commands depend on it.
LEMMA StepsOfMain ==
  ASSUME NEW at \in 1..57
  PROVE  /\ at = 30 => Program[at].do = "tables"
         /\ at = 34 => Program[at].do = "config" /\ Program[at].to = "mux"
         /\ at = 35 => Program[at].do = "defaults"
         /\ at = 36 <=> Program[at].do = "test"
         /\ at > 36 => Program[at].do \in Loops
         /\ Program[at].do \in Drives => Program[at].to \in Pins \ {"mux"}
<1>1. CASE at \in 1..7
  <2>1. Program[at].do \notin Drives \union {"test"} BY <1>1, StartUpIs, ProgramIs
  <2> QED BY <1>1, <2>1
<1>2. CASE at \in 8..24
  <2>1. at - 7 \in 1..17 /\ Program[at] = SetUp[at - 7] BY <1>2, ProgramIs
  <2>2. Program[at].do \in Loops /\ (Program[at].do \in Drives => Program[at].to = "camera")
    BY <2>1, SetUpIs
  <2>3. Program[at].do # "test" BY <2>2 DEF Loops, Drives
  <2>4. "camera" \in Pins \ {"mux"} /\ "clock" \in Pins \ {"mux"} BY DEF Pins
  <2> QED BY <1>2, <2>2, <2>3, <2>4
<1>3. CASE at \in 25..35
  <2>1. at - 24 \in 1..11 /\ Program[at] = BringUp[at - 24] BY <1>3, ProgramIs
  <2>2. Program[at].do # "test" /\ (Program[at].do \in Drives => Program[at].to = "usb")
    BY <2>1, BringUpIs
  <2>3. at = 30 => Program[at].do = "tables" BY <2>1, BringUpIs
  <2>4. at = 34 => Program[at].do = "config" /\ Program[at].to = "mux" BY <2>1, BringUpIs
  <2>5. at = 35 => Program[at].do = "defaults" BY <2>1, BringUpIs
  <2> QED BY <1>3, <2>2, <2>3, <2>4, <2>5 DEF Pins
<1>4. CASE at = 36 BY <1>4, ProgramIs DEF Drives, Loops
<1>5. CASE at \in 37..53
  <2>1. at - 36 \in 1..17 /\ Program[at] = SetUp[at - 36] BY <1>5, ProgramIs
  <2>2. Program[at].do \in Loops /\ (Program[at].do \in Drives => Program[at].to = "camera")
    BY <2>1, SetUpIs
  <2>3. Program[at].do # "test" BY <2>2 DEF Loops, Drives
  <2>4. "camera" \in Pins \ {"mux"} /\ "clock" \in Pins \ {"mux"} BY DEF Pins
  <2> QED BY <1>5, <2>2, <2>3, <2>4
<1>6. CASE at \in 54..57
  <2>1. at - 53 \in 1..4 /\ Program[at] = Override[at - 53] BY <1>6, ProgramIs
  <2>2. Program[at].do \in Loops /\ (Program[at].do \in Drives => Program[at].to = "clock")
    BY <2>1, OverrideIs
  <2>3. Program[at].do # "test" BY <2>2 DEF Loops, Drives
  <2>4. "camera" \in Pins \ {"mux"} /\ "clock" \in Pins \ {"mux"} BY DEF Pins
  <2> QED BY <1>6, <2>2, <2>3, <2>4
<1> QED BY <1>1, <1>2, <1>3, <1>4, <1>5, <1>6

---------------------------------------------------------------------------
(* The steps of main that the host does not see.                             *)

LEMMA GoesIs ==
  ASSUME AppInvariant, Goes
  PROVE  /\ DOMAIN main' = {"at", "delay", "seen", "mode"} /\ main'.seen = None
         /\ main'.at \in 1..57 /\ (main'.at < 36 => main.at < 36)
         /\ main'.at > 30 => main.at > 30 \/ Step.do = "tables"
         /\ main'.at > 34 => main.at > 34 \/ (Step.do = "config" /\ Step.to = "mux")
<1>1. main.at \in 1..57 /\ DOMAIN main = {"at", "delay", "seen", "mode"}
  BY ProgramIs DEF AppInvariant, Shapes, Booted
<1>2. main' = [main EXCEPT !.at = Follow(main.at), !.delay = "no", !.seen = None] BY DEF Goes
<1>3. DOMAIN main' = {"at", "delay", "seen", "mode"} /\ main'.seen = None /\ main'.at = Follow(main.at)
  BY <1>1, <1>2
<1>4. Follow(main.at) = IF main.at = 57 THEN 36 ELSE main.at + 1 BY ProgramIs DEF Follow
<1>5. /\ main.at = 30 => Step.do = "tables"
      /\ main.at = 34 => Step.do = "config" /\ Step.to = "mux"
  BY <1>1, StepsOfMain DEF Step
<1> QED BY <1>1, <1>3, <1>4, <1>5

\* A step after which the pins show the host the same, or before the host is there.
LEMMA RightStays ==
  ASSUME host'.mem = host.mem, audio' = audio
  PROVE  \A c, says : Right(c, says)' = Right(c, says)
  BY DEF Right, Answered

LEMMA MemoryStays ==
  ASSUME AppInvariant, ram'.mem = ram.mem, hid' = hid, wire'.out = wire.out, host'.mem = host.mem
  PROVE  Memory'
<1>1. InMemory' = InMemory BY DEF InMemory, StoredWith, Received, Filled
<1> QED BY <1>1 DEF AppInvariant, Memory, Known

LEMMA Quiet ==
  ASSUME AppInvariant, UNCHANGED Usb,
         DOMAIN main' = {"at", "delay", "seen", "mode"},
         DOMAIN board' = {"mem", "i2c", "hdmi", "tables"},
         DOMAIN gpio' = {"out", "cfg"}, DOMAIN gpio'.out = Pins, DOMAIN gpio'.cfg = Pins,
         main'.at \in 1..57, main'.at < 36 => main.at < 36,
         main'.at > 30 => board'.tables,
         main'.at > 34 => "buffer" \in gpio'.cfg["mux"],
         main'.seen # None => main'.seen = gpio'.out,
         hid.in /\ main'.seen # None => main.seen # None,
         main.at < 36 \/ Level(gpio', "mux") = Level(gpio, "mux")
  PROVE  AppInvariant'
<1>1. /\ fabric' = fabric /\ ram' = ram /\ audio' = audio /\ hid' = hid /\ wire' = wire /\ host' = host
  BY DEF Usb
<1>2. Shapes' BY <1>1 DEF AppInvariant, Shapes
<1>3. Booted' BY <1>1, ProgramIs DEF AppInvariant, Booted
<1>4. PinsKept' BY <1>1 DEF AppInvariant, PinsKept
<1>5. Memory' BY <1>1, MemoryStays
<1>6. ASSUME main.at < 36 PROVE Exchange' /\ Obeyed'
  <2>1. host.asked = None /\ \A r \in Settings : host.set[r] = None
    BY <1>6, ProgramIs DEF AppInvariant, Booted
  <2>2. Exchange' BY <1>1, <2>1 DEF AppInvariant, Exchange
  <2>3. "sharpness" \in Settings BY DEF Settings, Registers
  <2> QED BY <1>1, <2>1, <2>2, <2>3 DEF AppInvariant, Obeyed, Right, Answered
<1>7. ASSUME Level(gpio', "mux") = Level(gpio, "mux") PROVE Exchange' /\ Obeyed'
  <2>1. \A r : Value(r)' = Value(r) BY <1>1, <1>7 DEF Value
  <2>2. Exchange' BY <1>1, <2>1 DEF AppInvariant, Exchange, Replied, Right, Answered, Sets, Meant
  <2>3. Obeyed' BY <1>1, <2>1 DEF AppInvariant, Obeyed, Right, Answered, Asking
  <2> QED BY <2>2, <2>3
<1> QED BY <1>2, <1>3, <1>4, <1>5, <1>6, <1>7 DEF AppInvariant

LEMMA Shaped ==
  ASSUME AppInvariant
  PROVE  /\ DOMAIN main = {"at", "delay", "seen", "mode"}
         /\ DOMAIN board = {"mem", "i2c", "hdmi", "tables"}
         /\ DOMAIN gpio = {"out", "cfg"} /\ DOMAIN gpio.out = Pins /\ DOMAIN gpio.cfg = Pins
         /\ main.at \in 1..57 /\ (main.at > 30 => board.tables)
         /\ main.at > 34 => "buffer" \in gpio.cfg["mux"]
         /\ main.seen # None => main.seen = gpio.out
  BY ProgramIs DEF AppInvariant, Shapes, Booted, PinsKept

\* The pins and the memory controller are left alone.
LEMMA OnlyMain ==
  ASSUME AppInvariant, Thread, UNCHANGED <<gpio, Usb>>, UNCHANGED board,
         DOMAIN main' = {"at", "delay", "seen", "mode"}, main'.at = main.at,
         main'.seen \in {main.seen, gpio.out}
  PROVE  AppInvariant'
<1>1. gpio' = gpio /\ board' = board /\ UNCHANGED Usb OBVIOUS
<1>2. /\ DOMAIN board' = {"mem", "i2c", "hdmi", "tables"}
      /\ DOMAIN gpio' = {"out", "cfg"} /\ DOMAIN gpio'.out = Pins /\ DOMAIN gpio'.cfg = Pins
      /\ main'.at \in 1..57 /\ (main'.at < 36 => main.at < 36) /\ (main'.at > 30 => board'.tables)
      /\ main'.at > 34 => "buffer" \in gpio'.cfg["mux"]
      /\ main'.seen # None => main'.seen = gpio'.out
      /\ Level(gpio', "mux") = Level(gpio, "mux") /\ ~hid.in
  BY <1>1, Shaped DEF Thread
<1> QED BY <1>1, <1>2, Quiet

LEMMA BoardOnly ==
  ASSUME AppInvariant, UNCHANGED <<main, gpio, Usb>>,
         DOMAIN board' = {"mem", "i2c", "hdmi", "tables"}, board'.tables = board.tables
  PROVE  AppInvariant'
<1>1. gpio' = gpio /\ main' = main /\ UNCHANGED Usb OBVIOUS
<1>2. /\ DOMAIN main' = {"at", "delay", "seen", "mode"}
      /\ DOMAIN gpio' = {"out", "cfg"} /\ DOMAIN gpio'.out = Pins /\ DOMAIN gpio'.cfg = Pins
      /\ main'.at \in 1..57 /\ (main'.at < 36 => main.at < 36) /\ (main'.at > 30 => board'.tables)
      /\ main'.at > 34 => "buffer" \in gpio'.cfg["mux"]
      /\ main'.seen # None => main'.seen = gpio'.out
      /\ Level(gpio', "mux") = Level(gpio, "mux")
      /\ hid.in /\ main'.seen # None => main.seen # None
  BY <1>1, Shaped
<1> QED BY <1>1, <1>2, Quiet

\* A step of main, after which it goes on.
LEMMA OneStep ==
  ASSUME AppInvariant, Thread, Goes, UNCHANGED <<gpio, Usb>>,
         DOMAIN board' = {"mem", "i2c", "hdmi", "tables"},
         board'.tables = board.tables \/ board'.tables = TRUE,
         Step.do = "tables" => board'.tables,
         Step.do # "config"
  PROVE  AppInvariant'
<1>1. gpio' = gpio /\ UNCHANGED Usb OBVIOUS
<1>2. /\ DOMAIN gpio' = {"out", "cfg"} /\ DOMAIN gpio'.out = Pins /\ DOMAIN gpio'.cfg = Pins
      /\ main'.at > 30 => board'.tables
      /\ main'.at > 34 => "buffer" \in gpio'.cfg["mux"]
      /\ Level(gpio', "mux") = Level(gpio, "mux")
      /\ hid.in /\ main'.seen # None => main.seen # None
      /\ main'.seen # None => main'.seen = gpio'.out
  BY <1>1, Shaped, GoesIs DEF Thread
<1> QED BY <1>1, <1>2, GoesIs, Quiet

LEMMA DelayClearsKeeps == ASSUME AppInvariant, DelayClears PROVE AppInvariant'
<1>1. main' = [main EXCEPT !.delay = "cleared"] /\ Thread BY DEF DelayClears, Delays
<1>2. DOMAIN main' = {"at", "delay", "seen", "mode"} /\ main'.at = main.at /\ main'.seen = main.seen
  BY <1>1, Shaped
<1> QED BY <1>1, <1>2, OnlyMain DEF DelayClears

LEMMA DelayLoadsKeeps == ASSUME AppInvariant, DelayLoads PROVE AppInvariant'
<1>1. main' = [main EXCEPT !.delay = "loaded"] /\ Thread BY DEF DelayLoads, Delays
<1>2. DOMAIN main' = {"at", "delay", "seen", "mode"} /\ main'.at = main.at /\ main'.seen = main.seen
  BY <1>1, Shaped
<1> QED BY <1>1, <1>2, OnlyMain DEF DelayLoads

LEMMA DelayStartsKeeps == ASSUME AppInvariant, DelayStarts PROVE AppInvariant'
<1>1. main' = [main EXCEPT !.delay = "started"] /\ Thread BY DEF DelayStarts, Delays
<1>2. DOMAIN main' = {"at", "delay", "seen", "mode"} /\ main'.at = main.at /\ main'.seen = main.seen
  BY <1>1, Shaped
<1> QED BY <1>1, <1>2, OnlyMain DEF DelayStarts

LEMMA PinSeenKeeps == ASSUME AppInvariant, PinSeen PROVE AppInvariant'
<1>1. main' = [main EXCEPT !.seen = gpio.out] /\ Thread BY DEF PinSeen, ChangesPin
<1>2. DOMAIN main' = {"at", "delay", "seen", "mode"} /\ main'.at = main.at /\ main'.seen = gpio.out
  BY <1>1, Shaped
<1> QED BY <1>1, <1>2, OnlyMain DEF PinSeen

LEMMA DelayEndsKeeps == ASSUME AppInvariant, DelayEnds PROVE AppInvariant'
<1>1. Thread /\ Goes /\ Step.do = "wait" /\ board' = board /\ UNCHANGED <<gpio, Usb>>
  BY DEF DelayEnds, Delays
<1> QED BY <1>1, Shaped, OneStep

LEMMA StartsKeeps == ASSUME AppInvariant, Starts PROVE AppInvariant'
<1>1. Thread /\ Goes /\ UNCHANGED <<gpio, Usb>> BY DEF Starts
<1>2. Step.do \notin {"tables", "config"} BY DEF Starts
<1>3. \/ \E mem : board' = [board EXCEPT !.mem = mem]
      \/ board' = board
  BY DEF Starts
<1>4. DOMAIN board' = {"mem", "i2c", "hdmi", "tables"} /\ board'.tables = board.tables
  BY <1>3, Shaped
<1> QED BY <1>1, <1>2, <1>4, OneStep

LEMMA TellsKeeps == ASSUME AppInvariant, Tells PROVE AppInvariant'
<1>1. Thread /\ Goes /\ Step.do = "tell" /\ board' = board /\ UNCHANGED <<gpio, Usb>>
  BY DEF Tells, Talks
<1> QED BY <1>1, Shaped, OneStep

LEMMA I2cInitKeeps == ASSUME AppInvariant, I2cInit PROVE AppInvariant'
<1>1. Thread /\ Goes /\ Step.do = "i2c" /\ UNCHANGED <<gpio, Usb>> BY DEF I2cInit
<1>2. board' = [board EXCEPT !.i2c = board.i2c \union {Step.to}] BY DEF I2cInit
<1>3. DOMAIN board' = {"mem", "i2c", "hdmi", "tables"} /\ board'.tables = board.tables
  BY <1>2, Shaped
<1> QED BY <1>1, <1>3, OneStep

LEMMA HdmiWrittenKeeps == ASSUME AppInvariant, HdmiWritten PROVE AppInvariant'
<1>1. Thread /\ Goes /\ Step.do = "hdmi" /\ UNCHANGED <<gpio, Usb>> BY DEF HdmiWritten
<1>2. board' = [board EXCEPT !.hdmi = TRUE] BY DEF HdmiWritten
<1>3. DOMAIN board' = {"mem", "i2c", "hdmi", "tables"} /\ board'.tables = board.tables
  BY <1>2, Shaped
<1> QED BY <1>1, <1>3, OneStep

LEMMA SincosMemInitKeeps == ASSUME AppInvariant, SincosMemInit PROVE AppInvariant'
<1>1. Thread /\ Goes /\ Step.do = "tables" /\ UNCHANGED <<gpio, Usb>> BY DEF SincosMemInit
<1>2. board' = [board EXCEPT !.tables = TRUE] BY DEF SincosMemInit
<1>3. DOMAIN board' = {"mem", "i2c", "hdmi", "tables"} /\ board'.tables = TRUE
  BY <1>2, Shaped
<1> QED BY <1>1, <1>3, OneStep

LEMMA LoopTestKeeps == ASSUME AppInvariant, LoopTest PROVE AppInvariant'
<1>1. Thread /\ Step.do = "test" /\ board' = board /\ gpio' = gpio /\ UNCHANGED Usb BY DEF LoopTest
<1>2. main.at = 36 BY <1>1, Shaped, StepsOfMain DEF Step
<1>3. \/ main' = [main EXCEPT !.at = 37, !.mode = change.mode_val]
      \/ main' = [main EXCEPT !.at = 54]
  BY ProgramIs DEF LoopTest
<1>4. /\ DOMAIN main' = {"at", "delay", "seen", "mode"} /\ main'.at \in {37, 54}
      /\ main'.seen = main.seen
  BY <1>3, Shaped
<1>5. /\ DOMAIN board' = {"mem", "i2c", "hdmi", "tables"}
      /\ DOMAIN gpio' = {"out", "cfg"} /\ DOMAIN gpio'.out = Pins /\ DOMAIN gpio'.cfg = Pins
      /\ main'.at \in 1..57 /\ ~(main'.at < 36) /\ board'.tables
      /\ "buffer" \in gpio'.cfg["mux"]
      /\ main'.seen # None => main'.seen = gpio'.out
      /\ Level(gpio', "mux") = Level(gpio, "mux") /\ ~hid.in
  BY <1>1, <1>2, <1>4, Shaped DEF Thread, Booted, AppInvariant
<1> QED BY <1>1, <1>4, <1>5, Quiet

LEMMA DdrGetsReadyKeeps == ASSUME AppInvariant, DdrGetsReady PROVE AppInvariant'
<1>1. board' = [board EXCEPT !.mem.ddr = "ready"] /\ UNCHANGED <<main, gpio, Usb>> BY DEF DdrGetsReady
<1>2. DOMAIN board' = {"mem", "i2c", "hdmi", "tables"} /\ board'.tables = board.tables
  BY <1>1, Shaped
<1> QED BY <1>1, <1>2, BoardOnly

LEMMA TimerKeeps == ASSUME AppInvariant, Expires \/ Timer1_IRQHandler PROVE AppInvariant'
<1>1. board' = board /\ UNCHANGED <<main, gpio, Usb>> BY DEF Expires, Timer1_IRQHandler
<1> QED BY <1>1, Shaped, BoardOnly

\* The pins are configured before the loop, and the one of the multiplexer last.
LEMMA ConfiguresKeeps == ASSUME AppInvariant, Configures PROVE AppInvariant'
<1>1. /\ Thread /\ Goes /\ board' = board /\ UNCHANGED Usb
      /\ Step.do \in {"timer", "gpio", "config"}
  BY DEF Configures
<1>2. \/ Step.do = "gpio" /\ gpio' = GpioInit
      \/ Step.do = "config" /\ gpio' = GpioConfig(gpio, Step.to)
      \/ Step.do = "timer" /\ gpio' = gpio
  BY <1>1 DEF Configures
<1>3. main.at < 36 /\ main.at # 35
  BY <1>1, Shaped, StepsOfMain DEF Step, Loops, Drives
<1>4. /\ DOMAIN gpio' = {"out", "cfg"} /\ DOMAIN gpio'.out = Pins /\ DOMAIN gpio'.cfg = Pins
      /\ main'.at > 34 => "buffer" \in gpio'.cfg["mux"]
  <2>1. CASE Step.do = "gpio" /\ gpio' = GpioInit
    <3>1. DOMAIN gpio' = {"out", "cfg"} /\ DOMAIN gpio'.out = Pins /\ DOMAIN gpio'.cfg = Pins
      BY <2>1 DEF GpioInit
    <3>2. main.at \in 1..57 BY Shaped
    <3>3. ~(main'.at > 34) BY <1>1, <1>3, <2>1, <3>2, GoesIs
    <3> QED BY <3>1, <3>3
  <2>2. CASE Step.do = "config" /\ gpio' = GpioConfig(gpio, Step.to)
    <3>1. gpio' = [gpio EXCEPT !.cfg = [gpio.cfg EXCEPT ![Step.to] = {"output", "buffer"}]]
      BY <2>2 DEF GpioConfig
    <3>2. DOMAIN gpio' = {"out", "cfg"} /\ gpio'.out = gpio.out
      BY <3>1, Shaped
    <3>3. gpio'.cfg = [gpio.cfg EXCEPT ![Step.to] = {"output", "buffer"}] BY <3>1, Shaped
    <3>4. DOMAIN gpio'.cfg = Pins BY <3>3, Shaped
    <3>5. "mux" \in Pins BY DEF Pins
    <3>6. gpio'.cfg["mux"] = IF Step.to = "mux" THEN {"output", "buffer"} ELSE gpio.cfg["mux"]
      BY <3>3, <3>5, Shaped
    <3>7. main'.at > 34 => main.at > 34 \/ Step.to = "mux" BY <1>1, GoesIs
    <3>8. main.at > 34 => "buffer" \in gpio.cfg["mux"] BY Shaped
    <3>9. main'.at > 34 => "buffer" \in gpio'.cfg["mux"] BY <3>6, <3>7, <3>8
    <3>10. DOMAIN gpio'.out = Pins BY <3>2, Shaped
    <3> QED BY <3>2, <3>4, <3>9, <3>10
  <2>3. CASE Step.do = "timer" /\ gpio' = gpio
    <3>1. main'.at > 34 => main.at > 34 BY <1>1, <2>3, GoesIs
    <3> QED BY <2>3, <3>1, Shaped
  <2> QED BY <1>2, <2>1, <2>2, <2>3
<1>5. /\ DOMAIN board' = {"mem", "i2c", "hdmi", "tables"} /\ (main'.at > 30 => board'.tables)
      /\ main'.seen = None
  BY <1>1, Shaped, GoesIs
<1> QED BY <1>1, <1>3, <1>4, <1>5, GoesIs, Quiet

\* A pin that main changes is not the one of the multiplexer, and GPIO_OUT is as it was read.
LEMMA PinWrittenKeeps == ASSUME AppInvariant, PinWritten PROVE AppInvariant'
<1> DEFINE value == IF Step.do \in {"high", "drive_high"} THEN 1 ELSE 0
<1>1. /\ Thread /\ Goes /\ board' = board /\ UNCHANGED Usb
      /\ Step.do \in Drives /\ main.seen = gpio.out
  BY Shaped DEF PinWritten, ChangesPin, Drives
<1>2. \/ gpio' = OutputSet(gpio, gpio.out, Step.to, value)
      \/ gpio' = InoutDriven(gpio, gpio.out, Step.to, value)
  BY <1>1 DEF PinWritten
<1> HIDE DEF value
<1>3. Step.to # "mux" BY <1>1, Shaped, StepsOfMain DEF Step
<1>4. /\ DOMAIN gpio' = {"out", "cfg"}
      /\ gpio'.out = [gpio.out EXCEPT ![Step.to] = value]
      /\ \/ gpio'.cfg = gpio.cfg
         \/ gpio'.cfg = [gpio.cfg EXCEPT ![Step.to] = gpio.cfg[Step.to] \union {"buffer"}]
  BY <1>2, Shaped DEF OutputSet, InoutDriven, Changed
<1>5. "mux" \in Pins BY DEF Pins
<1>6. DOMAIN gpio'.out = Pins /\ DOMAIN gpio'.cfg = Pins BY <1>4, Shaped
<1>7. gpio'.out["mux"] = gpio.out["mux"] /\ gpio'.cfg["mux"] = gpio.cfg["mux"]
  BY <1>3, <1>4, <1>5, Shaped
<1>8. Level(gpio', "mux") = Level(gpio, "mux") BY <1>7 DEF Level
<1>9. /\ DOMAIN board' = {"mem", "i2c", "hdmi", "tables"} /\ (main'.at > 30 => board'.tables)
      /\ main'.at > 34 => "buffer" \in gpio'.cfg["mux"]
      /\ main'.seen = None
  BY <1>1, <1>7, Shaped, GoesIs DEF Drives
<1> QED BY <1>1, <1>4, <1>6, <1>8, <1>9, GoesIs, Quiet

LEMMA BeforeTheLoop ==
  ASSUME AppInvariant, main.at < 36
  PROVE  /\ host.asked = None /\ wire.out = None /\ ~hid.in
         /\ \A r \in Settings : host.set[r] = None
  BY ProgramIs DEF AppInvariant, Booted

LEMMA UsbStartsKeeps == ASSUME AppInvariant, UsbStarts PROVE AppInvariant'
<1>1. /\ Thread /\ Goes /\ board' = board /\ gpio' = gpio /\ Step.do = "usb"
      /\ host' = [host EXCEPT !.up = Level(gpio, "usb") = 0]
      /\ fabric' = fabric /\ ram' = ram /\ audio' = audio /\ hid' = hid /\ wire' = wire
  BY DEF UsbStarts
<1>2. /\ DOMAIN host' = {"up", "asked", "got", "sent", "mem", "set"}
      /\ host'.asked = host.asked /\ host'.got = host.got /\ host'.mem = host.mem
      /\ host'.set = host.set
  BY <1>1 DEF AppInvariant, Shapes
<1>3. main.at < 36 BY <1>1, Shaped, StepsOfMain DEF Step, Loops, Drives
<1>4. Shapes' BY <1>1, <1>2, GoesIs DEF AppInvariant, Shapes
<1>5. Booted' BY <1>1, <1>2, <1>3, GoesIs, Shaped, BeforeTheLoop, ProgramIs DEF Booted
<1>6. PinsKept' BY <1>1, <1>3, GoesIs, BeforeTheLoop DEF PinsKept
<1>7. Exchange' BY <1>1, <1>2, <1>3, BeforeTheLoop DEF AppInvariant, Exchange
<1>8. Memory' BY <1>1, <1>2, MemoryStays
<1>9. Obeyed'
  <2>1. "sharpness" \in Settings BY DEF Settings, Registers
  <2>2. \A r \in Settings : host'.set[r] = None BY <1>2, <1>3, BeforeTheLoop
  <2>3. host'.got # None => host'.got.to # None /\ Right(host.got.to, host.got.says)
    BY <1>2 DEF AppInvariant, Obeyed
  <2>4. \A c, says : Right(c, says)' = Right(c, says) BY <1>1, <1>2, RightStays
  <2> QED BY <1>1, <1>2, <2>1, <2>2, <2>3, <2>4 DEF AppInvariant, Obeyed
<1> QED BY <1>4, <1>5, <1>6, <1>7, <1>8, <1>9 DEF AppInvariant

LEMMA DefaultsKeeps == ASSUME AppInvariant, Defaults PROVE AppInvariant'
<1>1. /\ Thread /\ Goes /\ board' = board /\ gpio' = gpio /\ Step.do = "defaults"
      /\ ram' = [ram EXCEPT !.ptr = 0]
      /\ audio' = audio /\ hid' = hid /\ wire' = wire /\ host' = host
  BY DEF Defaults
<1>2. DOMAIN ram' = {"mem", "ptr"} /\ ram'.mem = ram.mem BY <1>1 DEF AppInvariant, Shapes
<1>3. main.at < 36 BY <1>1, Shaped, StepsOfMain DEF Step, Loops, Drives
<1>0. DOMAIN fabric' = Registers BY DEF Defaults
<1>4. Shapes' BY <1>0, <1>1, <1>2, GoesIs DEF AppInvariant, Shapes
<1>5. Booted' BY <1>1, <1>3, GoesIs, Shaped, BeforeTheLoop, ProgramIs DEF Booted
<1>6. PinsKept' BY <1>1, <1>3, GoesIs, BeforeTheLoop DEF PinsKept
<1>7. Exchange' BY <1>1, <1>3, BeforeTheLoop DEF AppInvariant, Exchange
<1>8. Memory' BY <1>1, <1>2, MemoryStays
<1>9. Obeyed'
  <2>1. "sharpness" \in Settings BY DEF Settings, Registers
  <2>2. \A r \in Settings : host'.set[r] = None BY <1>1, <1>3, BeforeTheLoop
  <2>4. \A c, says : Right(c, says)' = Right(c, says) BY <1>1, RightStays
  <2> QED BY <1>1, <2>1, <2>2, <2>4 DEF AppInvariant, Obeyed
<1> QED BY <1>4, <1>5, <1>6, <1>7, <1>8, <1>9 DEF AppInvariant

---------------------------------------------------------------------------
(* The host's commands: how they travel.                                     *)

LEMMA Travels ==
  ASSUME AppInvariant
  PROVE  /\ hid.ready = TRUE
         /\ wire.out # None => wire.out \in Commands /\ ~hid.in
         /\ hid.in => hid.rx \in Commands
         /\ host.asked = None => /\ ~wire.dma /\ wire.reply = None
                                 /\ wire.out # None => wire.out.op = 0
                                 /\ hid.in => hid.rx.op = 0
         /\ host.asked # None =>
              /\ host.asked \in Commands /\ host.asked.op # 0 /\ host.got = None
              /\ \/ /\ wire.out = host.asked \/ (hid.in /\ hid.rx = host.asked)
                    /\ ~wire.dma /\ wire.reply = None
                 \/ Replied
         /\ \A a \in Addrs : Known(a) => host.mem[a] = InMemory[a]
  BY DEF AppInvariant, Exchange, Memory

\* The packet is read.
LEMMA RxIrqKeeps == ASSUME AppInvariant, Unhurried, RxIrq PROVE AppInvariant'
<1>1. /\ ~hid.in /\ wire.out # None
      /\ hid' = [hid EXCEPT !.in = TRUE, !.rx = wire.out, !.data = Received(wire.out)]
      /\ wire' = [wire EXCEPT !.out = None]
      /\ main' = main /\ board' = board /\ gpio' = gpio
      /\ fabric' = fabric /\ ram' = ram /\ audio' = audio /\ host' = host
  BY DEF RxIrq, Thread
<1>2. main.seen # None /\ wire.out.op = 5 => "pins" \in Env BY DEF RxIrq
<1>3. "pins" \notin Env BY DEF Unhurried
<1>4. /\ DOMAIN hid' = {"in", "ready", "rx", "tx", "data"} /\ hid'.in = TRUE /\ hid'.rx = wire.out
      /\ hid'.ready = hid.ready /\ hid'.tx = hid.tx /\ hid'.data = Received(wire.out)
      /\ DOMAIN wire' = {"out", "dma", "reply"} /\ wire'.out = None /\ wire'.dma = wire.dma
      /\ wire'.reply = wire.reply
  BY <1>1 DEF AppInvariant, Shapes
<1>5. Shapes' BY <1>1, <1>4 DEF AppInvariant, Shapes
<1>6. Booted' BY <1>1, <1>4 DEF AppInvariant, Booted
<1>7. PinsKept' BY <1>1, <1>2, <1>3, <1>4 DEF AppInvariant, PinsKept
<1>8. wire.out \in Commands BY <1>1, Travels
<1>9. Exchange'
  <2>1. CASE host.asked = None BY <1>1, <1>4, <1>8, <2>1, Travels DEF Exchange
  <2>2. CASE host.asked # None
    <3>1. wire.out = host.asked /\ ~wire.dma /\ wire.reply = None
      BY <1>1, <2>2, Travels DEF Replied
    <3> QED BY <1>1, <1>4, <1>8, <2>2, <3>1, Travels DEF Exchange
  <2> QED BY <2>1, <2>2
<1>10. Memory'
  <2>1. \A c, words : StoredWith(c, words)' = StoredWith(c, words)
    BY <1>1 DEF StoredWith, Filled
  <2>2. InMemory = IF wire.out.op = 0 THEN StoredWith(wire.out, Received(wire.out))
                   ELSE ram.mem
    BY <1>1 DEF InMemory
  <2>3. InMemory' = IF wire.out.op = 0 THEN StoredWith(wire.out, Received(wire.out))
                    ELSE ram.mem
    BY <1>1, <1>4, <2>1 DEF InMemory, StoredWith, Filled
  <2> QED BY <1>1, <2>2, <2>3 DEF AppInvariant, Memory, Known
<1>11. Obeyed'
  <2>1. \A r : Value(r)' = Value(r) BY <1>1 DEF Value
  <2>2. \A c, says : Right(c, says)' = Right(c, says) BY <1>1, RightStays
  <2> QED BY <1>1, <2>1, <2>2 DEF AppInvariant, Obeyed, Asking, Sets
<1> QED BY <1>5, <1>6, <1>7, <1>9, <1>10, <1>11 DEF AppInvariant

\* The reply is copied.
LEMMA TxDmaKeeps == ASSUME AppInvariant, TxDma PROVE AppInvariant'
<1>1. /\ wire.dma /\ wire' = [wire EXCEPT !.dma = FALSE, !.reply = hid.tx]
      /\ main' = main /\ board' = board /\ gpio' = gpio /\ hid' = hid
      /\ fabric' = fabric /\ ram' = ram /\ audio' = audio /\ host' = host
  BY DEF TxDma
<1>2. /\ DOMAIN wire' = {"out", "dma", "reply"} /\ wire'.out = wire.out /\ wire'.dma = FALSE
      /\ wire'.reply = hid.tx
  BY <1>1 DEF AppInvariant, Shapes
<1>3. Shapes' BY <1>1, <1>2 DEF AppInvariant, Shapes
<1>4. Booted' BY <1>1, <1>2 DEF AppInvariant, Booted
<1>5. PinsKept' BY <1>1 DEF AppInvariant, PinsKept
<1>6. \A r : Value(r)' = Value(r) BY <1>1 DEF Value
<1>7. \A c, says : Right(c, says)' = Right(c, says) BY <1>1, RightStays
<1>8. Exchange'
  <2>1. host.asked # None /\ Replied BY <1>1, Travels
  <2>2. Replied' BY <1>1, <1>2, <1>6, <1>7, <2>1 DEF Replied, Sets, Meant
  <2> QED BY <1>1, <1>2, <2>1, <2>2, Travels DEF Exchange
<1>9. Memory' BY <1>1, <1>2, MemoryStays
<1>10. Obeyed' BY <1>1, <1>6, <1>7 DEF AppInvariant, Obeyed, Asking, Sets
<1> QED BY <1>3, <1>4, <1>5, <1>8, <1>9, <1>10 DEF AppInvariant

\* A command is sent by a host that waits for nothing.
LEMMA HostSendsKeeps == ASSUME AppInvariant, Unhurried, Proper, HostSends PROVE AppInvariant'
<1>1. PICK c \in Commands :
        /\ wire' = [wire EXCEPT !.out = c]
        /\ host' = [host EXCEPT !.sent = host.sent + 1, !.got = None,
                                !.asked = IF c.op = 0 THEN None ELSE c,
                                !.mem = IF c.op = 0 THEN Knows(c) ELSE host.mem]
  BY DEF HostSends
<1>2. /\ main' = main /\ board' = board /\ gpio' = gpio /\ hid' = hid
      /\ fabric' = fabric /\ ram' = ram /\ audio' = audio
      /\ host.asked = None /\ wire.out = None /\ ~hid.in /\ ~(main.at < Test)
  BY DEF HostSends, Unhurried
<1>3. /\ DOMAIN wire' = {"out", "dma", "reply"} /\ wire'.out = c /\ wire'.dma = wire.dma
      /\ wire'.reply = wire.reply
  BY <1>1 DEF AppInvariant, Shapes
<1>4. /\ DOMAIN host' = {"up", "asked", "got", "sent", "mem", "set"} /\ host'.got = None
      /\ host'.set = host.set
      /\ host'.asked = IF c.op = 0 THEN None ELSE c
      /\ host'.mem = IF c.op = 0 THEN Knows(c) ELSE host.mem
  BY <1>1 DEF AppInvariant, Shapes
<1>5. c # None BY AppAssumption
<1>6. Shapes' BY <1>2, <1>3, <1>4 DEF AppInvariant, Shapes, Knows, Filled
<1>7. Booted' BY <1>2, <1>3, <1>4 DEF AppInvariant, Booted
<1>8. PinsKept' BY <1>2 DEF AppInvariant, PinsKept
<1>9. Exchange' BY <1>2, <1>3, <1>4, <1>5, Travels DEF Exchange
<1>10. Memory'
  <2>1. \A a \in Addrs : Known(a) => host.mem[a] = ram.mem[a]
    BY <1>2, Travels DEF InMemory
  <2>2. CASE c.op # 0
    <3>1. InMemory' = ram.mem BY <1>2, <1>3, <2>2 DEF InMemory
    <3> QED BY <1>4, <2>1, <2>2, <3>1 DEF Memory, Known
  <2>3. CASE c.op = 0
    <3>1. InMemory' = Filled(ram.mem, c.val.addr, Received(c))
      BY <1>2, <1>3, <1>5, <2>3 DEF InMemory, StoredWith, Received, Filled
    <3>2. SUFFICES ASSUME NEW a \in Addrs, Knows(c)[a] # None
                   PROVE  Knows(c)[a] = Filled(ram.mem, c.val.addr, Received(c))[a]
      BY <1>4, <2>3, <3>1 DEF Memory, Known
    <3> DEFINE i == a - c.val.addr + 1
    <3>3. DOMAIN c.words \subseteq 1..Words BY AppAssumption
    <3>4. DOMAIN Received(c) = 1..Words /\ DOMAIN Blanks = 1..Words BY DEF Received, Blanks
    <3>5. CASE i \in DOMAIN c.words
      <4>1. Knows(c)[a] = c.words[i] BY <3>5 DEF Knows, Filled
      <4>2. Received(c)[i] = c.words[i] BY <3>3, <3>5 DEF Received
      <4>3. i \in DOMAIN Received(c) BY <3>3, <3>4, <3>5
      <4> HIDE DEF i
      <4>4. Filled(ram.mem, c.val.addr, Received(c))[a] = Received(c)[i]
        BY <4>3 DEF Filled, i
      <4> QED BY <4>1, <4>2, <4>4
    <3>6. CASE i \notin DOMAIN c.words /\ i \in 1..Words
      <4>1. Knows(c)[a] = Blanks[i] BY <3>4, <3>6 DEF Knows, Filled
      <4> QED BY <3>2, <3>6, <4>1 DEF Blanks
    <3>7. CASE i \notin DOMAIN c.words /\ i \notin 1..Words
      <4>1. Knows(c)[a] = host.mem[a] BY <3>4, <3>7 DEF Knows, Filled
      <4>2. Filled(ram.mem, c.val.addr, Received(c))[a] = ram.mem[a]
        BY <3>4, <3>7 DEF Filled
      <4> QED BY <2>1, <3>2, <4>1, <4>2 DEF Known
    <3> QED BY <3>5, <3>6, <3>7
  <2> QED BY <2>2, <2>3
<1>11. Obeyed'
  <2>1. \A r : Value(r)' = Value(r) BY <1>2 DEF Value
  <2>2. \A r : ~Asking(r) BY <1>2 DEF Asking
  <2> QED BY <1>2, <1>4, <2>1, <2>2 DEF AppInvariant, Obeyed
<1> QED BY <1>6, <1>7, <1>8, <1>9, <1>10, <1>11 DEF AppInvariant

\* The reply is taken.
LEMMA HostTakesKeeps == ASSUME AppInvariant, HostTakes PROVE AppInvariant'
<1> DEFINE asked == host.asked
<1>1. /\ wire.reply # None /\ wire' = [wire EXCEPT !.reply = None]
      /\ host' = [host EXCEPT !.asked = None, !.got = [to |-> asked, says |-> wire.reply],
                              !.set = IF Sets(asked)
                                      THEN [host.set EXCEPT ![SetBy[asked.op]] = Meant(asked)]
                                      ELSE host.set]
      /\ main' = main /\ board' = board /\ gpio' = gpio /\ hid' = hid
      /\ fabric' = fabric /\ ram' = ram /\ audio' = audio
  BY DEF HostTakes
<1>2. /\ DOMAIN wire' = {"out", "dma", "reply"} /\ wire'.out = wire.out /\ wire'.dma = wire.dma
      /\ wire'.reply = None
  BY <1>1 DEF AppInvariant, Shapes
<1>3. /\ DOMAIN host' = {"up", "asked", "got", "sent", "mem", "set"} /\ host'.asked = None
      /\ host'.got = [to |-> asked, says |-> wire.reply] /\ host'.mem = host.mem
      /\ host'.set = IF Sets(asked)
                     THEN [host.set EXCEPT ![SetBy[asked.op]] = Meant(asked)] ELSE host.set
  BY <1>1 DEF AppInvariant, Shapes
<1>4. asked # None /\ Replied /\ asked \in Commands /\ ~wire.dma
  BY <1>1, Travels DEF Replied
<1>5. /\ wire.out = None /\ ~hid.in /\ Right(asked, wire.reply)
      /\ Sets(asked) => Value(SetBy[asked.op]) = Meant(asked)
  BY <1>4 DEF Replied
<1>6. DOMAIN host.set = Settings /\ DOMAIN host'.set = Settings
  BY <1>3 DEF AppInvariant, Shapes
<1>7. Shapes' BY <1>1, <1>2, <1>3, <1>6 DEF AppInvariant, Shapes
<1>8. Booted' BY <1>1, <1>2, <1>3, <1>4 DEF AppInvariant, Booted
<1>9. PinsKept' BY <1>1 DEF AppInvariant, PinsKept
<1>10. Exchange' BY <1>1, <1>2, <1>3, <1>4, <1>5, Travels DEF Exchange
<1>11. Memory' BY <1>1, <1>2, <1>3, MemoryStays
<1>12. \A c, says : Right(c, says)' = Right(c, says) BY <1>1, <1>3, RightStays
<1>13. \A r : Value(r)' = Value(r) BY <1>1 DEF Value
<1>14. \A r \in Settings : host'.set[r] # None => host'.set[r] = Value(r)
  <2>1. SUFFICES ASSUME NEW r \in Settings, host'.set[r] # None PROVE host'.set[r] = Value(r)
    OBVIOUS
  <2>2. CASE Sets(asked) /\ SetBy[asked.op] = r
    BY <1>3, <1>5, <1>6, <2>2
  <2>3. CASE ~(Sets(asked) /\ SetBy[asked.op] = r)
    <3>1. host'.set[r] = host.set[r] BY <1>3, <1>6, <2>3
    <3>2. ~Asking(r) BY <2>3 DEF Asking
    <3> QED BY <2>1, <3>1, <3>2 DEF AppInvariant, Obeyed
  <2> QED BY <2>2, <2>3
<1>15. host'.set["sharpness"] # None => \E c \in Commands : c.op = 4 /\ host'.set["sharpness"] = c.val
  <2>0. "sharpness" \in Settings BY DEF Settings, Registers
  <2>1. CASE Sets(asked) /\ SetBy[asked.op] = "sharpness"
    <3>1. asked.op = 4 BY <2>1 DEF Sets, SetBy
    <3>2. host'.set["sharpness"] = Meant(asked) BY <1>3, <1>6, <2>0, <2>1
    <3>3. Meant(asked) = asked.val BY <3>1 DEF Meant
    <3> QED BY <1>4, <3>1, <3>2, <3>3
  <2>2. CASE ~(Sets(asked) /\ SetBy[asked.op] = "sharpness")
    <3>1. host'.set["sharpness"] = host.set["sharpness"] BY <1>3, <1>6, <2>0, <2>2
    <3> QED BY <3>1 DEF AppInvariant, Obeyed
  <2> QED BY <2>1, <2>2
<1>16. Obeyed'
  <2>0. host'.got.to = asked /\ host'.got.says = wire.reply BY <1>3
  <2>1. host'.got.to # None /\ Right(host.got.to, host.got.says)'
    BY <1>1, <1>3, <1>4, <1>5, <2>0 DEF Right, Answered
  <2>2. audio'.done => audio'.runs BY <1>1 DEF AppInvariant, Obeyed
  <2> QED BY <2>1, <2>2, <1>13, <1>14, <1>15 DEF Obeyed
<1> QED BY <1>7, <1>8, <1>9, <1>10, <1>11, <1>16 DEF AppInvariant

---------------------------------------------------------------------------
(* What a command does.                                                      *)

After(e, r) == IF r = "mux" THEN Level(e.gpio, "mux") ELSE e.fabric[r]

\* The memory, the registers, the pins and the audio that it leaves.
Leaves(c, e) ==
  /\ DOMAIN e.ram = {"mem", "ptr"} /\ DOMAIN e.ram.mem = Addrs
  /\ e.ram.mem = (IF c.op = 0 THEN StoredWith(c, hid.data) ELSE ram.mem)
  /\ DOMAIN e.fabric = Registers
  /\ DOMAIN e.gpio = {"out", "cfg"} /\ DOMAIN e.gpio.out = Pins /\ e.gpio.cfg = gpio.cfg
  /\ c.op # 5 => e.gpio = gpio
  /\ e.audio \in [done : BOOLEAN, runs : BOOLEAN]
  /\ audio.runs => e.audio.runs
  /\ e.audio.done => e.audio.runs
  /\ c.op \in {0, 10} => e.audio = audio

\* What it answers.
Answers(c, e) ==
  /\ e.ready = TRUE /\ (e.replies <=> c.op # 0)
  /\ c.op = 1 => e.tx = <<"memory", Fetched(c.val.addr, WordsRead(c))>>
  /\ c.op = 9 => e.tx = <<9, 10>>
  /\ c.op = 10 => e.tx = <<10, audio.done>>
  /\ c.op = 11 => e.tx = <<11>>

\* The setting that it makes, and that it makes no other.
Makes(c, e) ==
  /\ Sets(c) => After(e, SetBy[c.op]) = Meant(c)
  /\ \A r \in Settings : ~(Sets(c) /\ SetBy[c.op] = r) =>
       \/ After(e, r) = Value(r)
       \/ c.op = 11 /\ r = "sharpness" /\ After(e, r) = c.val

Effect(c, e) == Leaves(c, e) /\ Answers(c, e) /\ Makes(c, e)

LEMMA NowIs ==
  /\ DOMAIN Now = {"ram", "fabric", "gpio", "audio", "change", "tx", "replies", "ready"}
  /\ Now.ram = ram /\ Now.fabric = fabric /\ Now.gpio = gpio /\ Now.audio = audio
  /\ Now.change = change /\ Now.tx = hid.tx /\ Now.replies = TRUE /\ Now.ready = TRUE
  BY DEF Now

LEMMA State ==
  ASSUME AppInvariant
  PROVE  /\ DOMAIN ram = {"mem", "ptr"} /\ DOMAIN ram.mem = Addrs /\ DOMAIN fabric = Registers
         /\ DOMAIN gpio = {"out", "cfg"} /\ DOMAIN gpio.out = Pins /\ DOMAIN gpio.cfg = Pins
         /\ audio \in [done : BOOLEAN, runs : BOOLEAN] /\ (audio.done => audio.runs)
  BY DEF AppInvariant, Shapes, Obeyed

LEMMA SettingIs ==
  ASSUME AppInvariant, NEW c, NEW register \in Registers,
         c.op \in {2, 3, 4, 12, 13, 14}, SetBy[c.op] = register,
         NEW e, e = Setting(register, c)
  PROVE  Effect(c, e)
<1>1. e = [Now EXCEPT !.fabric = [fabric EXCEPT ![register] = c.val], !.tx = Zeros]
  BY NowIs DEF Setting
<1>2. /\ e.fabric = [fabric EXCEPT ![register] = c.val]
      /\ e.ram = ram /\ e.gpio = gpio /\ e.audio = audio /\ e.replies = TRUE /\ e.ready = TRUE
  BY <1>1, NowIs
<1>3. register # "mux" /\ Sets(c) /\ Meant(c) = c.val BY DEF Registers, Sets, SetBy, Meant
<1>4. After(e, SetBy[c.op]) = Meant(c) BY <1>2, <1>3, State DEF After
<1>5. ASSUME NEW r \in Settings, r # register PROVE After(e, r) = Value(r)
  BY <1>2, <1>5, State DEF After, Value, Settings
<1>6. Leaves(c, e) BY <1>2, State DEF Leaves
<1>7. Answers(c, e) BY <1>2 DEF Answers
<1>8. Makes(c, e) BY <1>3, <1>4, <1>5 DEF Makes
<1> QED BY <1>6, <1>7, <1>8 DEF Effect

LEMMA VersionIs ==
  ASSUME AppInvariant, NEW c, c.op = 11, NEW e, e = Version(c) PROVE Effect(c, e)
<1>0. "sharpness" \in Registers BY DEF Registers
<1>1. e = [Now EXCEPT !.fabric = [fabric EXCEPT !["sharpness"] = c.val], !.tx = <<11>>]
  BY NowIs DEF Version
<1>2. /\ e.fabric = [fabric EXCEPT !["sharpness"] = c.val]
      /\ e.ram = ram /\ e.gpio = gpio /\ e.audio = audio /\ e.replies = TRUE /\ e.ready = TRUE
      /\ e.tx = <<11>>
  BY <1>1, NowIs
<1>3. ~Sets(c) BY DEF Sets, SetBy
<1>4. After(e, "sharpness") = c.val BY <1>0, <1>2, State DEF After
<1>5. ASSUME NEW r \in Settings, r # "sharpness" PROVE After(e, r) = Value(r)
  BY <1>2, <1>5, State DEF After, Value, Settings
<1>6. Leaves(c, e) BY <1>2, State DEF Leaves
<1>7. Answers(c, e) BY <1>2 DEF Answers
<1>8. Makes(c, e) BY <1>3, <1>4, <1>5 DEF Makes
<1> QED BY <1>6, <1>7, <1>8 DEF Effect

LEMMA BulkReadIs == ASSUME AppInvariant, NEW c, c.op = 1, NEW e, e = BulkRead(c) PROVE Effect(c, e)
<1> DEFINE end == c.val.addr + WordsRead(c)
<1> DEFINE fetched == Fetched(c.val.addr, WordsRead(c))
<1>1. e = [Now EXCEPT !.ram = [ram EXCEPT !.ptr = end], !.tx = <<"memory", fetched>>]
  BY NowIs DEF BulkRead
<1> HIDE DEF end, fetched
<1>2. /\ e.ram = [ram EXCEPT !.ptr = end] /\ e.tx = <<"memory", fetched>>
      /\ e.fabric = fabric /\ e.gpio = gpio /\ e.audio = audio /\ e.replies = TRUE /\ e.ready = TRUE
  BY <1>1, NowIs
<1>3. DOMAIN e.ram = {"mem", "ptr"} /\ e.ram.mem = ram.mem BY <1>2, State
<1>4. ~Sets(c) BY DEF Sets, SetBy
<1>5. \A r : After(e, r) = Value(r) BY <1>2 DEF After, Value
<1>6. Leaves(c, e) BY <1>2, <1>3, State DEF Leaves
<1>7. Answers(c, e) BY <1>2 DEF Answers, fetched
<1>8. Makes(c, e) BY <1>5, <1>4 DEF Makes
<1> QED BY <1>6, <1>7, <1>8 DEF Effect

LEMMA BulkWriteIs == ASSUME AppInvariant, NEW c, c.op = 0, NEW e, e = BulkWrite(c) PROVE Effect(c, e)
<1> DEFINE left == Filled(ram.mem, c.val.addr, hid.data)
<1>1. e = [Now EXCEPT !.ram = [mem |-> left, ptr |-> c.val.addr + Words], !.replies = FALSE]
  BY NowIs DEF BulkWrite
<1> HIDE DEF left
<1>2. /\ e.ram = [mem |-> left, ptr |-> c.val.addr + Words]
      /\ e.fabric = fabric /\ e.gpio = gpio /\ e.audio = audio /\ e.replies = FALSE /\ e.ready = TRUE
  BY <1>1, NowIs
<1>3. /\ DOMAIN e.ram = {"mem", "ptr"} /\ DOMAIN e.ram.mem = Addrs
      /\ e.ram.mem = StoredWith(c, hid.data)
  BY <1>2 DEF StoredWith, left, Filled
<1>4. ~Sets(c) BY DEF Sets, SetBy
<1>5. \A r : After(e, r) = Value(r) BY <1>2 DEF After, Value
<1>6. Leaves(c, e) BY <1>2, <1>3, State DEF Leaves
<1>7. Answers(c, e) BY <1>2 DEF Answers
<1>8. Makes(c, e) BY <1>4, <1>5 DEF Makes
<1> QED BY <1>6, <1>7, <1>8 DEF Effect

\* The multiplexer's pin is an output by now.
LEMMA DemoSelectionIs ==
  ASSUME AppInvariant, NEW c, c.op = 5, main.at > 34, NEW e, e = DemoSelection(c) PROVE Effect(c, e)
<1> DEFINE value == IF c.val = 1 THEN 1 ELSE 0
<1>0. "mux" \in Pins BY DEF Pins
<1>1. e = [Now EXCEPT !.gpio = [gpio EXCEPT !.out = [gpio.out EXCEPT !["mux"] = value]]]
  BY NowIs DEF DemoSelection, OutputSet, Changed
<1> HIDE DEF value
<1>2. /\ e.gpio = [gpio EXCEPT !.out = [gpio.out EXCEPT !["mux"] = value]]
      /\ e.ram = ram /\ e.fabric = fabric /\ e.audio = audio /\ e.replies = TRUE /\ e.ready = TRUE
  BY <1>1, NowIs
<1>3. /\ DOMAIN e.gpio = {"out", "cfg"} /\ e.gpio.cfg = gpio.cfg
      /\ e.gpio.out = [gpio.out EXCEPT !["mux"] = value]
  BY <1>2, State
<1>4. DOMAIN e.gpio.out = Pins /\ e.gpio.out["mux"] = value BY <1>0, <1>3, State
<1>5. Sets(c) /\ SetBy[c.op] = "mux" /\ Meant(c) = value BY DEF Sets, SetBy, Meant, value
<1>6. Level(e.gpio, "mux") = value BY <1>3, <1>4, Shaped DEF Level
<1>7. After(e, SetBy[c.op]) = Meant(c) BY <1>5, <1>6 DEF After
<1>8. \A r : r # "mux" => After(e, r) = Value(r) BY <1>2 DEF After, Value
<1>9. Leaves(c, e) BY <1>2, <1>3, <1>4, State DEF Leaves
<1>10. Answers(c, e) BY <1>2 DEF Answers
<1>11. Makes(c, e) BY <1>5, <1>7, <1>8 DEF Makes
<1> QED BY <1>9, <1>10, <1>11 DEF Effect

LEMMA AudioLoopIs ==
  ASSUME AppInvariant, NEW c, c.op = 7, c.val \in {1, 2}, NEW e, e = AudioLoop(c) PROVE Effect(c, e)
<1>0. "loopback" \in Registers BY DEF Registers
<1>1. e = [Now EXCEPT !.fabric = [fabric EXCEPT !["loopback"] = (c.val = 1)]]
  <2> DEFINE on == CASE c.val = 1 -> TRUE [] c.val = 2 -> FALSE [] OTHER -> Now.fabric["loopback"]
  <2>1. e = [Now EXCEPT !.fabric["loopback"] = on] BY Zenon DEF AudioLoop
  <2>2. on = (c.val = 1)
    <3>0. 1 # 2 OBVIOUS
    <3>1. CASE c.val = 1
      <4>1. on = TRUE BY <3>0, <3>1, Zenon
      <4> HIDE DEF on
      <4> QED BY <3>1, <4>1
    <3>2. CASE c.val = 2
      <4>1. on = FALSE BY <3>0, <3>2, Zenon
      <4> HIDE DEF on
      <4> QED BY <3>0, <3>2, <4>1
    <3> QED BY <3>1, <3>2
  <2> HIDE DEF on
  <2> QED BY <2>1, <2>2, NowIs
<1>2. /\ e.fabric = [fabric EXCEPT !["loopback"] = (c.val = 1)]
      /\ e.ram = ram /\ e.gpio = gpio /\ e.audio = audio /\ e.replies = TRUE /\ e.ready = TRUE
  BY <1>1, NowIs
<1>3. Sets(c) /\ SetBy[c.op] = "loopback" /\ Meant(c) = (c.val = 1) BY DEF Sets, SetBy, Meant
<1>4. After(e, SetBy[c.op]) = Meant(c) BY <1>0, <1>2, <1>3, State DEF After
<1>5. ASSUME NEW r \in Settings, r # "loopback" PROVE After(e, r) = Value(r)
  BY <1>2, <1>5, State DEF After, Value, Settings
<1>6. Leaves(c, e) BY <1>2, State DEF Leaves
<1>7. Answers(c, e) BY <1>2 DEF Answers
<1>8. Makes(c, e) BY <1>3, <1>4, <1>5 DEF Makes
<1> QED BY <1>6, <1>7, <1>8 DEF Effect

LEMMA TestModeIs == ASSUME AppInvariant, NEW c, c.op = 6, NEW e, e = TestMode(c) PROVE Effect(c, e)
<1>1. e = [Now EXCEPT !.change = [mode_change |-> TRUE, mode_val |-> c.val]] BY DEF TestMode
<1>2. /\ e.ram = ram /\ e.fabric = fabric /\ e.gpio = gpio /\ e.audio = audio
      /\ e.replies = TRUE /\ e.ready = TRUE
  BY <1>1, NowIs
<1>3. ~Sets(c) BY DEF Sets, SetBy
<1>4. \A r : After(e, r) = Value(r) BY <1>2 DEF After, Value
<1>5. Leaves(c, e) BY <1>2, State DEF Leaves
<1>6. Answers(c, e) BY <1>2 DEF Answers
<1>7. Makes(c, e) BY <1>4, <1>3 DEF Makes
<1> QED BY <1>5, <1>6, <1>7 DEF Effect

\* An audio that counts as configured has its loop-back started.
LEMMA ConfigureAudioIs ==
  ASSUME AppInvariant, Unhurried, NEW c, c.op = 8, NEW e \in ConfigureAudio PROVE Effect(c, e)
<1>1. \/ e = Now
      \/ e = [Now EXCEPT !.audio = [done |-> TRUE, runs |-> audio.runs \/ TRUE]]
  BY NowIs DEF ConfigureAudio, Unhurried
<1>2. /\ e.ram = ram /\ e.fabric = fabric /\ e.gpio = gpio /\ e.replies = TRUE /\ e.ready = TRUE
      /\ e.audio = audio \/ e.audio = [done |-> TRUE, runs |-> TRUE]
  BY <1>1, NowIs
<1>3. ~Sets(c) BY DEF Sets, SetBy
<1>4. /\ e.audio \in [done : BOOLEAN, runs : BOOLEAN]
      /\ audio.runs => e.audio.runs
      /\ e.audio.done => e.audio.runs
  <2>1. CASE e.audio = audio BY <2>1, State
  <2>2. CASE e.audio = [done |-> TRUE, runs |-> TRUE] BY <2>2
  <2> QED BY <1>2, <2>1, <2>2
<1>5. DOMAIN e.ram = {"mem", "ptr"} /\ e.ram.mem = ram.mem BY <1>2, State
<1>6. \A r : After(e, r) = Value(r) BY <1>2 DEF After, Value
<1>7. Leaves(c, e) BY <1>2, <1>4, <1>5, State DEF Leaves
<1>8. Answers(c, e) BY <1>2 DEF Answers
<1>9. Makes(c, e) BY <1>6, <1>3 DEF Makes
<1> QED BY <1>7, <1>8, <1>9 DEF Effect

LEMMA ConnectIs == ASSUME AppInvariant, NEW c, c.op = 9, NEW e, e = Connect PROVE Effect(c, e)
<1>1. e = [Now EXCEPT !.tx = <<9, 10>>] BY DEF Connect
<1>2. /\ e.ram = ram /\ e.fabric = fabric /\ e.gpio = gpio /\ e.audio = audio
      /\ e.replies = TRUE /\ e.ready = TRUE /\ e.tx = <<9, 10>>
  BY <1>1, NowIs
<1>3. ~Sets(c) BY DEF Sets, SetBy
<1>4. \A r : After(e, r) = Value(r) BY <1>2 DEF After, Value
<1>5. Leaves(c, e) BY <1>2, State DEF Leaves
<1>6. Answers(c, e) BY <1>2 DEF Answers
<1>7. Makes(c, e) BY <1>4, <1>3 DEF Makes
<1> QED BY <1>5, <1>6, <1>7 DEF Effect

LEMMA AudioStateIs == ASSUME AppInvariant, NEW c, c.op = 10, NEW e, e = AudioState PROVE Effect(c, e)
<1>1. e = [Now EXCEPT !.tx = <<10, audio.done>>] BY DEF AudioState
<1>2. /\ e.ram = ram /\ e.fabric = fabric /\ e.gpio = gpio /\ e.audio = audio
      /\ e.replies = TRUE /\ e.ready = TRUE /\ e.tx = <<10, audio.done>>
  BY <1>1, NowIs
<1>3. ~Sets(c) BY DEF Sets, SetBy
<1>4. \A r : After(e, r) = Value(r) BY <1>2 DEF After, Value
<1>5. Leaves(c, e) BY <1>2, State DEF Leaves
<1>6. Answers(c, e) BY <1>2 DEF Answers
<1>7. Makes(c, e) BY <1>4, <1>3 DEF Makes
<1> QED BY <1>5, <1>6, <1>7 DEF Effect

LEMMA EffectOf ==
  ASSUME AppInvariant, Unhurried, Proper, main.at > 34, NEW c \in Commands, NEW e \in Executed(c)
  PROVE  Effect(c, e)
<1>0. c.op \in 0..14 BY AppAssumption
<1>1. {"gain", "hue", "sharpness", "logo", "alpha", "run"} \subseteq Registers BY DEF Registers
<1>2. CASE c.op = 0 BY <1>2, BulkWriteIs DEF Executed
<1>3. CASE c.op = 1 BY <1>3, BulkReadIs DEF Executed
<1>4. CASE c.op = 2
  <2>1. e = Setting("gain", c) /\ SetBy[c.op] = "gain" BY <1>4 DEF Executed, SetBy
  <2> QED BY <1>1, <1>4, <2>1, SettingIs
<1>5. CASE c.op = 3
  <2>1. e = Setting("hue", c) /\ SetBy[c.op] = "hue" BY <1>5 DEF Executed, SetBy
  <2> QED BY <1>1, <1>5, <2>1, SettingIs
<1>6. CASE c.op = 4
  <2>1. e = Setting("sharpness", c) /\ SetBy[c.op] = "sharpness" BY <1>6 DEF Executed, SetBy
  <2> QED BY <1>1, <1>6, <2>1, SettingIs
<1>7. CASE c.op = 5 BY <1>7, DemoSelectionIs DEF Executed
<1>8. CASE c.op = 6 BY <1>8, TestModeIs DEF Executed
<1>9. CASE c.op = 7
  <2>1. c.val \in {1, 2} BY <1>9 DEF Proper
  <2> QED BY <1>9, <2>1, AudioLoopIs DEF Executed
<1>10. CASE c.op = 8 BY <1>10, ConfigureAudioIs DEF Executed
<1>11. CASE c.op = 9 BY <1>11, ConnectIs DEF Executed
<1>12. CASE c.op = 10 BY <1>12, AudioStateIs DEF Executed
<1>13. CASE c.op = 11 BY <1>13, VersionIs DEF Executed
<1>14. CASE c.op = 12
  <2>1. e = Setting("logo", c) /\ SetBy[c.op] = "logo" BY <1>14 DEF Executed, ImageSetting, SetBy
  <2> QED BY <1>1, <1>14, <2>1, SettingIs
<1>15. CASE c.op = 13
  <2>1. e = Setting("alpha", c) /\ SetBy[c.op] = "alpha" BY <1>15 DEF Executed, ImageSetting, SetBy
  <2> QED BY <1>1, <1>15, <2>1, SettingIs
<1>16. CASE c.op = 14
  <2>1. e = Setting("run", c) /\ SetBy[c.op] = "run" BY <1>16 DEF Executed, ImageSetting, SetBy
  <2> QED BY <1>1, <1>16, <2>1, SettingIs
<1> QED BY <1>0, <1>2, <1>3, <1>4, <1>5, <1>6, <1>7, <1>8, <1>9, <1>10, <1>11, <1>12, <1>13,
           <1>14, <1>15, <1>16

\* A read of words that the host knows.
LEMMA ReadIsAnswered ==
  ASSUME Proper, NEW c \in Commands, c.op = 1,
         \A a \in Addrs : Known(a) => host.mem[a] = ram.mem[a]
  PROVE  Answered(c, <<"memory", Fetched(c.val.addr, WordsRead(c))>>)
<1> DEFINE n == WordsRead(c)
<1>1. c.val.addr \in Nat BY AppAssumption DEF Proper
<1>2. n \in Nat BY DEF Proper, WordsRead
<1>3. c.val.addr .. c.val.addr + n - 1 \subseteq Addrs BY DEF Proper
<1> HIDE DEF n
<1>4. ASSUME NEW i \in 1..n, Known(c.val.addr + i - 1)
      PROVE  Fetched(c.val.addr, n)[i] = host.mem[c.val.addr + i - 1]
  <2>1. c.val.addr + i - 1 \in c.val.addr .. c.val.addr + n - 1 BY <1>1, <1>2
  <2>2. c.val.addr + i - 1 \in Addrs BY <1>3, <2>1
  <2>3. Fetched(c.val.addr, n)[i] = ram.mem[c.val.addr + i - 1] BY <2>2 DEF Fetched
  <2> QED BY <1>4, <2>2, <2>3
<1>5. \A i \in 1..n : host.mem[c.val.addr + i - 1] # None =>
        <<"memory", Fetched(c.val.addr, n)>>[2][i] = host.mem[c.val.addr + i - 1]
  BY <1>4 DEF Known
<1> QED BY <1>5 DEF Answered, n

\* The command is executed, in the interrupt.
LEMMA RxCbKeeps == ASSUME AppInvariant, Unhurried, Proper, RxCb PROVE AppInvariant'
<1> DEFINE c == hid.rx
<1>1. hid.in /\ c \in Commands /\ hid.ready = TRUE BY Travels DEF RxCb
<1>2. main.at > 34 BY <1>1, Shaped, BeforeTheLoop
<1>3. PICK e \in Executed(c) :
        /\ ram' = e.ram /\ fabric' = e.fabric /\ audio' = e.audio /\ gpio' = e.gpio
        /\ hid' = [hid EXCEPT !.in = FALSE, !.tx = e.tx, !.ready = e.ready]
        /\ wire' = [wire EXCEPT !.out = None, !.dma = wire.dma \/ e.replies]
  BY <1>1 DEF RxCb
<1>4. main' = main /\ board' = board /\ host' = host BY DEF RxCb
<1>5. Leaves(c, e) /\ Answers(c, e) /\ Makes(c, e) BY <1>1, <1>2, EffectOf DEF Effect
<1>6. /\ DOMAIN hid' = {"in", "ready", "rx", "tx", "data"} /\ hid'.in = FALSE /\ hid'.rx = hid.rx
      /\ hid'.ready = TRUE /\ hid'.tx = e.tx
  BY <1>3, <1>5 DEF AppInvariant, Shapes, Answers
<1>7. /\ DOMAIN wire' = {"out", "dma", "reply"} /\ wire'.out = None
      /\ wire'.dma = (wire.dma \/ e.replies) /\ wire'.reply = wire.reply
  BY <1>3 DEF AppInvariant, Shapes
<1>8. (e.replies <=> c.op # 0) /\ wire.dma \in BOOLEAN BY <1>5 DEF Answers, AppInvariant, Shapes
<1>9. /\ host.asked = None => c.op = 0
      /\ host.asked # None => host.asked = c /\ c.op # 0 /\ host.got = None
      /\ ~wire.dma /\ wire.reply = None
  BY <1>1, AppAssumption, Travels DEF Replied
<1>10. wire'.dma = (c.op # 0) BY <1>7, <1>8, <1>9
<1>11. \A a \in Addrs :
         Known(a) => host.mem[a] = IF c.op = 0 THEN StoredWith(c, hid.data)[a] ELSE ram.mem[a]
  <2>1. InMemory = IF c.op = 0 THEN StoredWith(c, hid.data) ELSE ram.mem
    BY <1>1, Travels DEF InMemory
  <2> QED BY <2>1, Travels
<1>12. \A a \in Addrs : Known(a) => host.mem[a] = ram'.mem[a]
  BY <1>3, <1>5, <1>11 DEF Leaves
<1>13. \A r : Value(r)' = After(e, r) BY <1>3 DEF Value, After
<1>14. Shapes'
  <2>1. /\ DOMAIN ram' = {"mem", "ptr"} /\ DOMAIN fabric' = Registers
        /\ DOMAIN gpio' = {"out", "cfg"} /\ DOMAIN gpio'.out = Pins /\ gpio'.cfg = gpio.cfg
        /\ audio' \in [done : BOOLEAN, runs : BOOLEAN]
    BY <1>3, <1>5 DEF Leaves
  <2>2. DOMAIN ram'.mem = Addrs BY <1>3, <1>5 DEF Leaves
  <2>3. wire'.dma \in BOOLEAN BY <1>10
  <2> QED BY <1>4, <1>6, <1>7, <2>1, <2>2, <2>3 DEF AppInvariant, Shapes
<1>15. Booted'
  <2>1. gpio'.cfg = gpio.cfg BY <1>3, <1>5 DEF Leaves
  <2> QED BY <1>2, <1>4, <1>6, <1>7, <2>1 DEF AppInvariant, Booted
<1>16. PinsKept'
  <2>1. main.seen # None => gpio' = gpio /\ main.seen = gpio.out
    BY <1>1, <1>3, <1>5 DEF AppInvariant, PinsKept, Leaves
  <2> QED BY <1>4, <1>6, <2>1 DEF PinsKept
<1>17. Exchange'
  <2>1. CASE host.asked = None BY <1>4, <1>6, <1>7, <1>9, <1>10, <2>1 DEF Exchange
  <2>2. CASE host.asked # None
    <3>1. c.op = 1 => Answered(c, e.tx)
      <4>1. SUFFICES ASSUME c.op = 1 PROVE Answered(c, e.tx) OBVIOUS
      <4>2. e.tx = <<"memory", Fetched(c.val.addr, WordsRead(c))>> BY <1>5, <4>1 DEF Answers
      <4>3. \A a \in Addrs : Known(a) => host.mem[a] = ram.mem[a] BY <1>11, <4>1
      <4> QED BY <1>1, <4>1, <4>2, <4>3, ReadIsAnswered
    <3>2. audio \in [done : BOOLEAN, runs : BOOLEAN] /\ (audio.done => audio.runs) BY State
    <3>3. c.op = 10 => e.tx \in {<<10, FALSE>>, <<10, audio'.runs>>}
      <4>1. SUFFICES ASSUME c.op = 10 PROVE e.tx \in {<<10, FALSE>>, <<10, audio'.runs>>} OBVIOUS
      <4>2. e.tx = <<10, audio.done>> /\ audio' = audio BY <1>3, <1>5, <4>1 DEF Answers, Leaves
      <4>3. audio.done = FALSE \/ audio.done = audio.runs BY <3>2
      <4> QED BY <4>2, <4>3
    <3>4. Right(host.asked, hid.tx)'
      <4>1. host'.asked = c /\ hid'.tx = e.tx /\ host'.mem = host.mem BY <1>4, <1>6, <1>9, <2>2
      <4>2. (c.op = 9 => e.tx = <<9, 10>>) /\ (c.op = 11 => e.tx = <<11>>) BY <1>5 DEF Answers
      <4> HIDE DEF c
      <4>3. c.op = 1 => Answered(host.asked, hid.tx)' BY <3>1, <4>1 DEF Answered
      <4> QED BY <3>3, <4>1, <4>2, <4>3 DEF Right
    <3>5. (Sets(host.asked) => Value(SetBy[host.asked.op]) = Meant(host.asked))'
      BY <1>4, <1>5, <1>9, <1>13, <2>2 DEF Makes, Sets, Meant
    <3>6. Replied' BY <1>6, <1>7, <1>9, <1>10, <2>2, <3>4, <3>5 DEF Replied
    <3> QED BY <1>1, <1>4, <1>6, <1>7, <1>9, <2>2, <3>6 DEF Exchange
  <2> QED BY <2>1, <2>2
<1>18. Memory'
  <2>1. InMemory' = ram'.mem BY <1>6, <1>7 DEF InMemory
  <2> QED BY <1>4, <1>12, <2>1 DEF Memory, Known
<1>19. Obeyed'
  <2>1. audio'.done => audio'.runs BY <1>3, <1>5 DEF Leaves
  <2>2. host.got # None => (host.got.to # None /\ Right(host.got.to, host.got.says)')
    <3>1. SUFFICES ASSUME host.got # None
                   PROVE host.got.to # None /\ Right(host.got.to, host.got.says)'
      OBVIOUS
    <3>2. audio' = audio BY <1>3, <1>5, <1>9, <3>1 DEF Leaves
    <3>3. host.got.to # None /\ Right(host.got.to, host.got.says)
      BY <3>1 DEF AppInvariant, Obeyed
    <3> QED BY <1>4, <3>2, <3>3 DEF Right, Answered
  <2>3. ASSUME NEW r \in Settings, host.set[r] # None, ~Asking(r)' PROVE host.set[r] = Value(r)'
    <3>1. ~Asking(r) BY <1>4, <2>3 DEF Asking, Sets
    <3>2. host.set[r] = Value(r) BY <2>3, <3>1 DEF AppInvariant, Obeyed
    <3>3. ~(Sets(c) /\ SetBy[c.op] = r)
      <4>1. CASE host.asked = None BY <1>9, <4>1 DEF Sets, SetBy
      <4>2. CASE host.asked # None BY <1>9, <3>1, <4>2 DEF Asking
      <4> QED BY <4>1, <4>2
    <3>4. After(e, r) = Value(r) \/ (c.op = 11 /\ r = "sharpness" /\ After(e, r) = c.val)
      BY <1>5, <2>3, <3>3 DEF Makes
    <3>5. CASE c.op = 11 /\ r = "sharpness" /\ After(e, r) = c.val
      <4>1. PICK d \in Commands : d.op = 4 /\ host.set["sharpness"] = d.val
        BY <2>3, <3>5 DEF AppInvariant, Obeyed
      <4>2. c.val = d.val BY <1>1, <3>5, <4>1 DEF Proper
      <4> QED BY <1>13, <3>5, <4>1, <4>2
    <3> QED BY <1>13, <3>2, <3>4, <3>5
  <2>4. host.set["sharpness"] # None => \E d \in Commands : d.op = 4 /\ host.set["sharpness"] = d.val
    BY DEF AppInvariant, Obeyed
  <2> QED BY <1>4, <2>1, <2>2, <2>3, <2>4 DEF Obeyed
<1> QED BY <1>14, <1>15, <1>16, <1>17, <1>18, <1>19 DEF AppInvariant

---------------------------------------------------------------------------
LEMMA AppInitHolds == AppInit => AppInvariant
<1> SUFFICES ASSUME AppInit PROVE AppInvariant OBVIOUS
<1>1. Shapes
  <2>1. DOMAIN gpio = {"out", "cfg"} /\ DOMAIN gpio.out = Pins /\ DOMAIN gpio.cfg = Pins
    BY DEF AppInit, GpioInit
  <2>2. DOMAIN board = {"mem", "i2c", "hdmi", "tables"} BY DEF AppInit
  <2> QED BY <2>1, <2>2 DEF AppInit, Shapes
<1>2. Booted BY ProgramIs DEF AppInit, Booted
<1>3. PinsKept BY DEF AppInit, PinsKept
<1>4. Exchange BY DEF AppInit, Exchange
<1>5. Memory BY DEF AppInit, Memory, Known, InMemory
<1>6. "sharpness" \in Settings BY DEF Settings, Registers
<1>7. Obeyed BY <1>6 DEF AppInit, Obeyed
<1> QED BY <1>1, <1>2, <1>3, <1>4, <1>5, <1>7 DEF AppInvariant

LEMMA AppNextKeeps ==
  ASSUME AppInvariant, Unhurried, Proper, [AppNext]_appVars
  PROVE  AppInvariant'
<1>1. CASE Main
  BY <1>1, StartsKeeps, ConfiguresKeeps, DelayClearsKeeps, DelayLoadsKeeps, DelayStartsKeeps,
     DelayEndsKeeps, PinSeenKeeps, PinWrittenKeeps, TellsKeeps, I2cInitKeeps, HdmiWrittenKeeps,
     SincosMemInitKeeps, UsbStartsKeeps, DefaultsKeeps, LoopTestKeeps
  DEF Main
<1>2. CASE DdrGetsReady BY <1>2, DdrGetsReadyKeeps
<1>3. CASE Expires \/ Timer1_IRQHandler BY <1>3, TimerKeeps
<1>4. CASE RxIrq BY <1>4, RxIrqKeeps
<1>5. CASE RxCb BY <1>5, RxCbKeeps
<1>6. CASE TxDma BY <1>6, TxDmaKeeps
<1>7. CASE HostSends BY <1>7, HostSendsKeeps
<1>8. CASE HostTakes BY <1>8, HostTakesKeeps
<1>9. CASE UNCHANGED appVars
  <2>1. board' = board /\ UNCHANGED <<main, gpio, Usb>> BY <1>9 DEF appVars
  <2> QED BY <2>1, Shaped, BoardOnly
<1> QED BY <1>1, <1>2, <1>3, <1>4, <1>5, <1>6, <1>7, <1>8, <1>9 DEF AppNext

LEMMA ObeyedIsEnough == ASSUME AppInvariant, Trigonometric PROVE CommandsObeyed
<1>1. ReplyIsOwn BY DEF AppInvariant, Obeyed, Right, ReplyIsOwn
<1>2. SettingsKept
  <2>1. SUFFICES ASSUME NEW r \in Settings, host.set[r] # None, ~Asking(r)
                 PROVE board.tables /\ host.set[r] = Value(r)
    BY DEF SettingsKept, Asking, Value
  <2>2. host.set[r] = Value(r) BY <2>1 DEF AppInvariant, Obeyed
  <2>3. ~(main.at < 36) BY <2>1, BeforeTheLoop
  <2> QED BY <2>2, <2>3, Shaped
<1> QED BY <1>1, <1>2 DEF CommandsObeyed

THEOREM CommandsObeyedHolds ==
  ASSUME Unhurried, Proper, Trigonometric PROVE AppSpec => []CommandsObeyed
<1>1. AppInvariant /\ [AppNext]_appVars => AppInvariant' BY AppNextKeeps
<1>2. AppInvariant => CommandsObeyed BY ObeyedIsEnough
<1> QED BY <1>1, <1>2, AppInitHolds, PTL DEF AppSpec
=============================================================================
