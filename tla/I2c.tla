-------------------------------- MODULE I2c --------------------------------
(***************************************************************************)
(* The I2C driver (drivers/mss_i2c/mss_i2c.c): master requests issued by a *)
(* client thread, the slave mode, the interrupt service routine that turns *)
(* each status of the controller into the next step of a transaction, and  *)
(* the system tick that times requests out.                                *)
(*                                                                         *)
(* The controller and the bus are external: they produce a status, raise   *)
(* the interrupt flag SI and wait for the driver to clear it.  Bytes are   *)
(* named by their index in the buffer.  The general call statuses share    *)
(* the code of the addressed ones and are not told apart from them.        *)
(***************************************************************************)
EXTENDS Integers, Sequences

CONSTANTS
  MaxLen,      \* bound: the longest buffer of a request
  SlaveRxSize, \* slave_rx_size
  SlaveTxSize, \* slave_tx_size
  OffsetLen,   \* slave_mem_offset_length
  SlaveBytes,  \* the bytes that other masters write to this slave
  Wrap,        \* uint_fast16_t: sizes, indices and offsets are modulo Wrap
  Hazards      \* which of the events below the bus and the client produce

Reasons == {"LOST_ARB", "SLV_LA", "SLARW_LA", "SLV_RST", "BUS_ERROR", "TIMEOUT",
            "HOLD"}

ASSUME I2cAssumption ==
  /\ MaxLen \in Nat \ {0}
  /\ {SlaveRxSize, SlaveTxSize, OffsetLen} \subseteq Nat
  /\ Wrap \in Nat /\ SlaveTxSize < Wrap /\ SlaveBytes \subseteq 0 .. 255
  /\ Hazards \subseteq Reasons

VARIABLES
  m,      \* this_i2c: the driver's record
  hw,     \* the controller: STA, STO, AA, SI, status, the direction and the byte
          \* in DATA, whether the NVIC lets SI through, and the phase of the bus
  client, \* the client thread: "free", or "waiting" for the end of a request
  acked,  \* history: bytes of the request acknowledged since the last START
  got,    \* history: <<slot of the buffer, byte on the wire>> stored since then
  upset   \* history: the events after which some promise of the driver is not
          \* kept; the client then only initialises it again

vars == <<m, hw, client, acked, got, upset>>

Kinds    == {"WRITE", "READ", "RANDOM_READ"}
Statuses == {"SUCCESS", "IN_PROGRESS", "FAILED", "TIMED_OUT"}
Master   == {"start", "mtx", "mrx"}
Slave    == {"srx", "stx"}
Addr     == -1   \* DATA holds the address of the target

\* What the controller reports with SI, by the phase of the bus that follows.
SignalsOf(phase) ==
  CASE phase = "start" -> {"START", "RESTART"}
    [] phase = "mtx"   -> {"SLAW_ACK", "SLAW_NACK", "TX_DATA_ACK", "TX_DATA_NACK"}
    [] phase = "mrx"   -> {"SLAR_ACK", "SLAR_NACK", "RX_DATA_ACK", "RX_DATA_NACK"}
    [] phase = "srx"   -> {"SLAVE_SLAW", "SLV_LA", "RDATA"}
    [] phase = "stx"   -> {"SLAVE_SLAR_ACK", "SLARW_LA", "RACK"}
    [] phase = "idle"  -> {"SLA_NACK", "RSTOP", "FINAL", "RNACK", "SLV_RST", "LOST_ARB",
                           "BUS_ERROR"}

Signals == {"none"} \cup UNION {SignalsOf(phase) : phase \in {"idle"} \cup Master \cup Slave}

---------------------------------------------------------------------------
(* MSS_I2C_init.                                                           *)

InitialRecord ==
  [transaction |-> "NO", pending_transaction |-> "NO", dir |-> "W",
   tx_size |-> 0, tx_idx |-> 0, rx_size |-> 0, rx_idx |-> 0,
   master_status |-> "SUCCESS", hold |-> FALSE, bus_hold |-> FALSE,
   is_transaction_pending |-> FALSE, timeout |-> FALSE,
   is_slave_enabled |-> FALSE, slave_status |-> "SUCCESS",
   slave_rx_idx |-> 0, slave_tx_idx |-> 0, random_read_addr |-> 0]

InitialHw ==
  [STA |-> FALSE, STO |-> FALSE, AA |-> FALSE, SI |-> FALSE, status |-> "none",
   dir |-> "W", data |-> Addr, nvic |-> FALSE, phase |-> "idle"]

Init ==
  /\ m = InitialRecord /\ hw = InitialHw /\ client = "free"
  /\ acked = <<>> /\ got = {} /\ upset = {}

Reinit ==
  /\ client = "free" \/ upset # {}
  /\ m' = InitialRecord /\ hw' = InitialHw /\ client' = "free"
  /\ acked' = <<>> /\ got' = {} /\ upset' = {}

Upset(reason) == upset' = upset \cup {reason}

---------------------------------------------------------------------------
(* The client thread.                                                      *)

\* Is SI an event that the next request will clear without serving it?
EventWaiting == hw.SI /\ hw.nvic

\* MSS_I2C_write, _read and _write_read: all of it under the interrupt mask.
\* STA is set, or the request is pended when a slave transaction is running;
\* SI is cleared when the driver believes that it holds the bus.
Request(kind, tx, rx, hold) ==
  /\ client = "free" /\ m.master_status # "IN_PROGRESS" /\ upset = {}
  /\ client' = "waiting"
  /\ m' = [m EXCEPT
       !.transaction = IF @ = "NO" THEN kind ELSE @,
       !.pending_transaction = kind,
       !.dir = IF kind = "READ" THEN "R" ELSE "W",
       !.tx_size = IF kind = "READ" THEN @ ELSE tx,
       !.tx_idx  = IF kind = "READ" THEN @ ELSE 0,
       !.rx_size = IF kind = "WRITE" THEN @ ELSE rx,
       !.rx_idx  = IF kind = "WRITE" THEN @ ELSE 0,
       !.master_status = "IN_PROGRESS",
       !.hold = hold,
       !.is_transaction_pending = @ \/ m.slave_status = "IN_PROGRESS"]
  /\ hw' = [hw EXCEPT
       !.STA = @ \/ m.slave_status # "IN_PROGRESS",
       !.SI = @ /\ ~m.bus_hold,
       !.status = IF m.bus_hold THEN "none" ELSE @,
       !.nvic = TRUE]
  /\ IF m.bus_hold /\ EventWaiting THEN Upset("HOLD") ELSE UNCHANGED upset
  /\ UNCHANGED <<acked, got>>

Requests ==
  \E hold \in {FALSE} \cup {h \in {TRUE} : "HOLD" \in Hazards} :
    \/ \E n \in 0 .. MaxLen : Request("WRITE", n, 0, hold)
    \/ \E n \in 0 .. MaxLen : Request("READ", 0, n, hold)
    \/ \E t, r \in 1 .. MaxLen : Request("RANDOM_READ", t, r, hold)

\* MSS_I2C_wait_complete sets master_timeout_ms, or resets it when it is to
\* wait without a time-out, and polls the status until the request has ended.
\* (A client that polls MSS_I2C_get_status instead leaves it alone.)
WaitComplete(timed) ==
  /\ client = "waiting" /\ m.timeout # timed
  /\ m' = [m EXCEPT !.timeout = timed]
  /\ UNCHANGED <<hw, client, acked, got, upset>>

StatusSeen ==
  /\ client = "waiting" /\ m.master_status # "IN_PROGRESS"
  /\ client' = "free"
  /\ acked' = <<>> /\ got' = {}
  /\ UNCHANGED <<m, hw, upset>>

\* MSS_I2C_system_tick, when master_timeout_ms runs out.  (How many ticks that
\* takes is left open: timeout tells whether it is running.)
TickExpired ==
  /\ m.timeout
  /\ m' = [m EXCEPT !.master_status = "TIMED_OUT", !.transaction = "NO",
                    !.is_transaction_pending = FALSE, !.timeout = FALSE]
  /\ Upset("TIMEOUT")
  /\ UNCHANGED <<hw, client, acked, got>>

\* MSS_I2C_enable_slave and MSS_I2C_disable_slave, between two requests.
EnableSlave ==
  /\ client = "free" /\ upset = {}
  /\ m' = [m EXCEPT !.is_slave_enabled = TRUE]
  /\ hw' = [hw EXCEPT !.AA = TRUE, !.nvic = TRUE]
  /\ UNCHANGED <<client, acked, got, upset>>

DisableSlave ==
  /\ client = "free" /\ upset = {}
  /\ m' = [m EXCEPT !.is_slave_enabled = FALSE]
  /\ hw' = [hw EXCEPT !.AA = FALSE]
  /\ UNCHANGED <<client, acked, got, upset>>

---------------------------------------------------------------------------
(* The controller and the bus (external).  An event needs SI to be clear.  *)

Event(status, phase) ==
  hw' = [hw EXCEPT !.SI = TRUE, !.status = status, !.phase = phase,
                   !.dir = IF phase = "start" THEN @ ELSE "W",
                   !.data = IF phase = "mtx" THEN @ ELSE Addr]

\* The rarer events come while the driver keeps its promises.
Hazard(event) == event \in Hazards /\ upset = {}

Bus(phases) == ~hw.SI /\ hw.phase \in phases /\ UNCHANGED <<m, client>>

\* The bus is won: START, or a repeated START from a phase as master.
BusStart ==
  /\ Bus({"idle", "mtx", "mrx"}) /\ hw.STA /\ ~hw.STO
  /\ Event(IF hw.phase = "idle" THEN "START" ELSE "RESTART", "start")
  /\ UNCHANGED <<acked, got, upset>>

\* STO is set: a STOP, which raises no interrupt.
BusStop ==
  /\ Bus(Master \cup {"idle"}) /\ hw.STO
  /\ hw' = [hw EXCEPT !.STO = FALSE, !.phase = "idle", !.data = Addr]
  /\ UNCHANGED <<acked, got, upset>>

\* The target answers its address.
BusAddressed ==
  /\ Bus({"start"})
  /\ \/ hw.dir = "W" /\ (Event("SLAW_ACK", "mtx") \/ Event("SLAW_NACK", "mtx"))
     \/ hw.dir = "R" /\ (Event("SLAR_ACK", "mrx") \/ Event("SLAR_NACK", "mrx"))
  /\ UNCHANGED <<acked, got, upset>>

\* A byte sent, acknowledged or not; a byte received, acknowledged if AA.
BusSent ==
  /\ Bus({"mtx"}) /\ ~hw.STO /\ ~hw.STA
  /\ \/ Event("TX_DATA_ACK", "mtx") /\ acked' = Append(acked, hw.data)
     \/ Event("TX_DATA_NACK", "mtx") /\ UNCHANGED acked
  /\ UNCHANGED <<got, upset>>

BusReceived ==
  /\ Bus({"mrx"}) /\ ~hw.STO /\ ~hw.STA
  /\ hw' = [hw EXCEPT !.SI = TRUE, !.data = @ + 1,
                      !.status = IF hw.AA THEN "RX_DATA_ACK" ELSE "RX_DATA_NACK"]
  /\ UNCHANGED <<acked, got, upset>>

\* Another master wins arbitration.  Losing it after the repeated START of a
\* write-read, the driver will retry the read without its offset.
BusLostArb ==
  /\ Hazard("LOST_ARB")
  /\ Bus(Master) /\ ~hw.STO
  /\ Event("LOST_ARB", "idle")
  /\ IF m.transaction = "RANDOM_READ" /\ m.dir = "R" THEN Upset("LOST_ARB")
     ELSE UNCHANGED upset
  /\ UNCHANGED <<acked, got>>

\* ... and then addresses this device, for a write or for a read.
BusLostToWriter ==
  /\ Hazard("SLV_LA")
  /\ Bus({"start"}) /\ hw.AA
  /\ Event("SLV_LA", "srx")
  /\ IF m.transaction = "RANDOM_READ" /\ m.dir = "R" THEN Upset("LOST_ARB")
     ELSE UNCHANGED upset
  /\ UNCHANGED <<acked, got>>

BusLostToReader ==
  /\ Hazard("SLARW_LA")
  /\ Bus({"start"}) /\ hw.AA
  /\ Event("SLARW_LA", "stx")
  /\ Upset("SLARW_LA")
  /\ UNCHANGED <<acked, got>>

\* Another master addresses this device while it does not use the bus.
BusSelected ==
  /\ Bus({"idle"}) /\ hw.AA /\ ~hw.STO
  /\ Event("SLAVE_SLAW", "srx") \/ Event("SLAVE_SLAR_ACK", "stx")
  /\ UNCHANGED <<acked, got, upset>>

\* ... writes a byte, acknowledged if AA, or ends its write ...
BusSlaveWritten ==
  /\ Bus({"srx"})
  /\ \/ hw.AA /\ Event("RDATA", "srx")
     \/ ~hw.AA /\ Event("SLA_NACK", "idle")
     \/ Event("RSTOP", "idle")
  /\ UNCHANGED <<acked, got, upset>>

\* ... or takes a byte and asks for another one, or not.
BusSlaveRead ==
  /\ Bus({"stx"})
  /\ \/ hw.AA /\ Event("RACK", "stx")
     \/ ~hw.AA /\ Event("FINAL", "idle")
     \/ Event("RNACK", "idle")
  /\ UNCHANGED <<acked, got, upset>>

\* SMBus: the time-out of a selected slave.
BusSlaveReset ==
  /\ Hazard("SLV_RST")
  /\ Bus(Slave)
  /\ Event("SLV_RST", "idle")
  /\ UNCHANGED <<acked, got, upset>>

BusError ==
  /\ Hazard("BUS_ERROR")
  /\ Bus(Master \cup Slave)
  /\ Event("BUS_ERROR", "idle")
  /\ UNCHANGED <<acked, got, upset>>

---------------------------------------------------------------------------
(* mss_i2c_isr, one action per group of statuses.  It ends with SI cleared *)
(* unless the bus is to be held.                                           *)

Served(statuses) ==
  hw.SI /\ hw.nvic /\ hw.status \in statuses /\ UNCHANGED client

Isr(statuses) == Served(statuses) /\ UNCHANGED upset

\* Mutants: the slave is not enabled again; a pended request is not started.
ListenNot(h)  == h
PendedNot(h)  == h

\* enable_slave_if_required, and the STA of a pended request.
ListenIf(h) == [h EXCEPT !.AA = @ \/ m.is_slave_enabled]
Pended(h)   == [h EXCEPT !.STA = @ \/ m.is_transaction_pending]

Cleared == [hw EXCEPT !.SI = FALSE, !.status = "none"]

\* Mutants: the indices are not reset; the request stays pended.
AtStartNotRewound ==
  [m EXCEPT !.is_transaction_pending = FALSE, !.transaction = m.pending_transaction]
AtStartStillPended ==
  [m EXCEPT !.tx_idx = IF m.dir = "W" THEN 0 ELSE @,
            !.rx_idx = IF m.dir = "R" THEN 0 ELSE @,
            !.transaction = m.pending_transaction]

\* The transfer starts from its first byte, again if it lost arbitration.
AtStart ==
  [m EXCEPT !.tx_idx = IF m.dir = "W" THEN 0 ELSE @,
            !.rx_idx = IF m.dir = "R" THEN 0 ELSE @,
            !.is_transaction_pending = FALSE,
            !.transaction = m.pending_transaction]

IsrStart ==
  /\ Isr({"START", "RESTART"})
  /\ m' = AtStart
  /\ hw' = [Cleared EXCEPT !.STA = FALSE, !.data = Addr, !.dir = m.dir]
  /\ acked' = IF hw.status = "RESTART" /\ m.dir = "R" THEN acked ELSE <<>>
  /\ got' = {}

IsrLostArb ==
  /\ Isr({"LOST_ARB"})
  /\ hw' = [Cleared EXCEPT !.STA = TRUE]
  /\ UNCHANGED <<m, acked, got>>

\* The target refused its address or a byte.
IsrRefused ==
  /\ Isr({"SLAW_NACK", "TX_DATA_NACK", "SLAR_NACK"})
  /\ m' = [m EXCEPT !.master_status = "FAILED", !.transaction = "NO"]
  /\ hw' = [ListenIf(Cleared) EXCEPT !.STO = TRUE]
  /\ UNCHANGED <<acked, got>>

\* The next byte; or the repeated START of a write-read; or the end.
IsrSendNext ==
  /\ Isr({"SLAW_ACK", "TX_DATA_ACK"})
  /\ m.tx_idx < m.tx_size
  /\ m' = [m EXCEPT !.tx_idx = @ + 1]
  /\ hw' = [Cleared EXCEPT !.data = m.tx_idx]
  /\ UNCHANGED <<acked, got>>

IsrTurnRound ==
  /\ Isr({"SLAW_ACK", "TX_DATA_ACK"})
  /\ m.tx_idx >= m.tx_size /\ m.transaction = "RANDOM_READ"
  /\ m' = [m EXCEPT !.dir = "R"]
  /\ hw' = [Cleared EXCEPT !.STA = TRUE]
  /\ UNCHANGED <<acked, got>>

\* The end of a transfer: SI stays set, and masked, while the bus is held.
Finish ==
  /\ m' = [m EXCEPT !.transaction = "NO", !.master_status = "SUCCESS",
                    !.bus_hold = m.hold]
  /\ hw' = IF m.hold THEN [hw EXCEPT !.nvic = FALSE]
           ELSE [ListenIf(Cleared) EXCEPT !.STO = TRUE]

IsrSent ==
  /\ Isr({"SLAW_ACK", "TX_DATA_ACK"})
  /\ m.tx_idx >= m.tx_size /\ m.transaction # "RANDOM_READ"
  /\ Finish
  /\ UNCHANGED <<acked, got>>

\* A read is addressed: acknowledge every byte but the last one.
IsrReadAddressed ==
  /\ Isr({"SLAR_ACK"})
  /\ IF m.rx_size = 0
     THEN /\ m' = [m EXCEPT !.master_status = "SUCCESS", !.transaction = "NO"]
          /\ hw' = [Cleared EXCEPT !.AA = TRUE, !.STO = TRUE]
     ELSE /\ hw' = [Cleared EXCEPT !.AA = m.rx_size > 1]
          /\ UNCHANGED m
  /\ UNCHANGED <<acked, got>>

Store == got' = got \cup {<<m.rx_idx, hw.data>>}

Acknowledge(idx) == idx < m.rx_size - 1

IsrReceived ==
  /\ Isr({"RX_DATA_ACK"})
  /\ Store
  /\ m' = [m EXCEPT !.rx_idx = @ + 1]
  /\ hw' = [Cleared EXCEPT !.AA = @ /\ Acknowledge(m'.rx_idx)]
  /\ UNCHANGED acked

IsrReceivedLast ==
  /\ Isr({"RX_DATA_NACK"})
  /\ Store
  /\ Finish
  /\ UNCHANGED acked

\* The slave receiver: selected (the request it interrupts is pended), given a
\* byte, refusing one, and told of a STOP or of a repeated START.
\* Mutant: only a STA still waiting is pended.
InterruptsRequestBySTA == hw.STA

InterruptsRequest == hw.status = "SLV_LA" \/ hw.STA

IsrSlaveSelected ==
  /\ Isr({"SLAVE_SLAW", "SLV_LA"})
  /\ m' = [m EXCEPT !.transaction = "WRITE_SLAVE", !.slave_rx_idx = 0,
                    !.random_read_addr = 0, !.slave_status = "IN_PROGRESS",
                    !.is_transaction_pending = @ \/ InterruptsRequest]
  /\ hw' = [Cleared EXCEPT !.STA = FALSE]
  /\ UNCHANGED <<acked, got>>

RoomInSlaveRx == m.slave_rx_idx < SlaveRxSize

\* The bytes make up an offset, which nothing holds against slave_tx_size.
Offsets == 0 .. Wrap - 1
OffsetWith(byte) == (m.random_read_addr * 256 + byte) % Wrap

IsrSlaveData ==
  /\ Isr({"RDATA"})
  /\ IF RoomInSlaveRx
     THEN \E byte \in SlaveBytes :
            m' = [m EXCEPT !.slave_rx_idx = @ + 1, !.random_read_addr = OffsetWith(byte)]
     ELSE UNCHANGED m
  /\ hw' = [Cleared EXCEPT !.AA = @ /\ m'.slave_rx_idx < SlaveRxSize]
  /\ UNCHANGED <<acked, got>>

IsrSlaveRefused ==
  /\ Isr({"SLA_NACK"})
  /\ m' = [m EXCEPT !.transaction = "NO", !.slave_status = "SUCCESS"]
  /\ hw' = [Pended(Cleared) EXCEPT !.AA = TRUE]
  /\ UNCHANGED <<acked, got>>

\* The write handler, if there is one, tells whether to go on listening.
IsrSlaveStop(answer) ==
  /\ Isr({"RSTOP"})
  /\ LET written == m.transaction = "WRITE_SLAVE"
         paused  == written /\ answer = "PAUSE"
     IN /\ m' = [m EXCEPT
             !.slave_tx_idx = IF ~written THEN 0
                              ELSE IF m.slave_rx_idx = OffsetLen
                                   THEN m.random_read_addr ELSE @,
             !.is_slave_enabled = @ /\ ~paused,
             !.slave_status = "SUCCESS", !.transaction = "NO"]
        /\ hw' = IF written THEN [Pended(Cleared) EXCEPT !.AA = ~paused]
                 ELSE ListenIf(Pended(Cleared))
  /\ UNCHANGED <<acked, got>>

EndedInError(s) == IF s = "IN_PROGRESS" THEN "FAILED" ELSE s

IsrSlaveReset ==
  /\ Served({"SLV_RST"})
  /\ m' = [m EXCEPT !.transaction = "NO", !.slave_tx_idx = 0,
                    !.slave_status = EndedInError(@)]
  /\ hw' = ListenIf(Cleared)
  /\ IF m.is_transaction_pending THEN Upset("SLV_RST") ELSE UNCHANGED upset
  /\ UNCHANGED <<acked, got>>

\* The slave transmitter: selected or asked for another byte, and done.
IsrSlaveSend ==
  /\ Isr({"SLAVE_SLAR_ACK", "SLARW_LA", "RACK"})
  /\ LET selected == hw.status = "SLAVE_SLAR_ACK"
         idx  == IF m.slave_tx_idx < SlaveTxSize THEN m.slave_tx_idx + 1
                 ELSE m.slave_tx_idx
         last == idx >= SlaveTxSize
     IN /\ m' = [m EXCEPT
             !.transaction = IF selected THEN "READ_SLAVE" ELSE @,
             !.random_read_addr = IF selected THEN 0 ELSE @,
             !.slave_status = IF selected THEN "IN_PROGRESS" ELSE @,
             !.is_transaction_pending = @ \/ (selected /\ hw.STA),
             !.slave_tx_idx = IF last THEN 0 ELSE idx]
        /\ hw' = [Cleared EXCEPT !.STA = @ /\ ~selected, !.AA = @ /\ ~last]
  /\ UNCHANGED <<acked, got>>

IsrSlaveSent ==
  /\ Isr({"RNACK", "FINAL"})
  /\ m' = [m EXCEPT !.slave_tx_idx = 0, !.slave_status = "SUCCESS",
                    !.transaction = "NO"]
  /\ hw' = [Pended(Cleared) EXCEPT !.AA = TRUE]
  /\ UNCHANGED <<acked, got>>

IsrBusError ==
  /\ Served({"BUS_ERROR"})
  /\ m' = [m EXCEPT !.transaction = "NO", !.slave_tx_idx = 0,
              !.master_status = EndedInError(@),
              !.slave_status = EndedInError(@)]
  /\ hw' = [Cleared EXCEPT !.STA = FALSE]
  /\ IF m.is_transaction_pending \/ ~hw.AA THEN Upset("BUS_ERROR")
     ELSE UNCHANGED upset
  /\ UNCHANGED <<acked, got>>

---------------------------------------------------------------------------
ClientStep ==
  \/ Requests \/ StatusSeen
  \/ Hazard("TIMEOUT") /\ \E timed \in BOOLEAN : WaitComplete(timed)
  \/ EnableSlave \/ DisableSlave \/ Reinit

BusOther ==
  \/ BusLostArb \/ BusLostToWriter \/ BusLostToReader \/ BusSelected
  \/ BusSlaveReset \/ BusError

BusStep ==
  \/ BusStart \/ BusStop \/ BusAddressed \/ BusSent \/ BusReceived
  \/ BusSlaveWritten \/ BusSlaveRead \/ BusOther

IsrStep ==
  \/ IsrStart \/ IsrLostArb \/ IsrRefused \/ IsrSendNext \/ IsrTurnRound
  \/ IsrSent \/ IsrReadAddressed \/ IsrReceived \/ IsrReceivedLast
  \/ IsrSlaveSelected \/ IsrSlaveData \/ IsrSlaveRefused
  \/ \E answer \in {"REENABLE", "PAUSE"} : IsrSlaveStop(answer)
  \/ IsrSlaveReset \/ IsrSlaveSend \/ IsrSlaveSent \/ IsrBusError

Next == ClientStep \/ TickExpired \/ BusStep \/ IsrStep

Spec == Init /\ [][Next]_vars

\* Interrupts are served, a byte on the bus ends, another master's transfer
\* ends, and a master that keeps trying wins the bus and its arbitration.
Fairness ==
  /\ WF_vars(IsrStep)
  /\ WF_vars(BusStop) /\ WF_vars(BusSlaveWritten) /\ WF_vars(BusSlaveRead)
  /\ SF_vars(BusStart) /\ SF_vars(BusAddressed)
  /\ SF_vars(BusSent) /\ SF_vars(BusReceived)

LiveSpec == Spec /\ Fairness

---------------------------------------------------------------------------
(* Properties.                                                             *)

\* The driver's record and the controller.
Driver ==
  [transaction : Kinds \cup {"NO", "WRITE_SLAVE", "READ_SLAVE"},
   pending_transaction : Kinds \cup {"NO"}, dir : {"W", "R"},
   tx_size : 0 .. MaxLen, tx_idx : 0 .. MaxLen,
   rx_size : 0 .. MaxLen, rx_idx : 0 .. MaxLen,
   master_status : Statuses, hold : BOOLEAN, bus_hold : BOOLEAN,
   is_transaction_pending : BOOLEAN, timeout : BOOLEAN,
   is_slave_enabled : BOOLEAN, slave_status : Statuses \ {"TIMED_OUT"},
   slave_rx_idx : 0 .. SlaveRxSize, slave_tx_idx : Offsets, random_read_addr : Offsets]

Controller ==
  [STA : BOOLEAN, STO : BOOLEAN, AA : BOOLEAN, SI : BOOLEAN, status : Signals,
   dir : {"W", "R"}, data : Addr .. MaxLen, nvic : BOOLEAN,
   phase : {"idle"} \cup Master \cup Slave]

\* Every variable has its type: no index of the client's buffers, or of the slave's
\* receive buffer, ever passes the end of it.  That of its transmit buffer may: another
\* master sets it to any offset (mss_i2c.c:893, 915).
TypeOK ==
  /\ m \in Driver /\ m.tx_idx <= m.tx_size /\ m.rx_idx <= m.rx_size
  /\ hw \in Controller
  /\ client \in {"free", "waiting"} /\ upset \subseteq Reasons
  /\ acked \in Seq(Addr .. MaxLen) /\ got \subseteq Nat \X (Addr .. MaxLen)

\* A request reported as a success was carried out: every byte to write was
\* acknowledged by the target, once and in order, every byte read is in its
\* place in the buffer, and a write-read sent its offset before it read.
SuccessMeansTransferred ==
  client = "waiting" /\ m.master_status = "SUCCESS"
    /\ upset \cap {"TIMEOUT", "LOST_ARB", "HOLD"} = {} =>
    /\ m.pending_transaction \in {"WRITE", "RANDOM_READ"} =>
         acked = [i \in 1 .. m.tx_size |-> i - 1]
    /\ m.pending_transaction \in {"READ", "RANDOM_READ"} =>
         got = {<<i, i>> : i \in 0 .. m.rx_size - 1}

\* What keeps a request alive: STA, the bus, or a place in the queue behind a
\* slave transaction that will end.
Alive ==
  \/ hw.STA \/ hw.phase \in Master
  \/ m.is_transaction_pending /\ (hw.phase \in Slave \/ hw.SI)
  \/ hw.SI /\ hw.status \in {"LOST_ARB", "SLV_LA", "SLARW_LA", "BUS_ERROR"}

\* A request in progress is never forgotten, across lost arbitration and slave
\* transactions.
RequestNeverLost == m.master_status = "IN_PROGRESS" => Alive

\* The same where the driver keeps its promise: in every environment but the
\* three whose events lose a request.
RequestKept ==
  upset \cap {"SLARW_LA", "SLV_RST", "HOLD"} = {} => RequestNeverLost

\* No byte is stored past the end of the client's buffer.
ReceivesInBounds ==
  hw.SI /\ hw.nvic /\ hw.status \in {"RX_DATA_ACK", "RX_DATA_NACK"}
    /\ upset \cap {"TIMEOUT", "HOLD"} = {} => m.rx_idx < m.rx_size

\* An enabled slave answers its address whenever the driver leaves the bus.
SlaveReachable ==
  m.is_slave_enabled /\ hw.phase = "idle" /\ ~hw.SI /\ ~hw.STA
    /\ upset \cap {"BUS_ERROR", "HOLD", "SLARW_LA"} = {} => hw.AA

\* The controller goes for the bus only on behalf of a request in progress: a
\* finished or failed one is never started again.
NoGhostRequest ==
  hw.STA \/ m.is_transaction_pending =>
    m.master_status = "IN_PROGRESS" \/ upset # {}

\* slave_status, which makes requests wait, is in progress only while another
\* master is using this device.
SlaveInProgressIsReal ==
  m.slave_status = "IN_PROGRESS" /\ "HOLD" \notin upset =>
    hw.phase \in Slave \/ hw.SI

\* What a client may rely on when its request is over: the data, and its memory.
TransfersAreRight == SuccessMeansTransferred /\ ReceivesInBounds

\* What the other masters may rely on: the slave answers them, and their transactions
\* do not go on in the driver when they are over, with requests waiting behind them.
SlaveIsServed == SlaveReachable /\ SlaveInProgressIsReal

\* Every request ends.
RequestEnds ==
  m.master_status = "IN_PROGRESS" ~>
    m.master_status # "IN_PROGRESS" \/ upset # {}

===========================================================================
