-------------------------------- MODULE Spi --------------------------------
(***************************************************************************)
(* The SPI driver (drivers/mss_spi/mss_spi.c) at both ends of a bus: a      *)
(* master that polls, with MSS_SPI_transfer_block, MSS_SPI_transfer_frame   *)
(* or a DMA, and a slave that is served by mss_spi_isr, in block mode (with *)
(* or without a command handler) or in frame mode.  The bus moves a frame   *)
(* each way in one step, at any moment, also in the middle of the handler.  *)
(*                                                                          *)
(* A frame is who made it and which it is: <<"m", t, i>>, the i-th frame of *)
(* the master's t-th transaction, <<"tx", i>>, of the slave's buffer,       *)
(* <<"resp", c, i>>, of its answer to the command c.                        *)
(***************************************************************************)
EXTENDS Naturals, Sequences, SequencesExt

CONSTANTS
  Depth,        \* BIG_FIFO_SIZE
  InFlight,     \* RX_FIFO_SIZE
  Wrap,         \* uint16_t: sizes are modulo Wrap
  TxSizes,      \* the sizes of the slave's transmit buffer
  RxSize,       \* the size of its receive buffer
  CmdSize, RespSize,
  Blocks,       \* what the master transfers at a time: [w, r]
  DmaSizes,     \* what a DMA writes at a time
  MaxTrans,     \* bound on the transactions
  MaxFrames,    \* bound on the frames of a transaction
  Env,          \* "soon": the master selects the slave again before it is done;
                \* "behind": the slave may be behind by an overflow at the end
  None

Threshold == Depth \div 2

ASSUME SpiAssumption ==
  /\ Depth \in Nat /\ Threshold > 0 /\ InFlight \in 1..Depth
  /\ Wrap \in Nat /\ Blocks \subseteq [w : Nat, r : Nat]
  /\ \A b \in Blocks : b.w + b.r < Wrap
  /\ RxSize \in Nat /\ CmdSize \in 1..RxSize /\ RespSize \in Nat
  /\ MaxTrans \in Nat /\ MaxFrames \in Nat /\ DmaSizes \subseteq Nat
  \* A slave that answers commands has turnaround bytes to send meanwhile.
  /\ TxSizes \subseteq {0} \union {n \in Nat : n > CmdSize}
  /\ Env \subseteq {"soon", "behind"}

VARIABLES
  m,      \* the master: pc, the sizes and indices of MSS_SPI_transfer_block, rd_buffer
          \* (rd), its FIFOs (tx, rx), whether its receiver overran (ovf), whether it is
          \* enabled (on), and the frames until TX_DONE (left)
  d,      \* the slave's mss_spi_instance_t
  h,      \* the slave's hardware: FIFOs (tx, rx), raw interrupts (ris) and the enabled
          \* ones (en), AUTOFILL (auto), the frame counter (cnt) and its limit (lim)
  isr,    \* where mss_spi_isr is: 0, nowhere; k, about to look for the k-th of the Sources;
          \* NSources + k, that one has been served and is still to be cleared
  bus,    \* sel, the slave select line; n, the frames since; t, the transactions
  log     \* sent, in this transaction (in frame mode, with those that were not given in
          \* the one before); got, what the slave's handlers were given; missed, frames had
          \* come by the time RXDONE was cleared; with, how the slave was set up; fault, the
          \* slave was too late in it, or, in frame mode, ever: nothing makes up for that

vars == <<m, d, h, isr, bus, log>>

Zero == <<"zero">>
Least(a, b) == IF a < b THEN a ELSE b
Less(a, b) == IF a > b THEN a - b ELSE 0

Sources == <<"RXDONE", "TXDONE", "CMD", "RXOVFLOW", "TXURUN", "SSEND">>
NSources == Len(Sources)
Pending == h.ris \intersect h.en
Quiet == isr = 0 /\ Pending = {}

---------------------------------------------------------------------------
(* The slave's calls.  Interrupts are off in all of them, and the bus idle. *)

\* fill_slave_tx_fifo: the buffer, then the response, then zeros.
Fill(x) ==
  LET room == Depth - Len(x.h.tx)
      a == Least(room, Less(x.d.txSize, x.d.txIdx))
      b == IF x.d.txIdx + a >= x.d.txSize
             THEN Least(room - a, x.d.respSize - x.d.respIdx) ELSE 0
      z == IF /\ x.d.cmdDone
              /\ x.d.txIdx + a >= x.d.txSize
              /\ x.d.respIdx + b >= x.d.respSize THEN room - a - b ELSE 0
  IN [d |-> [x.d EXCEPT !.txIdx = @ + a, !.respIdx = @ + b],
      h |-> [x.h EXCEPT !.tx = @ \o [i \in 1..a |-> <<"tx", x.d.txIdx + i>>]
                                 \o [i \in 1..b |-> <<"resp", x.d.resp, x.d.respIdx + i>>]
                                 \o [i \in 1..z |-> Zero]]]

Become(x) == d' = x.d /\ h' = x.h
Flushed(x) == [x EXCEPT !.h.tx = <<>>, !.h.rx = <<>>]
Here == [d |-> d, h |-> h]

\* MSS_SPI_set_slave_block_buffers.  txIdx counts past the buffer.
SetSlaveBlockBuffers(size) ==
  LET cmd == d.cmdHandler
      n == IF cmd THEN Least(Depth, size) ELSE Depth
      loaded == [i \in 1..n |-> IF i <= size THEN <<"tx", i>> ELSE Zero]
      idx == IF cmd /\ size < Depth THEN size + 1 ELSE Depth
  IN Become([d |-> [d EXCEPT !.mode = "BLOCK", !.cmdDone = ~cmd, !.frameHandler = FALSE,
                             !.blockHandler = TRUE, !.rxIdx = 0,
                             !.txSize = size, !.txIdx = idx],
             h |-> [h EXCEPT !.tx = loaded, !.rx = <<>>, !.cnt = 0, !.lim = Threshold,
                             !.auto = size = 0,
                             !.ris = @ \ {"TXDONE", "SSEND", "TXURUN", "RXOVFLOW", "RXDONE"},
                             !.en = (IF cmd THEN @ ELSE @ \ {"CMD"})
                                    \union (IF size > 0 THEN {"TXDONE"} ELSE {})
                                    \union {"SSEND", "RXDONE", "TXURUN", "RXOVFLOW"}]])

\* MSS_SPI_set_cmd_handler
SetCmdHandler(on) ==
  LET x == [Here EXCEPT !.d.respSize = 0, !.d.respIdx = 0, !.d.cmdDone = ~on,
                        !.d.cmdHandler = on]
      y == [x EXCEPT !.d.txIdx = 0]
  IN IF on THEN LET z == Fill(Flushed(y))
                IN Become([z EXCEPT !.h.ris = @ \ {"CMD"}, !.h.en = @ \union {"CMD"}])
     ELSE Become([x EXCEPT !.h.en = @ \ {"CMD"}])

\* MSS_SPI_set_cmd_response, which the command handler calls.  The response is
\* that to the command in the receive buffer.
SetCmdResponse(x) ==
  Fill([x EXCEPT !.d.resp = x.d.rx[1], !.d.respSize = RespSize, !.d.respIdx = 0,
                 !.d.cmdDone = TRUE])

\* MSS_SPI_set_frame_rx_handler
SetFrameRxHandler ==
  /\ d' = [d EXCEPT !.blockHandler = FALSE, !.cmdHandler = FALSE, !.frameHandler = TRUE,
                    !.mode = "FRAME"]
  /\ h' = [h EXCEPT !.auto = @ \/ h.tx = <<>>, !.lim = 1,
                    !.ris = @ \ {"TXURUN", "RXOVFLOW", "RXDONE"},
                    !.en = (@ \ {"CMD", "SSEND"}) \union {"TXURUN", "RXOVFLOW", "RXDONE"}]

\* MSS_SPI_set_slave_tx_frame
SetSlaveTxFrame(v) ==
  /\ d' = [d EXCEPT !.mode = "FRAME", !.blockHandler = FALSE, !.cmdHandler = FALSE,
                    !.txSize = 0, !.txIdx = 0, !.txFrame = v]
  /\ h' = [h EXCEPT !.auto = FALSE, !.lim = 1, !.tx = <<v>>,
                    !.ris = @ \ {"TXURUN", "RXOVFLOW", "TXDONE"},
                    !.en = (@ \ {"CMD", "SSEND"}) \union {"TXDONE", "TXURUN", "RXOVFLOW"}]

\* The application of the slave: it settles for a mode, and may change the buffer,
\* the handler or the frame between transactions.
Settles(mode) == d.mode \in {"NONE", mode} /\ ~bus.sel /\ Quiet /\ UNCHANGED <<m, isr, bus, log>>
SlaveBlock == \E n \in TxSizes : /\ Settles("BLOCK")
                                 /\ d.cmdHandler => n > 0
                                 /\ n # d.txSize \/ d.mode = "NONE"
                                 /\ SetSlaveBlockBuffers(n)
SlaveCmd == \E on \in BOOLEAN : /\ Settles("BLOCK")
                                /\ on # d.cmdHandler
                                /\ (on /\ d.mode = "BLOCK") => d.txSize > 0
                                /\ SetCmdHandler(on)
\* Frames that came before the handler was set would be given to it with the next one.
SlaveFrameRx == Settles("FRAME") /\ bus.t = 0 /\ ~d.frameHandler /\ SetFrameRxHandler
SlaveFrameTx == \E i \in 1..2 : /\ Settles("FRAME")
                                /\ d.txFrame # <<"f", i>>
                                /\ SetSlaveTxFrame(<<"f", i>>)

---------------------------------------------------------------------------
(* mss_spi_isr: it looks for one source after the other, serves it and then *)
(* clears it, and the bus goes on meanwhile: a source that is raised again  *)
(* before it is cleared is lost.  A loop over a FIFO is one step.           *)

\* read_slave_rx_fifo, and the same in the receive part of the handler
Stored(x) ==
  LET k == Len(x.h.rx)
  IN [d |-> [x.d EXCEPT !.rxIdx = @ + k,
                        !.rx = [i \in 1..RxSize |->
                                 IF i > x.d.rxIdx /\ i <= x.d.rxIdx + k
                                   THEN x.h.rx[i - x.d.rxIdx] ELSE @[i]]],
      h |-> [x.h EXCEPT !.rx = <<>>]]
ReadSlaveRxFifo(x) == IF x.d.mode = "BLOCK" THEN Stored(x) ELSE [x EXCEPT !.h.rx = <<>>]
FramesGiven == IF d.mode = "FRAME" /\ d.frameHandler THEN h.rx ELSE <<>>

Clear(x, source) == [x EXCEPT !.h.ris = @ \ {source}]

RxDone == /\ Become(ReadSlaveRxFifo(Here))
          /\ log' = [log EXCEPT !.got = @ \o FramesGiven, !.missed = FALSE]

\* Frame mode loads the frame again, block mode fills the FIFO.
LoadFrame(x) == [x EXCEPT !.h.tx = Append(@, x.d.txFrame)]
TxDoneIrq == /\ Become(IF d.mode = "FRAME" THEN LoadFrame(Here) ELSE Fill(Here))
             /\ UNCHANGED log

Cmd ==
  LET x == ReadSlaveRxFifo(Here)
      y == IF d.cmdHandler THEN Fill(SetCmdResponse(x)) ELSE x
  IN /\ Become([y EXCEPT !.d.cmdDone = TRUE, !.h.en = @ \ {"CMD"}])
     /\ UNCHANGED log

\* recover_from_rx_overflow: a reset of the block, with what is in it.  The CONTROL
\* registers are restored, COMMAND is not.
Recovered(x) == [x EXCEPT !.h.tx = <<>>, !.h.rx = <<>>, !.h.ris = {}, !.h.auto = FALSE,
                          !.h.cnt = 0]
RxOverflow == Become(Recovered(Here)) /\ UNCHANGED log

TxUnderrun ==
  LET x == [Here EXCEPT !.h.tx = <<>>]
  IN /\ Become(CASE d.mode = "FRAME" -> LoadFrame(x)
                 [] d.mode = "BLOCK" -> Fill([x EXCEPT !.d.txIdx = 0])
                 [] OTHER -> x)
     /\ UNCHANGED log

\* The end of the transaction.  The size may be more than the buffer holds.
RewoundKeepsResponse(x) == \* mutant: the response is not cleared
  LET y == IF d.cmdHandler
             THEN [x EXCEPT !.d.cmdDone = FALSE, !.h.ris = @ \ {"CMD"}, !.h.en = @ \union {"CMD"}]
             ELSE x
  IN Fill(Flushed([y EXCEPT !.d.txIdx = 0]))
Rewound(x) ==
  LET y == IF d.cmdHandler
             THEN [x EXCEPT !.d.cmdDone = FALSE, !.d.respSize = 0, !.d.respIdx = 0,
                            !.h.ris = @ \ {"CMD"}, !.h.en = @ \union {"CMD"}]
             ELSE x
  IN Fill(Flushed([y EXCEPT !.d.txIdx = 0]))
SsEndKeepsIndex == \* mutant: slave_rx_idx is not reset
  LET x == ReadSlaveRxFifo(Here)
      packet == [size |-> x.d.rxIdx, data |-> SubSeq(x.d.rx, 1, Least(x.d.rxIdx, RxSize))]
  IN /\ Become(Rewound(x))
     /\ log' = IF d.blockHandler THEN [log EXCEPT !.got = Append(@, packet)] ELSE log
SsEnd ==
  LET x == ReadSlaveRxFifo(Here)
      packet == [size |-> x.d.rxIdx, data |-> SubSeq(x.d.rx, 1, Least(x.d.rxIdx, RxSize))]
      y == Rewound(x)
  IN /\ Become([y EXCEPT !.d.rxIdx = 0])
     /\ log' = IF d.blockHandler THEN [log EXCEPT !.got = Append(@, packet)] ELSE log

\* INT_CLEAR at the end of the service of the source k.  A FIFO that will run empty
\* before the next TXDONE is the fault of a slave that took so long to clear this one.
Starved == /\ Len(h.tx) + h.cnt < h.lim
           /\ d.mode = "FRAME" \/ d.cmdDone \/ d.txIdx < d.txSize
Cleared(k) ==
  /\ Become(Clear(Here, Sources[k]))
  /\ log' = [log EXCEPT !.missed = IF Sources[k] = "RXDONE" THEN h.rx # <<>> ELSE @,
                        !.fault = @ \/ (Sources[k] = "TXDONE" /\ Starved)]

IsrStarts == isr = 0 /\ Pending # {} /\ isr' = 1 /\ UNCHANGED <<m, d, h, bus, log>>
After(k) == IF k = NSources THEN 0 ELSE k + 1
IsrSkips == /\ isr \in 1..NSources /\ Sources[isr] \notin Pending
            /\ isr' = After(isr) /\ UNCHANGED <<m, d, h, bus, log>>
IsrServes ==
  /\ isr \in 1..NSources /\ Sources[isr] \in Pending
  /\ CASE isr = 1 -> RxDone
       [] isr = 2 -> TxDoneIrq
       [] isr = 3 -> Cmd
       [] isr = 4 -> RxOverflow
       [] isr = 5 -> TxUnderrun
       [] isr = 6 -> SsEnd
  /\ isr' = NSources + isr /\ UNCHANGED <<m, bus>>
IsrClears == /\ isr > NSources
             /\ Cleared(isr - NSources)
             /\ isr' = After(isr - NSources) /\ UNCHANGED <<m, bus>>

---------------------------------------------------------------------------
(* The bus: one frame each way.  CMDSIZE counts from the slave select.      *)

Raised == {s \in {"RXDONE", "TXDONE"} : h.cnt + 1 = h.lim}
          \union {s \in {"CMD"} : bus.n + 1 = CmdSize}
Underrun == h.tx = <<>> /\ ~h.auto
Overrun == Len(h.rx) = Depth

Shift ==
  /\ bus.sel /\ m.on /\ m.tx # <<>>
  /\ LET in == IF h.tx # <<>> THEN Head(h.tx) ELSE IF h.auto THEN Zero ELSE None
     IN m' = [m EXCEPT !.tx = Tail(@), !.left = Less(@, 1),
                       !.rx = IF Len(@) < Depth THEN Append(@, in) ELSE @,
                       !.ovf = @ \/ Len(m.rx) = Depth]
  /\ h' = [h EXCEPT !.tx = IF @ = <<>> THEN @ ELSE Tail(@),
                    !.rx = IF Overrun THEN @ ELSE Append(@, Head(m.tx)),
                    !.cnt = IF @ + 1 = h.lim THEN 0 ELSE @ + 1,
                    !.ris = @ \union Raised
                              \union (IF Underrun THEN {"TXURUN"} ELSE {})
                              \union (IF Overrun THEN {"RXOVFLOW"} ELSE {})]
  /\ bus' = [bus EXCEPT !.n = @ + 1]
  /\ log' = [log EXCEPT !.sent = Append(@, Head(m.tx)),
                        !.fault = @ \/ Overrun \/ (Underrun /\ ~Quiet)]
  /\ UNCHANGED <<d, isr>>

---------------------------------------------------------------------------
(* The master.                                                             *)

Frame(i) == <<"m", bus.t, i>>
MasterFlushed(x) == [x EXCEPT !.tx = <<>>, !.rx = <<>>]
\* recover_from_rx_overflow, of the master
MasterRecovered(x) == IF x.ovf THEN [MasterFlushed(x) EXCEPT !.ovf = FALSE] ELSE x

\* MSS_SPI_set_slave_select
Select ==
  /\ m.pc = "idle" /\ bus.t < MaxTrans /\ d.mode # "NONE"
  /\ "soon" \in Env \/ Quiet
  /\ m' = [MasterRecovered(m) EXCEPT !.pc = "ready", !.on = TRUE, !.left = 1, !.rd = <<>>]
  /\ bus' = [sel |-> TRUE, n |-> 0, t |-> bus.t + 1]
  /\ log' = [sent |-> IF d.mode = "FRAME" THEN h.rx ELSE <<>>, got |-> <<>>,
             missed |-> log.missed, fault |-> log.fault /\ d.mode = "FRAME",
             with |-> [size |-> d.txSize, cmd |-> d.cmdHandler, frame |-> d.txFrame]]
  /\ UNCHANGED <<d, h, isr>>

\* MSS_SPI_clear_slave_select
Deselect ==
  /\ m.pc = "ready" /\ bus.n > 0
  /\ "behind" \in Env \/ "RXOVFLOW" \notin Pending
  /\ m' = [MasterRecovered(m) EXCEPT !.pc = "idle"]
  /\ bus' = [bus EXCEPT !.sel = FALSE]
  /\ h' = [h EXCEPT !.ris = @ \union {"SSEND"}]
  /\ UNCHANGED <<d, isr, log>>

TransferSize(w, r) == (w + r) % Wrap

\* The next frame of MSS_SPI_transfer_block, while few enough are in transit.
SendNext(x) ==
  IF x.txi < x.w THEN [x EXCEPT !.tx = Append(@, Frame(x.base + x.txi + 1)),
                                !.txi = @ + 1, !.transit = @ + 1]
  ELSE IF x.txi < TransferSize(x.w, x.r) THEN [x EXCEPT !.tx = Append(@, Zero),
                                                 !.txi = @ + 1, !.transit = @ + 1]
  ELSE x

TransferBlock == \E b \in Blocks :
  /\ m.pc = "ready" /\ d.mode = "BLOCK" /\ bus.n + b.w + b.r <= MaxFrames
  /\ LET size == TransferSize(b.w, b.r)
         x == MasterRecovered(MasterFlushed(m))
     IN m' = SendNext([x EXCEPT !.pc = "block", !.w = b.w, !.r = b.r, !.txi = 0, !.xfer = 0,
                                !.transit = 0, !.rd = <<>>, !.base = bus.n,
                                !.left = IF size = 0 THEN 1 ELSE size, !.on = TRUE])
  /\ UNCHANGED <<d, h, isr, bus, log>>

\* One turn of its loop.
ReceiveKeepsTransit(x) == \* mutant: a frame received is still counted as in transit
  IF x.rx = <<>> THEN x
  ELSE [x EXCEPT !.rx = Tail(@), !.xfer = @ + 1,
                 !.rd = IF x.xfer >= x.w /\ Len(@) < x.r THEN Append(@, Head(x.rx)) ELSE @]
Receive(x) ==
  IF x.rx = <<>> THEN x
  ELSE [x EXCEPT !.rx = Tail(@), !.xfer = @ + 1, !.transit = @ - 1,
                 !.rd = IF x.xfer >= x.w /\ Len(@) < x.r THEN Append(@, Head(x.rx)) ELSE @]
MayBeSent(x) == Len(x.tx) < Depth /\ x.transit < InFlight
BlockTurn ==
  /\ m.pc = "block"
  /\ m' = IF m.xfer < TransferSize(m.w, m.r)
            THEN LET x == Receive(m) IN IF MayBeSent(x) THEN SendNext(x) ELSE x
            ELSE [m EXCEPT !.pc = "ready"]
  /\ UNCHANGED <<d, h, isr, bus, log>>

\* MSS_SPI_transfer_frame
TransferFrame ==
  /\ m.pc = "ready" /\ d.mode = "FRAME" /\ bus.n < MaxFrames
  /\ m' = [MasterFlushed(m) EXCEPT !.pc = "txdone", !.left = 1, !.tx = <<Frame(bus.n + 1)>>,
                                   !.base = bus.n, !.w = 0, !.rd = <<>>]
  /\ UNCHANGED <<d, h, isr, bus, log>>
TxDone == /\ m.pc = "txdone" /\ m.left = 0
          /\ m' = [m EXCEPT !.pc = "rxready"]
          /\ UNCHANGED <<d, h, isr, bus, log>>
RxReady == /\ m.pc = "rxready" /\ m.rx # <<>>
           /\ m' = [m EXCEPT !.pc = "ready", !.rd = <<Head(m.rx)>>, !.rx = Tail(@)]
           /\ UNCHANGED <<d, h, isr, bus, log>>

\* A write by a DMA: MSS_SPI_disable, MSS_SPI_set_transfer_byte_count, which enables
\* the block again, the start of the DMA, MSS_SPI_enable, MSS_SPI_tx_done.
Disable == /\ m.pc = "ready" /\ d.mode = "BLOCK"
           /\ \E n \in DmaSizes : bus.n + n <= MaxFrames
           /\ m' = [m EXCEPT !.pc = "disabled", !.on = FALSE, !.rd = <<>>]
           /\ UNCHANGED <<d, h, isr, bus, log>>
SetTransferByteCount == \E n \in DmaSizes :
  /\ m.pc = "disabled" /\ bus.n + n <= MaxFrames
  /\ m' = [m EXCEPT !.pc = "started", !.left = n, !.on = TRUE, !.txi = 0, !.w = n, !.r = 0,
                    !.base = bus.n]
  /\ UNCHANGED <<d, h, isr, bus, log>>
DmaMoves == /\ m.pc \in {"started", "dma"} /\ m.txi < m.w /\ Len(m.tx) < Depth
            /\ m' = [m EXCEPT !.tx = Append(@, Frame(m.base + m.txi + 1)), !.txi = @ + 1]
            /\ UNCHANGED <<d, h, isr, bus, log>>
Enable == /\ m.pc = "started"
          /\ m' = [m EXCEPT !.pc = "dma", !.on = TRUE]
          /\ UNCHANGED <<d, h, isr, bus, log>>
DmaDone == /\ m.pc = "dma" /\ m.left = 0
           /\ m' = [m EXCEPT !.pc = "ready"]
           /\ UNCHANGED <<d, h, isr, bus, log>>

---------------------------------------------------------------------------
\* MSS_SPI_init and MSS_SPI_configure_master_mode
MInit == [pc |-> "idle", w |-> 0, r |-> 0, txi |-> 0, xfer |-> 0, transit |-> 0, base |-> 0,
          rd |-> <<>>, tx |-> <<>>, rx |-> <<>>, ovf |-> FALSE, on |-> TRUE, left |-> 0]
\* MSS_SPI_init and MSS_SPI_configure_slave_mode
DInit == [mode |-> "NONE", cmdHandler |-> FALSE, blockHandler |-> FALSE, frameHandler |-> FALSE,
          cmdDone |-> TRUE, txSize |-> 0, txIdx |-> 0, rx |-> [i \in 1..RxSize |-> None],
          rxIdx |-> 0, resp |-> None, respSize |-> 0, respIdx |-> 0, txFrame |-> Zero]
HInit == [tx |-> <<>>, rx |-> <<>>, ris |-> {}, en |-> {}, auto |-> FALSE, cnt |-> 0, lim |-> 1]

Init == /\ m = MInit /\ d = DInit /\ h = HInit /\ isr = 0
        /\ bus = [sel |-> FALSE, n |-> 0, t |-> 0]
        /\ log = [sent |-> <<>>, got |-> <<>>, missed |-> FALSE, fault |-> FALSE,
                  with |-> [size |-> 0, cmd |-> FALSE, frame |-> Zero]]

Isr == IsrStarts \/ IsrSkips \/ IsrServes \/ IsrClears
Slave == SlaveBlock \/ SlaveCmd \/ SlaveFrameRx \/ SlaveFrameTx
Dma == Disable \/ SetTransferByteCount \/ DmaMoves \/ Enable \/ DmaDone
Master == \/ Select \/ Deselect
          \/ TransferBlock \/ BlockTurn
          \/ TransferFrame \/ TxDone \/ RxReady
Next == Slave \/ Isr \/ Shift \/ Master \/ Dma

Spec == Init /\ [][Next]_vars

---------------------------------------------------------------------------
\* The state is of the right shape, and the slave does not count beyond its response.
TypeOK ==
  /\ isr \in 0..2 * NSources /\ bus.t \in 0..MaxTrans /\ bus.n \in 0..MaxFrames
  /\ h.ris \subseteq ToSet(Sources) /\ h.en \subseteq ToSet(Sources)
  /\ Len(h.tx) <= Depth /\ Len(h.rx) <= Depth /\ Len(m.tx) <= Depth /\ Len(m.rx) <= Depth
  /\ d.respIdx \in 0..d.respSize

\* Whatever happened in the transactions before, the slave's handlers are given what the
\* master sent in this one, once: the packet up to the size of the buffer, or each frame
\* in order; unless the slave was too late in it (mss_spi_isr, set-up calls).  A frame that
\* comes after the frame handler has emptied the FIFO and before it has cleared RXDONE, and
\* no other, may be left there, to be given with the next one.
PacketIsWhole ==
  ~log.fault =>
    IF d.mode = "FRAME"
      THEN d.frameHandler =>
             /\ IsPrefix(log.got, log.sent)
             /\ (Quiet /\ ~bus.sel) => /\ log.got \o h.rx = log.sent
                                       /\ h.rx # <<>> => log.missed
      ELSE /\ \A i \in DOMAIN log.got :
                log.got[i] = [size |-> Len(log.sent),
                              data |-> SubSeq(log.sent, 1, Least(Len(log.sent), RxSize))]
           /\ (Quiet /\ ~bus.sel) => Len(log.got) = IF bus.n > 0 THEN 1 ELSE 0

\* What the master reads is what the slave has to say at that place of the transaction:
\* its buffer, then its response to the command of this transaction and no other, then
\* zeros; or its frame (fill_slave_tx_fifo, MSS_SPI_transfer_block, the FIFOs' limits).
\* A slave with nothing to say is left out: after an overrun it says anything.
Said(p) ==
  IF d.mode = "FRAME" THEN log.with.frame
  ELSE IF p <= log.with.size THEN <<"tx", p>>
  ELSE IF log.with.cmd /\ p - log.with.size <= RespSize
         THEN <<"resp", log.sent[1], p - log.with.size>>
  ELSE Zero
HasToSay == log.with.size > 0 \/ log.with.frame # Zero
ReadIsRight ==
  (m.pc = "ready" /\ ~log.fault /\ HasToSay) =>
    \A i \in DOMAIN m.rd : m.rd[i] = Said(m.base + m.w + i)

\* However long the loop of MSS_SPI_transfer_block is interrupted, its receiver never
\* overruns, and every frame it waits for is on its way: the loop ends.
InTransit ==
  m.pc = "block" => /\ ~m.ovf
                    /\ m.transit = Len(m.tx) + Len(m.rx)
                    /\ m.xfer + m.transit = m.txi
                    /\ m.txi > m.xfer \/ m.xfer = TransferSize(m.w, m.r) \/ MayBeSent(m)
=============================================================================
