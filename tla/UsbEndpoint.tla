---------------------------- MODULE UsbEndpoint ----------------------------
(***************************************************************************)
(* A data endpoint of the USB device: the transfers a class starts with    *)
(* MSS_USBD_tx_ep_write and MSS_USBD_rx_ep_read_prepare, carried packet by  *)
(* packet by the endpoint and DMA interrupt handlers (drivers/mss_usb/     *)
(* mss_usb_device.c, mss_usb_common_cif.c), in each of the configurations  *)
(* that the classes use.                                                   *)
(***************************************************************************)
EXTENDS Naturals, Sequences

CONSTANTS
  Configs,   \* configurations: [class, dir, type, dma, zlp]
  MaxPkt,    \* max_pkt_size, and the size of the FIFO
  MaxLen,    \* bound on the length of a transfer
  Transfers, \* bound on the transfers of a run
  Env        \* "left", a halt is cleared though something of the halted transfer is
             \*   left in the endpoint; "wait", a transfer whose DMA handler waits for
             \*   the last packet to go may be halted; "early", a printer writes
             \*   before it has prepared the receive endpoint of the same number; the
             \*   others: see UsbPipe

\* A bulk receive endpoint that takes a ZLP is configured with DMA: without it
\* the ZLP that follows a full buffer ends the transfer a second time.
ASSUME UsbEndpointAssumption ==
  /\ MaxPkt \in Nat \ {0} /\ MaxLen \in Nat /\ Transfers \in Nat
  /\ Env \subseteq {"left", "wait", "early", "lost", "null", "bare"}
  /\ \A c \in Configs :
       /\ c.class \in {"hid", "cdc", "printer", "vendor", "msc", "none", "pipe"}
       /\ c.dir \in {"tx", "rx"} /\ c.type \in {"bulk", "interrupt"}
       /\ c.dma \in BOOLEAN /\ c.zlp \in BOOLEAN
       /\ c.dir = "rx" /\ c.zlp => c.type = "bulk" /\ c.dma

VARIABLES
  conf,  \* the class of this endpoint and its configuration
  ep,    \* mss_usb_ep_t: len, cnt and txn; what the class was told (result),
         \* and the number of the transfer
  cls,   \* the class: up, configured; done, g_tx_complete_status of the HID class;
         \* rx1, the receive endpoint of this number has been put in DMA mode 1
  core,  \* fifo, the packet in it; rdy, TxPktRdy or RxPktRdy; cpu, made ready by
         \* the handler; the DMA channel: on, at, left; stall, a halt: set, sent
  irq,   \* pending: ep and dma; stall, that of a STALL sent; wait, the DMA handler
         \* waits for the last packet to go
  wire   \* the packets of the transfer, as they came out at the other end:
         \* [at, from, n]; and total, the bytes the sender has to send

vars == <<conf, ep, cls, core, irq, wire>>

NoPkt == [from |-> 0, n |-> 0]
Least(a, b) == IF a < b THEN a ELSE b
Bulk == conf.type = "bulk"
Mode1 == conf.dma /\ Bulk
Free == ep.result # "busy"

\* What a call-back works on, and leaves.
Now == [ep |-> ep, cls |-> cls, core |-> core, wire |-> wire]
Becomes(s) == ep' = s.ep /\ cls' = s.cls /\ core' = s.core /\ wire' = s.wire

\* Lengths of a transfer: a packet at most for an interrupt endpoint; the DMA
\* callback of a mode 0 receive needs a buffer of whole packets.
LengthsOf(c) ==
  IF c.type = "bulk" THEN IF c.dir = "rx" THEN 1..MaxLen ELSE 0..MaxLen
  ELSE IF c.dir = "rx" /\ c.dma THEN {MaxPkt} ELSE 1..MaxPkt

\* The sender of a receive transfer fills the buffer, or ends with a short packet.
TotalsOf(len) == IF conf.zlp THEN 0..len ELSE IF Bulk THEN {len} ELSE 1..len

---------------------------------------------------------------------------
(* The class starts a transfer.                                            *)

Started(e, len) ==
  [e EXCEPT !.len = len, !.cnt = 0, !.txn = Least(len, MaxPkt), !.result = "busy",
            !.num = @ + 1]

\* Mutant: the packet is always taken from the start of the buffer.
WritePktFromStart(c, from, len, txn) ==
  IF conf.dma
  THEN [c EXCEPT !.on = TRUE, !.at = 0, !.left = IF Bulk THEN len ELSE txn]
  ELSE [c EXCEPT !.fifo = [from |-> 0, n |-> txn], !.rdy = TRUE, !.cpu = TRUE]

\* MSS_USB_CIF_ep_write_pkt, from the byte at `from'.
WritePkt(c, from, len, txn) ==
  IF conf.dma
  THEN [c EXCEPT !.on = TRUE, !.at = from, !.left = IF Bulk THEN len ELSE txn]
  ELSE [c EXCEPT !.fifo = [from |-> from, n |-> txn], !.rdy = TRUE, !.cpu = TRUE]

TxEpWrite(s, len) ==
  [s EXCEPT !.ep = Started(@, len), !.core = WritePkt(@, 0, len, Least(len, MaxPkt)),
            !.wire = [pkts |-> <<>>, total |-> len, left |-> len]]

\* MSS_USB_CIF_rx_ep_read_prepare: only mode 1 starts the DMA channel here.
ReadPrepare(c, from, len) ==
  CASE Mode1 -> [c EXCEPT !.on = TRUE, !.at = from, !.left = len]
    [] conf.dma /\ ~Bulk -> [c EXCEPT !.at = from]
    [] OTHER -> c

RxEpReadPrepare(s, len, total) ==
  [s EXCEPT !.ep = Started(@, len), !.core = ReadPrepare(@, 0, len),
            !.wire = [pkts |-> <<>>, total |-> total, left |-> total]]

\* The transfers that the endpoint may go on with, within the bound.
Next1(s) ==
  IF s.ep.num = Transfers THEN {}
  ELSE IF conf.dir = "tx" THEN {TxEpWrite(s, len) : len \in LengthsOf(conf)}
  ELSE UNION {{RxEpReadPrepare(s, len, total) : total \in TotalsOf(len)} :
              len \in LengthsOf(conf)}

\* The init call-backs: those of the vendor and mass storage classes prepare their
\* receive endpoints, and that of the CDC class writes the notification that the
\* application has, if any.
ClassInit(s) ==
  LET up == [s EXCEPT !.cls.up = TRUE, !.cls.rx1 = Bulk]
  IN CASE conf.class \in {"vendor", "msc"} /\ conf.dir = "rx" -> Next1(up)
       [] conf.class = "cdc" /\ ~Bulk -> {up} \union Next1(up)
       [] conf.class = "printer" /\ "early" \in Env -> {up, [up EXCEPT !.cls.rx1 = FALSE]}
       [] OTHER -> {up}

\* Transfers the application starts: MSS_USBD_HID_tx_report once
\* MSS_USBD_HID_tx_done says so, MSS_USBD_CDC_tx and MSS_USBD_CDC_rx_prepare,
\* MSS_USBD_PRINTER_write and MSS_USBD_PRINTER_read_prepare, and the first receive
\* of the HID application; what endpoints without a class and the mass storage class
\* start is left to them.
HidTxReport(s) ==
  IF s.cls.up /\ s.cls.done THEN Next1([s EXCEPT !.cls.done = FALSE]) ELSE {}
CdcStarts(s) == IF Bulk THEN Next1(s) ELSE {}
PrinterStarts(s) == Next1(s)

\* The vendor class starts one endpoint of a pair when a transfer of the other ends,
\* and nothing after an error.
VendorStarts(s) == IF s.ep.result = "error" THEN {} ELSE Next1(s)

Starts(s) ==
  CASE conf.class = "hid" -> IF conf.dir = "tx" THEN HidTxReport(s)
                             ELSE IF s.ep.num = 0 THEN Next1(s) ELSE {}
    [] conf.class = "cdc" -> CdcStarts(s)
    [] conf.class = "printer" -> PrinterStarts(s)
    [] conf.class = "vendor" -> VendorStarts(s)
    [] OTHER -> Next1(s)

---------------------------------------------------------------------------
(* The call-backs of the classes: what the class does when it is told that  *)
(* a transfer has ended.  A set, for what the application may choose.       *)

TxFlushFifo(c) == [c EXCEPT !.fifo = NoPkt, !.rdy = FALSE]
RxFlushFifo(c) == [c EXCEPT !.fifo = NoPkt, !.rdy = FALSE]

\* After an error, done stays as it is.
HidTxComplete(s, result) ==
  {IF result = "error" THEN [s EXCEPT !.core = TxFlushFifo(@)] ELSE [s EXCEPT !.cls.done = TRUE]}

\* The next report is prepared whatever the status, and the FIFO flushed behind it.
HidRx(s) ==
  LET next == IF s.cls.up /\ Next1(s) # {} THEN Next1(s) ELSE {s}
  IN {[t EXCEPT !.core = RxFlushFifo(@)] : t \in next}

\* The next notification of the application, whatever the status.
CdcTxComplete(s) == IF Bulk THEN {s} ELSE {s} \union Next1(s)

\* The other classes hand the status on, or start another endpoint.
CdcRx(s) == {s}
PrinterTxComplete(s) == {s}
PrinterRx(s) == {s}
VendorTxComplete(s) == {s}
VendorRx(s) == {s}

TxDone(s, result) ==
  CASE conf.class = "hid" -> HidTxComplete(s, result) [] conf.class = "cdc" -> CdcTxComplete(s)
    [] conf.class = "printer" -> PrinterTxComplete(s) [] conf.class = "vendor" -> VendorTxComplete(s)
    [] OTHER -> {s}
RxDone(s) ==
  CASE conf.class = "hid" -> HidRx(s)         [] conf.class = "cdc" -> CdcRx(s)
    [] conf.class = "printer" -> PrinterRx(s) [] conf.class = "vendor" -> VendorRx(s)
    [] OTHER -> {s}

Tell(s, cnt, result) ==
  LET t == [s EXCEPT !.ep.cnt = cnt, !.ep.result = result]
  IN IF conf.dir = "tx" THEN TxDone(t, result) ELSE RxDone(t)

---------------------------------------------------------------------------
(* Interrupt handlers.                                                     *)

WholePackets == ep.len > 0 /\ ep.len % MaxPkt = 0

\* Mutant: add_zlp is not looked at.
TxIsOverNoZlp(cnt) == ~Bulk \/ cnt = ep.len

\* Without DMA, after the packet that brings the count to cnt.
TxIsOver(cnt) ==
  \/ ~Bulk
  \/ cnt = ep.len /\ (conf.zlp => ep.txn < MaxPkt)

\* mss_usbd_ep_tx_complete_cb.
EpTxCompleteCb(s, stalled) ==
  LET cnt == IF conf.dma THEN core.at ELSE ep.cnt + ep.txn
      txn == Least(ep.len - cnt, MaxPkt)
  IN CASE stalled -> Tell(s, ep.cnt, "error")
       [] ~stalled /\ (conf.dma \/ TxIsOver(cnt)) -> Tell(s, cnt, "ok")
       [] OTHER -> {[s EXCEPT !.ep.cnt = cnt, !.ep.txn = txn,
                              !.core = WritePkt(@, cnt, ep.len, txn)]}

\* The handler reads the packet into the buffer at offset `at'.
Read(at) == [wire EXCEPT !.pkts = Append(@, [at |-> at, from |-> core.fifo.from,
                                              n |-> core.fifo.n])]
\* Mutant: RxPktRdy is left set.
ServicedNotCleared == [core EXCEPT !.fifo = NoPkt]
Serviced == [core EXCEPT !.rdy = FALSE, !.fifo = NoPkt]

RxIsOver(cnt) == IF Bulk THEN cnt = ep.len ELSE TRUE

\* mss_usbd_ep_rx_cb.  RxPktRdy is cleared before the class is told.
EpRxCb(s, stalled) ==
  LET cnt == (IF conf.dma THEN core.at ELSE ep.cnt) + core.fifo.n
      read == [s EXCEPT !.core = Serviced, !.wire = Read(ep.cnt)]
  IN CASE stalled -> Tell(s, ep.cnt, "error")
       [] ~stalled /\ ~core.rdy ->
            {[s EXCEPT !.ep.txn = Least(ep.len - ep.cnt, MaxPkt),
                       !.core = ReadPrepare(@, ep.cnt, ep.len)]}
       [] ~stalled /\ core.rdy /\ Mode1 ->
            Tell([s EXCEPT !.core = [Serviced EXCEPT !.on = FALSE], !.wire = Read(core.at)],
                 cnt, "ok")
       [] ~stalled /\ core.rdy /\ conf.dma /\ ~Bulk ->
            {[s EXCEPT !.core = [core EXCEPT !.rdy = FALSE, !.on = TRUE, !.left = core.fifo.n]]}
       [] OTHER ->
            IF RxIsOver(cnt) THEN Tell(read, cnt, "ok")
            ELSE {[read EXCEPT !.ep.cnt = cnt, !.ep.txn = Least(ep.len - cnt, MaxPkt)]}

\* MSS_USB_CIF_device_tx_errchk and MSS_USB_CIF_device_rx_errchk: SentStall is read,
\* and cleared.
Errchk == irq.stall

\* MSS_USB_CIF_handle_tx_ep_irq.
HandleTxEpIrq ==
  /\ conf.dir = "tx" /\ irq.ep /\ ~irq.wait
  /\ \E s \in EpTxCompleteCb(Now, Errchk) : Becomes(s)
  /\ irq' = [irq EXCEPT !.ep = FALSE, !.stall = FALSE]
  /\ UNCHANGED conf

\* MSS_USB_CIF_handle_rx_ep_irq.
HandleRxEpIrq ==
  /\ conf.dir = "rx" /\ irq.ep
  /\ \E s \in EpRxCb(Now, Errchk) : Becomes(s)
  /\ irq' = [irq EXCEPT !.ep = FALSE, !.stall = FALSE]
  /\ UNCHANGED conf

\* mss_usbd_dma_handler_cb of a transmit endpoint.  After whole packets, and if
\* no ZLP is to follow, it waits for the last of them to go and is the only one
\* to call the class: the core raises no endpoint interrupt for the packets that
\* DMA made ready.  The mode it looks at is that of the receive endpoint.
TxDmaWaits == cls.rx1 /\ ~conf.zlp /\ WholePackets

TxDmaHandlerCb(s) ==
  IF TxDmaWaits THEN Tell(s, core.at, "ok")
  ELSE {[s EXCEPT !.core.rdy = TRUE, !.core.cpu = TRUE]}

\* mss_usbd_dma_handler_cb of a receive endpoint.
RxDmaHandlerCb(s) ==
  IF ~conf.zlp /\ WholePackets
  THEN Tell([s EXCEPT !.core = IF Bulk THEN @ ELSE Serviced], core.at, "ok")
  ELSE {s}

\* USB_DMA_IRQHandler; no handler runs while it waits.
UsbDmaIrqWaits ==
  /\ conf.dir = "tx" /\ irq.dma /\ ~irq.wait
  /\ TxDmaWaits /\ core.rdy
  /\ irq' = [irq EXCEPT !.wait = TRUE]
  /\ UNCHANGED <<conf, ep, cls, core, wire>>

UsbDmaIrq ==
  /\ irq.dma
  /\ conf.dir = "tx" /\ TxDmaWaits => ~core.rdy
  /\ \E s \in IF conf.dir = "tx" THEN TxDmaHandlerCb(Now) ELSE RxDmaHandlerCb(Now) : Becomes(s)
  /\ irq' = [irq EXCEPT !.dma = FALSE, !.wait = FALSE]
  /\ UNCHANGED conf

---------------------------------------------------------------------------
(* The core and the host (external).                                       *)

\* Mode 1 fills the FIFO packet by packet, and AUTOSET makes the full ones ready.
TxDma ==
  /\ conf.dir = "tx" /\ core.on /\ core.left > 0 /\ ~core.rdy
  /\ LET n == IF Bulk THEN Least(core.left, MaxPkt) ELSE core.left
     IN core' = [core EXCEPT !.fifo = [from |-> core.at, n |-> n], !.at = @ + n,
                             !.left = @ - n, !.rdy = Bulk /\ n = MaxPkt, !.cpu = FALSE]
  /\ UNCHANGED <<conf, ep, cls, irq, wire>>

\* Mode 1 empties the FIFO of full packets, and AUTOCLEAR frees it.
RxDma ==
  /\ conf.dir = "rx" /\ core.on /\ core.left > 0
  /\ Bulk => core.rdy /\ core.fifo.n = MaxPkt
  /\ LET n == Least(core.left, core.fifo.n)
     IN /\ core' = [core EXCEPT !.at = @ + n, !.left = @ - n,
                                !.rdy = FALSE, !.fifo = NoPkt]
        /\ wire' = Read(core.at)
  /\ UNCHANGED <<conf, ep, cls, irq>>

DmaEnd ==
  /\ core.on /\ core.left = 0
  /\ core' = [core EXCEPT !.on = FALSE]
  /\ irq' = [irq EXCEPT !.dma = TRUE]
  /\ UNCHANGED <<conf, ep, cls, wire>>

HostIn ==
  /\ conf.dir = "tx" /\ core.rdy /\ core.stall = "no"
  /\ wire' = [wire EXCEPT !.pkts = Append(@, [at |-> wire.total - wire.left,
                                              from |-> core.fifo.from, n |-> core.fifo.n]),
                          !.left = @ - core.fifo.n]
  /\ core' = [core EXCEPT !.rdy = FALSE, !.fifo = NoPkt]
  /\ irq' = [irq EXCEPT !.ep = @ \/ core.cpu]
  /\ UNCHANGED <<conf, ep, cls>>

\* The host ends a transfer that it cannot be known to end with a short packet.
HostHasMore ==
  \/ wire.left > 0
  \/ /\ conf.zlp \/ wire.total < ep.len
     /\ wire.total % MaxPkt = 0
     /\ \A i \in DOMAIN wire.pkts : wire.pkts[i].n > 0

HostOut ==
  /\ conf.dir = "rx" /\ ep.result = "busy" /\ ~core.rdy /\ core.fifo = NoPkt
  /\ core.stall = "no" /\ HostHasMore
  /\ LET n == Least(wire.left, MaxPkt)
     IN /\ core' = [core EXCEPT !.fifo = [from |-> wire.total - wire.left, n |-> n],
                                !.rdy = TRUE]
        /\ irq' = [irq EXCEPT !.ep = @ \/ ~Mode1 \/ n < MaxPkt]
        /\ wire' = [wire EXCEPT !.left = @ - n]
  /\ UNCHANGED <<conf, ep, cls>>

\* SET_FEATURE on EP0, MSS_USBD_tx_ep_stall or MSS_USBD_rx_ep_stall: the host
\* finds it so, once.
EpStall ==
  /\ cls.up /\ core.stall = "no"
  /\ irq = [ep |-> FALSE, dma |-> FALSE, stall |-> FALSE, wait |-> FALSE]
  /\ conf.dir = "tx" /\ TxDmaWaits => Free \/ "wait" \in Env
  /\ core' = [core EXCEPT !.stall = "set"]
  /\ UNCHANGED <<conf, ep, cls, irq, wire>>

HostFindsStall ==
  /\ core.stall = "set"
  /\ core' = [core EXCEPT !.stall = "sent"]
  /\ irq' = [irq EXCEPT !.ep = TRUE, !.stall = TRUE]
  /\ UNCHANGED <<conf, ep, cls, wire>>

\* CLEAR_FEATURE on EP0, MSS_USBD_tx_ep_clr_stall or MSS_USBD_rx_ep_clr_stall.
EpClrStall ==
  /\ core.stall = "sent" /\ ~irq.ep /\ ~irq.wait
  /\ "left" \in Env \/ (core.fifo = NoPkt /\ ~core.rdy /\ ~core.on /\ ~irq.dma /\ Free)
  /\ core' = [core EXCEPT !.stall = "no"]
  /\ UNCHANGED <<conf, ep, cls, irq, wire>>

---------------------------------------------------------------------------
Init ==
  /\ conf \in Configs
  /\ ep = [len |-> 0, cnt |-> 0, txn |-> 0, result |-> "none", num |-> 0]
  /\ cls = [up |-> FALSE, done |-> TRUE, rx1 |-> FALSE]
  /\ core = [fifo |-> NoPkt, rdy |-> FALSE, cpu |-> FALSE, on |-> FALSE, at |-> 0,
             left |-> 0, stall |-> "no"]
  /\ irq = [ep |-> FALSE, dma |-> FALSE, stall |-> FALSE, wait |-> FALSE]
  /\ wire = [pkts |-> <<>>, total |-> 0, left |-> 0]

\* SET_CONFIGURATION.
Configure ==
  /\ ~cls.up
  /\ \E s \in ClassInit(Now) : Becomes(s)
  /\ UNCHANGED <<conf, irq>>

Start ==
  /\ cls.up /\ Free /\ core.stall = "no"
  /\ \E s \in Starts(Now) : Becomes(s)
  /\ UNCHANGED <<conf, irq>>

GoesOn ==
  \/ HandleTxEpIrq \/ HandleRxEpIrq \/ UsbDmaIrqWaits \/ UsbDmaIrq
  \/ TxDma \/ RxDma \/ DmaEnd \/ HostIn \/ HostOut \/ HostFindsStall

Next == Configure \/ Start \/ GoesOn \/ EpStall \/ EpClrStall

\* The interrupts are served, the core works and the host polls the endpoint.
Spec == Init /\ [][Next]_vars /\ WF_vars(GoesOn)

---------------------------------------------------------------------------
(* Properties.                                                             *)

RECURSIVE BytesOf(_)
BytesOf(pkts) == IF pkts = <<>> THEN 0 ELSE pkts[1].n + BytesOf(Tail(pkts))

\* Types; a halt waits for a host that has found it before the handler is told.
TypeOK ==
  /\ conf \in Configs
  /\ ep.len \in 0..MaxLen /\ ep.cnt \in 0..ep.len /\ ep.txn \in 0..MaxPkt
  /\ ep.result \in {"none", "busy", "ok", "error"} /\ ep.num \in 0..Transfers
  /\ core.at \in 0..MaxLen /\ core.left \in 0..MaxLen
  /\ irq.stall => irq.ep /\ (core.stall = "sent" \/ conf.class = "pipe")

\* When the class is told that a transfer has succeeded, every byte has gone to
\* its place at the other end, once and in order, and the count is theirs; and
\* MSS_USBD_HID_tx_done says that a report is done when it is, and not before.
TransferIsWhole ==
  ep.result = "ok" =>
    /\ BytesOf(wire.pkts) = wire.total /\ ep.cnt = wire.total
    /\ \A i \in DOMAIN wire.pkts :
         wire.pkts[i].n > 0 => wire.pkts[i].at = wire.pkts[i].from
    /\ cls.done

\* The packets of a transmit transfer are full but for the last, which is short
\* when the configuration asks for it (add_zlp) or the length does, and no packet
\* follows it: the host is not sent an end of transfer that is not one.  The ZLP
\* that DMA is to add after whole packets is left out: its TxPktRdy is set at
\* once, and is lost when the FIFO still holds the last of the packets.
EndsAsConfigured ==
  conf.dir = "tx" /\ ep.result = "ok" =>
    LET k == Len(wire.pkts)
    IN /\ k > 0 /\ ~core.rdy
       /\ \A i \in 1..k - 1 : wire.pkts[i].n = MaxPkt
       /\ ~(Mode1 /\ conf.zlp /\ WholePackets) =>
            (wire.pkts[k].n = MaxPkt <=> WholePackets /\ ~(Bulk /\ conf.zlp))

\* Every transfer of an endpoint that is not halted ends: the class is told so, with
\* an error if the endpoint is halted meanwhile, and may have started the next.
TransferEnds ==
  \A k \in 1..Transfers :
    ep.result = "busy" /\ ep.num = k /\ core.stall = "no" ~> ep.result # "busy" \/ ep.num # k
===========================================================================
