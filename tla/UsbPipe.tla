------------------------------ MODULE UsbPipe ------------------------------
(***************************************************************************)
(* A data pipe of the USB host: MSS_USBH_write_out_pipe and                 *)
(* MSS_USBH_read_in_pipe, packet by packet, with the call-backs of            *)
(* mss_usb_host.c, the errors of a target that stalls, does not answer or     *)
(* lets the NAK limit pass, and what its owner does after them.  The core,    *)
(* its DMA and the handlers under both stacks (mss_usb_common_cif.c) are      *)
(* those of UsbEndpoint, whose endpoints this module has beside its pipes:    *)
(* a configuration of class "pipe" puts the core in host mode.                *)
(***************************************************************************)
EXTENDS UsbEndpoint

CONSTANT NakLimit \* interval of MSS_USBH_configure_out_pipe and _in_pipe, a power of 2

ASSUME UsbPipeAssumption ==
  /\ \E k \in 0..15 : NakLimit = 2^k
  /\ \A c \in Configs : c.class = "pipe" => c.type = "bulk" /\ ~(c.dma /\ c.zlp)

\* Env also has "lost", the target fails where the DMA handler does not notice: in the
\* last of whole packets, or by not answering while DMA has more; "null", it ends its
\* data with a packet of no bytes; "bare", an OUT pipe is used again after an abort
\* without being configured.

VARIABLE
  pipe   \* to, the target that the multipoint registers name; auto, AUTOSET; ask, the
         \* packets the core goes on requesting; nak, the NAK time-out bit; aborted,
         \* its owner has aborted it (MSS_USB_EP_ABORTED of an OUT pipe)

busVars == <<vars, pipe>>

Pipe == conf.class = "pipe"
Quiet == irq = [ep |-> FALSE, dma |-> FALSE, stall |-> FALSE, wait |-> FALSE]

\* The endpoint of the device that the class has found in its descriptors.
Target == [addr |-> 16, ep |-> 1, speed |-> "HS"]
NoTarget == [addr |-> 0, ep |-> 0, speed |-> "HS", type |-> "bulk", naks |-> 0]

---------------------------------------------------------------------------
(* What the owner of the pipe calls, outside the interrupts.                 *)

\* MSS_USBH_CIF_ctz and the limit as the core has it: 2 to the (m - 1).
Ctz(n) == CHOOSE k \in 0..15 : n = 2^k
NakRegister(to) ==
  IF conf.type = "interrupt" /\ to.speed # "HS" THEN NakLimit ELSE Ctz(NakLimit) + 1

\* MSS_USBH_CIF_tx_ep_mp_configure and MSS_USBH_CIF_rx_ep_mp_configure.
MpConfigured(to) ==
  [addr |-> to.addr, ep |-> to.ep, speed |-> to.speed, type |-> conf.type,
   naks |-> NakRegister(to)]

\* MSS_USBH_CIF_tx_ep_configure: errors are cleared, and AUTOSET is as DMA needs it.
TxConfigured(p) == [p EXCEPT !.nak = FALSE, !.auto = conf.dma]

\* MSS_USBH_CIF_rx_ep_configure.
RxConfigured(p) == [p EXCEPT !.nak = FALSE]

\* MSS_USBH_configure_out_pipe and MSS_USBH_configure_in_pipe.
ConfigurePipe ==
  /\ Pipe /\ Free /\ Quiet /\ (pipe.to = NoTarget \/ pipe.aborted)
  /\ LET p == [pipe EXCEPT !.to = MpConfigured(Target), !.aborted = FALSE]
     IN pipe' = IF conf.dir = "tx" THEN TxConfigured(p) ELSE RxConfigured(p)
  /\ UNCHANGED vars

\* The lengths that the driver is made for: packets that are all whole, or one that is
\* short, where DMA counts the requests; the end of a transfer that has no bytes fails
\* an assertion.
PipeLengths ==
  {len \in 1..MaxLen : conf.dir = "rx" /\ conf.dma => len < MaxPkt \/ len % MaxPkt = 0}

\* What the target has for a read of so many bytes: without DMA all of it, and less
\* is told by a packet that is short.
Totals(len) ==
  IF ~conf.dma THEN {len}
  ELSE {total \in 0..len : total = len \/ total % MaxPkt # 0 \/ "null" \in Env}

PipeStarts ==
  /\ Pipe /\ pipe.to # NoTarget /\ Free /\ Quiet /\ ~pipe.nak
  /\ pipe.aborted => conf.dir = "rx" \/ "bare" \in Env
  /\ ep.num < Transfers

\* MSS_USBH_write_out_pipe.
WriteOutPipe ==
  /\ PipeStarts /\ conf.dir = "tx"
  /\ \E len \in PipeLengths : Becomes(TxEpWrite(Now, len))
  /\ pipe' = [pipe EXCEPT !.aborted = FALSE]
  /\ UNCHANGED <<conf, irq>>

\* MSS_USBH_read_in_pipe: AutoReq asks for the rest of whole packets.
ReadInPipe ==
  /\ PipeStarts /\ conf.dir = "rx"
  /\ \E len \in PipeLengths :
       /\ \E total \in Totals(len) : Becomes(RxEpReadPrepare(Now, len, total))
       /\ pipe' = [pipe EXCEPT !.aborted = FALSE,
                               !.ask = IF conf.dma /\ len >= MaxPkt THEN len \div MaxPkt ELSE 1]
  /\ UNCHANGED <<conf, irq>>

\* MSS_USBH_abort_in_pipe: the request and the errors are cleared, and what has come
\* all the same is flushed.
AbortInPipe ==
  /\ Pipe /\ conf.dir = "rx" /\ ep.result = "error" /\ Quiet /\ ~pipe.aborted
  /\ pipe' = [pipe EXCEPT !.ask = 0, !.nak = FALSE, !.aborted = TRUE]
  /\ core' = IF core.rdy THEN RxFlushFifo(core) ELSE core
  /\ UNCHANGED <<conf, ep, cls, irq, wire>>

\* MSS_USBH_abort_out_pipe: AUTOSET and the DMA request are cleared too, and the core
\* raises the interrupt of the endpoint for a packet that is flushed.
AbortOutPipe ==
  /\ Pipe /\ conf.dir = "tx" /\ ep.result = "error" /\ Quiet /\ ~pipe.aborted
  /\ pipe' = [pipe EXCEPT !.auto = FALSE, !.nak = FALSE, !.aborted = TRUE]
  /\ core' = [TxFlushFifo(core) EXCEPT !.on = FALSE]
  /\ irq' = [irq EXCEPT !.ep = core.rdy]
  /\ UNCHANGED <<conf, ep, cls, wire>>

---------------------------------------------------------------------------
(* The call-backs of the host stack.                                        *)

\* MSS_USB_CIF_host_tx_errchk and MSS_USB_CIF_host_rx_errchk: the time-out stays set.
PipeErrchk == irq.stall \/ pipe.nak

PipeTxIsOver(cnt) == Bulk /\ cnt = ep.len /\ (conf.zlp => ep.txn < MaxPkt)

\* mss_usbh_ep_tx_complete_cb.  The packet that failed is counted.
PipeTxCompleteCb(s, failed) ==
  LET cnt == IF conf.dma /\ ~failed THEN core.at ELSE ep.cnt + ep.txn
      txn == Least(ep.len - cnt, MaxPkt)
  IN CASE pipe.aborted -> {s}
       [] ~pipe.aborted /\ failed -> Tell(s, cnt, "error")
       [] ~pipe.aborted /\ ~failed /\ (conf.dma \/ PipeTxIsOver(cnt)) -> Tell(s, cnt, "ok")
       [] OTHER -> {[s EXCEPT !.ep.cnt = cnt, !.ep.txn = txn,
                              !.core = WritePkt(@, cnt, ep.len, txn)]}

\* A packet of no bytes is left where it is.
Unloaded == IF core.fifo.n > 0 THEN Serviced ELSE core

PipeRxCbFromStart(s, failed) == \* mutant: each packet goes to the start of the buffer
  LET cnt == (IF conf.dma THEN core.at ELSE ep.cnt) + core.fifo.n
      read == [s EXCEPT !.core = Unloaded, !.wire = Read(0)]
  IN CASE failed -> Tell(s, ep.cnt, "error")
       [] ~failed /\ core.rdy /\ (conf.dma \/ cnt = ep.len) ->
            Tell([read EXCEPT !.core.on = FALSE], cnt, "ok")
       [] OTHER -> {IF core.rdy THEN [read EXCEPT !.ep.cnt = cnt, !.ep.txn = Least(ep.len - cnt, MaxPkt)]
                    ELSE s}

\* mss_usbh_ep_rx_cb.
PipeRxCb(s, failed) ==
  LET at == IF conf.dma THEN core.at ELSE ep.cnt
      cnt == at + core.fifo.n
      read == [s EXCEPT !.core = Unloaded, !.wire = Read(at)]
  IN CASE failed -> Tell(s, ep.cnt, "error")
       [] ~failed /\ core.rdy /\ (conf.dma \/ cnt = ep.len) ->
            Tell([read EXCEPT !.core.on = FALSE], cnt, "ok")
       [] OTHER -> {IF core.rdy THEN [read EXCEPT !.ep.cnt = cnt, !.ep.txn = Least(ep.len - cnt, MaxPkt)]
                    ELSE s}

\* It asks for the next packet where DMA does not.
AsksAgain == ~conf.dma /\ ~PipeErrchk /\ core.rdy /\ ep.cnt + core.fifo.n < ep.len

PipeTxIrq ==
  /\ Pipe /\ conf.dir = "tx" /\ irq.ep /\ ~irq.wait
  /\ \E s \in PipeTxCompleteCb(Now, PipeErrchk) : Becomes(s)
  /\ irq' = [irq EXCEPT !.ep = FALSE, !.stall = FALSE]
  /\ UNCHANGED <<conf, pipe>>

PipeRxIrq ==
  /\ Pipe /\ conf.dir = "rx" /\ irq.ep
  /\ \E s \in PipeRxCb(Now, PipeErrchk) : Becomes(s)
  /\ pipe' = IF AsksAgain THEN [pipe EXCEPT !.ask = 1] ELSE pipe
  /\ irq' = [irq EXCEPT !.ep = FALSE, !.stall = FALSE]
  /\ UNCHANGED conf

\* mss_usbh_dma_handler_cb: whole packets end here, and a transmission waits for the
\* last of them to go, whatever comes of it.
PipeWhole == ~conf.zlp /\ WholePackets

PipeDmaWaits ==
  /\ Pipe /\ conf.dir = "tx" /\ irq.dma /\ ~irq.wait /\ PipeWhole /\ core.rdy
  /\ irq' = [irq EXCEPT !.wait = TRUE]
  /\ UNCHANGED <<conf, ep, cls, core, wire, pipe>>

PipeDmaHandlerCb(s) ==
  IF PipeWhole THEN Tell(s, core.at, "ok")
  ELSE {IF conf.dir = "tx" THEN [s EXCEPT !.core.rdy = TRUE, !.core.cpu = TRUE] ELSE s}

PipeDmaIrq ==
  /\ Pipe /\ irq.dma
  /\ conf.dir = "tx" /\ PipeWhole => ~core.rdy
  /\ \E s \in PipeDmaHandlerCb(Now) : Becomes(s)
  /\ pipe' = IF conf.dir = "rx" /\ PipeWhole THEN [pipe EXCEPT !.ask = 0] ELSE pipe
  /\ irq' = [irq EXCEPT !.dma = FALSE, !.wait = FALSE]
  /\ UNCHANGED conf

---------------------------------------------------------------------------
(* The core and the target (external).                                      *)

\* The core speaks to the target that it is told of, until the NAK limit has passed.
Speaks ==
  /\ ~pipe.nak
  /\ pipe.to.addr = Target.addr /\ pipe.to.ep = Target.ep /\ pipe.to.type = "bulk"

TargetTakes == Pipe /\ HostIn /\ Speaks /\ UNCHANGED pipe

TargetSends ==
  /\ Pipe /\ HostOut /\ Speaks /\ pipe.ask > 0
  /\ pipe' = [pipe EXCEPT !.ask = IF core'.fifo.n < MaxPkt THEN 0 ELSE @ - 1]

\* Without AUTOSET no packet of a mode 1 transfer gets ready.
PipeDma ==
  /\ Pipe
  /\ \/ TxDma /\ (pipe.auto \/ core.left < MaxPkt)
     \/ RxDma
     \/ DmaEnd
  /\ UNCHANGED pipe

\* A target that stalls has what is in the FIFO flushed, and the DMA stopped; one that
\* does not answer, the first.
Unnoticed(how) ==
  /\ conf.dir = "tx" /\ conf.dma
  /\ \/ PipeWhole /\ core.left = 0
     \/ how = "silent" /\ core.on

TargetFails ==
  /\ Pipe /\ Speaks /\ ep.result = "busy"
  /\ IF conf.dir = "tx" THEN core.rdy ELSE pipe.ask > 0 /\ ~core.rdy /\ core.fifo = NoPkt
  /\ \E how \in {"stalls", "silent", "naks"} :
       /\ how = "naks" => pipe.to.naks > 1
       /\ Unnoticed(how) => "lost" \in Env
       /\ core' = CASE how = "naks" -> core
                    [] how = "stalls" -> [TxFlushFifo(core) EXCEPT !.on = FALSE]
                    [] how = "silent" -> TxFlushFifo(core)
       /\ pipe' = IF how = "naks" THEN [pipe EXCEPT !.nak = TRUE] ELSE [pipe EXCEPT !.ask = 0]
  /\ irq' = [irq EXCEPT !.ep = TRUE, !.stall = TRUE]
  /\ UNCHANGED <<conf, ep, cls, wire>>

---------------------------------------------------------------------------
BusInit ==
  /\ Init
  /\ pipe = [to |-> NoTarget, auto |-> FALSE, ask |-> 0, nak |-> FALSE, aborted |-> FALSE]

Device == ~Pipe /\ UNCHANGED pipe
PipeGoesOn ==
  PipeTxIrq \/ PipeRxIrq \/ PipeDmaWaits \/ PipeDmaIrq \/ PipeDma \/ TargetTakes \/ TargetSends
PipeNext ==
  ConfigurePipe \/ WriteOutPipe \/ ReadInPipe \/ AbortInPipe \/ AbortOutPipe \/ TargetFails
  \/ PipeGoesOn

BusNext == (Device /\ Next) \/ PipeNext

\* Interrupts are served, the core works, and the far end goes on with what has begun.
BusSpec ==
  BusInit /\ [][BusNext]_busVars /\ WF_busVars(Device /\ GoesOn) /\ WF_busVars(PipeGoesOn)

\* The core asks only for what there is room for, and times out only what it was told of.
PipeTypeOK ==
  /\ TypeOK /\ pipe.auto \in BOOLEAN /\ pipe.nak \in BOOLEAN /\ pipe.aborted \in BOOLEAN
  /\ pipe.ask \in 0..MaxLen /\ (pipe.nak => pipe.to # NoTarget)
  /\ ep.result = "busy" /\ Pipe /\ conf.dir = "rx" => ep.cnt + pipe.ask * MaxPkt <= ep.len + MaxPkt
============================================================================
