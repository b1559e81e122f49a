----------------------------- MODULE UsbControl -----------------------------
(***************************************************************************)
(* Endpoint 0 of the USB device: the requests of chapter 9, the class      *)
(* requests and the bus events, from the interrupt handler of the CIF      *)
(* (drivers/mss_usb/mss_usb_common_cif.c) through the device driver        *)
(* (mss_usb_device.c) to the callbacks of the five classes, against a host *)
(* that makes control transfers, gives some up, and resets, suspends and   *)
(* unplugs the device.                                                     *)
(***************************************************************************)
EXTENDS UsbClasses

CONSTANTS
  Builds,    \* what the application registers and plugs into: the class, the speed
             \* the user selects and the one the bus runs at
  Requests,  \* the requests a host may make: [k, v, len, in]
  MaxPkt,    \* the packet size of endpoint 0
  MaxBus,    \* bound on the resets, suspends and unplugs of a run
  MaxAborts, \* bound on the transfers a host gives up
  Overlap    \* what may happen before an earlier interrupt is served:
             \* "setup", a SETUP; "late", giving up an answer that is complete;
             \* "delay", a reset or unplug while SET_ADDRESS waits; "events", a bus
             \* event other than a reset after another bus event

ASSUME UsbControlAssumption ==
  /\ Builds \subseteq [class : AllClasses, user : Speeds, bus : Speeds]
  /\ \A b \in Builds : b.user = "fs" => b.bus = "fs"
  /\ MaxPkt \in Nat /\ MaxPkt >= 8   \* a SETUP packet fits
  /\ MaxBus \in Nat /\ MaxAborts \in Nat
  /\ \A r \in Requests : r.len \in Nat /\ r.in \in BOOLEAN

VARIABLES
  d,     \* the driver, the class and the registers of the core
  irq,   \* the interrupt registers: ep0, and the set of bus events
  host,  \* the host: its transfer, and what it knows of the device
  count  \* bus events and aborts so far

vars == <<d, irq, host, count>>

Unknown == 256                      \* no address and no configuration: not known
NoReq == [k |-> "status", v |-> "device", len |-> 0, in |-> FALSE]  \* all zero
NoPkt == [of |-> "none", n |-> 0, req |-> NoReq]
SetupSize == 8
Least(a, b) == IF a < b THEN a ELSE b
Pending == irq.ep0 \/ irq.usb # {} \/ d.delay

---------------------------------------------------------------------------
(* Control endpoint.  state, buf, len, cnt and txn are those of            *)
(* gd_tx_ep[MSS_USB_CEP], setup is g_setup_pkt, cepState is cep_state.      *)

ReadPrepare(c, buf, len) ==
  [c EXCEPT !.buf = buf, !.len = len, !.cnt = 0, !.txn = Least(len, MaxPkt),
            !.cepState = IF c.cep = "idle" THEN "idle"
                         ELSE IF c.cep \in {"setup", "rx"} THEN "rx" ELSE @]

Rearm(c) == ReadPrepare([c EXCEPT !.setup = NoReq, !.cep = "idle"], "setup", SetupSize)

\* Whatever packet is in the FIFO is read into whatever buffer was prepared.
ReadPkt(c) ==
  IF c.buf = "none" THEN c
  ELSE [c EXCEPT !.cnt = @ + c.rx.n,
                 !.setup = IF c.buf = "setup" THEN c.rx.req ELSE @,
                 !.got = IF c.buf = "setup" THEN 0 ELSE @ + c.rx.n]

\* What a packet written from a buffer carries.
DataOf(buf) == IF buf = "none" THEN "nothing" ELSE buf

\* The last packet of a transfer is the one that reaches len: no zero-length
\* packet follows a last packet of MaxPkt bytes.  From a null buffer nothing is
\* loaded, and the packet that leaves is a zero-length one.
WritePkt(c) ==
  LET n == IF c.buf = "none" THEN 0 ELSE c.txn
  IN [c EXCEPT !.tx = [NoPkt EXCEPT !.of = DataOf(c.buf), !.n = n], !.cnt = @ + n,
               !.cepState = IF c.cep = "tx" THEN "tx" ELSE @,
               !.dataEnd = c.cnt + n >= c.len]

CepWrite(c, buf, len) ==
  WritePkt([c EXCEPT !.buf = buf, !.len = len, !.cnt = 0, !.txn = Least(len, MaxPkt)])

CepStall(c) == [c EXCEPT !.sendStall = TRUE, !.rx = NoPkt]
EndTransfer(c) == [c EXCEPT !.dataEnd = TRUE, !.rx = NoPkt]

Refuse(c) == CepStall([c EXCEPT !.cep = "idle", !.setup = NoReq])

---------------------------------------------------------------------------
(* Requests: an answer is whether the request is taken, the buffer and the  *)
(* length of its data, and the driver it leaves.                            *)

Take(c, buf, len) == [ok |-> TRUE, buf |-> buf, len |-> len, d |-> c]
Done(c) == Take(c, "none", 0)
Fail(c) == [Done(c) EXCEPT !.ok = FALSE]

AtLeastDefault == {"default", "address", "configured", "suspended"}
PastDefault == AtLeastDefault \ {"default"}

\* The lengths of the descriptors: of the application, and of each class.
DeviceDescriptor(v) == CASE v = "device" -> 18 [] v = "qualifier" -> 10 [] OTHER -> 0
StringDescriptor(v) == CASE v = "langid" -> 4 [] v = "product" -> 24 [] OTHER -> 0
ReportDescriptor(class) == IF class = "hid" THEN 21 ELSE 0

DescriptorLength(c, v) ==
  CASE v \in {"device", "qualifier"} -> DeviceDescriptor(v)
    [] v = "config" -> ConfDescriptor(c.class, c.user, c.speed).len
    [] v = "other"  -> OtherSpeedDescriptor(c.class, c.user, c.speed).len
    [] v = "report" -> ReportDescriptor(c.class)
    [] OTHER        -> StringDescriptor(v)

DescriptorBuffer(c, v) == IF v = "report" /\ DescriptorLength(c, v) = 0 THEN "none" ELSE v

\* A string that does not exist has length 0; a class that has no descriptor of
\* a kind returns a null buffer.  Both are taken, and answered with a zero-length
\* packet.  What is about the other speed is refused when the user has selected
\* full speed.
GetDescriptor(c) ==
  LET v == c.setup.v
      n == DescriptorLength(c, v)
  IN IF c.state \in AtLeastDefault /\ c.setup.in /\ (v \in {"qualifier", "other"} => c.user = "hs")
     THEN Take(c, DescriptorBuffer(c, v), n)
     ELSE Fail(c)

\* The result of SET_ADDRESS, SET_CONFIGURATION, GET_CONFIGURATION, GET_STATUS
\* and SET_DESCRIPTOR is dropped: they are always taken.
SetAddress(c) ==
  LET v == c.setup.v
  IN Done([c EXCEPT !.addr = v,
                    !.state = IF c.state = "default" /\ v # 0 THEN "address"
                              ELSE IF c.state = "address" /\ v = 0 THEN "default"
                              ELSE @])

\* Configuring an endpoint clears the flag that GET_STATUS reads and, in its
\* registers, the stall itself.  The host halts endpoint 1.
Replaces(eps, es) == es \union {x \in eps : \A e \in es : <<x.num, x.dir>> # <<e.num, e.dir>>}

TxRegisters(c, kept) == [c EXCEPT !.stallTx = @ /\ kept]
RxRegisters(c, kept) == [c EXCEPT !.stallRx = @ /\ kept]

TxConfigured(c, configs) ==
  LET es == {e \in configs : e.dir = "tx" /\ TxAccepted(c.speed, e)}
      kept == \A e \in es : e.num # 1
  IN TxRegisters([c EXCEPT !.eps = Replaces(@, es), !.haltTx = @ /\ kept], kept)

RxConfigured(c, configs) ==
  LET es == {e \in configs : e.dir = "rx" /\ RxAccepted(c.speed, e)}
      kept == \A e \in es : e.num # 1
  IN RxRegisters([c EXCEPT !.eps = Replaces(@, es), !.haltRx = @ /\ kept], kept)

WithEndpoints(c, configs) == [RxConfigured(TxConfigured(c, configs), configs) EXCEPT
                                !.cls = "configured"]
HidInit(c)     == WithEndpoints(c, HidConfigs)
CdcInit(c)     == WithEndpoints(c, CdcConfigs)
PrinterInit(c) == WithEndpoints(c, PrinterConfigs)
VendorInit(c)  == WithEndpoints(c, VendorConfigs[c.speed])
MscInit(c)     == WithEndpoints(c, MscConfigs[c.speed])

ClassInit(c) ==
  CASE c.class = "hid" -> HidInit(c)         [] c.class = "cdc" -> CdcInit(c)
    [] c.class = "printer" -> PrinterInit(c) [] c.class = "vendor" -> VendorInit(c)
    [] c.class = "msc" -> MscInit(c)

\* The vendor class has no callback for its release.
HidRelease(c)     == [c EXCEPT !.cls = "none"]
CdcRelease(c)     == [c EXCEPT !.cls = "none", !.stallTx = FALSE, !.stallRx = FALSE]
PrinterRelease(c) == [c EXCEPT !.cls = "none"]
MscRelease(c)     == [c EXCEPT !.cls = "none", !.stallTx = FALSE, !.stallRx = FALSE]

ClassRelease(c) ==
  CASE c.class = "hid" -> HidRelease(c)         [] c.class = "cdc" -> CdcRelease(c)
    [] c.class = "printer" -> PrinterRelease(c) [] c.class = "vendor" -> c
    [] c.class = "msc" -> MscRelease(c)

SetConfig(c) ==
  LET v == c.setup.v
      s == [c EXCEPT !.cfg = v]
  IN CASE c.state = "default" -> Done(c)
       [] c.state \in {"address", "configured"} /\ v # 0 ->
            Done(ClassInit([s EXCEPT !.state = "configured"]))
       [] c.state = "configured" /\ v = 0 ->
            Done(ClassRelease([s EXCEPT !.state = "address"]))
       [] OTHER -> Done(s)

GetConfig(c) ==
  IF c.setup.len = 1 THEN Take(c, IF c.cfg = 0 THEN "cfg0" ELSE "cfg1", 1) ELSE Done(c)

\* In the address state the endpoint index is not masked: tx and rx are read
\* from the transmit endpoints.
GetStatus(c) ==
  LET halted == IF c.setup.v = "tx" \/ c.state = "address" THEN c.haltTx ELSE c.haltRx
  IN CASE c.setup.len # 2 \/ c.state \notin {"address", "configured"} -> Done(c)
       [] c.setup.v = "device" -> Take(c, "self", 2)
       [] OTHER -> Take(c, IF halted THEN "halted" ELSE "notHalted", 2)

Halt(c) ==
  IF c.state # "configured" THEN Fail(c)
  ELSE IF c.setup.v = "tx"
       THEN Done([c EXCEPT !.haltTx = TRUE, !.stallTx = TRUE])
       ELSE Done([c EXCEPT !.haltRx = TRUE, !.stallRx = TRUE])

ClearHalt(c) ==
  IF c.state \notin PastDefault THEN Fail(c)
  ELSE IF c.setup.v = "tx"
       THEN Done([c EXCEPT !.haltTx = FALSE, !.stallTx = FALSE])
       ELSE Done([c EXCEPT !.haltRx = FALSE, !.stallRx = FALSE])

\* The HID class refuses every class request, the vendor class takes every one
\* with the length the host asks for, the others ask the application.
Asked(c) == IF c.setup.len = 0 THEN Done(c) ELSE Take(c, "class", c.setup.len)
HidRequest(c)     == Fail(c)
CdcRequest(c)     == IF c.setup.v = "refuse" THEN Fail(c) ELSE Asked(c)
PrinterRequest(c) == IF c.setup.v = "refuse" THEN Fail(c) ELSE Asked(c)
VendorRequest(c)  == Asked(c)

\* GET_MAX_LUN, which is answered, and BMS_RESET, which has no data.
MscRequest(c) ==
  CASE c.setup.v = "refuse"              -> Fail(c)
    [] c.setup.v = "take" /\ c.setup.in -> Take(c, "class", 1)
    [] OTHER -> IF c.setup.len = 0 THEN Done(c) ELSE Fail(c)

ClassRequest(c) ==
  CASE c.class = "hid" -> HidRequest(c)         [] c.class = "cdc" -> CdcRequest(c)
    [] c.class = "printer" -> PrinterRequest(c) [] c.class = "vendor" -> VendorRequest(c)
    [] c.class = "msc" -> MscRequest(c)

Answer(c) ==
  CASE c.setup.k = "descriptor"    -> GetDescriptor(c)
    [] c.setup.k = "address"       -> SetAddress(c)
    [] c.setup.k = "setConfig"     -> SetConfig(c)
    [] c.setup.k = "getConfig"     -> GetConfig(c)
    [] c.setup.k = "status"        -> GetStatus(c)
    [] c.setup.k = "setDescriptor" -> Done(c)
    [] c.setup.k = "setInterface"  -> Done([c EXCEPT !.iface = c.setup.v])
    [] c.setup.k = "getInterface"  -> Take(c, "iface", 1)
    [] c.setup.k = "halt"          -> Halt(c)
    [] c.setup.k = "clearHalt"     -> ClearHalt(c)
    [] c.setup.k = "class"         -> ClassRequest(c)
    [] OTHER                       -> Fail(c)

---------------------------------------------------------------------------
(* The callbacks of the CIF.                                               *)

\* SET_ADDRESS leaves the interrupt handler in its delay loop.
NoDataStage(c) ==
  LET e == EndTransfer([c EXCEPT !.cep = "idle"])
  IN IF c.setup.k = "address" THEN [e EXCEPT !.delay = TRUE] ELSE Rearm(e)

\* Mutant: the answer is not cut to the length asked for.
DataStageWhole(a) ==
  LET c == [a.d EXCEPT !.rx = NoPkt]
  IN IF c.setup.in
     THEN CepWrite([c EXCEPT !.cep = "tx"], a.buf, a.len)
     ELSE ReadPrepare([c EXCEPT !.cep = "rx"], a.buf, a.len)

DataStage(a) ==
  LET c == [a.d EXCEPT !.rx = NoPkt]
  IN IF c.setup.in
     THEN CepWrite([c EXCEPT !.cep = "tx"], a.buf, Least(a.len, c.setup.len))
     ELSE ReadPrepare([c EXCEPT !.cep = "rx"], a.buf, a.len)

\* Mutant: after a transfer that ended early the endpoint is idle, and not prepared.
SetupCbNotPrepared(c, err) ==
  LET r == ReadPkt(c)
      a == Answer([r EXCEPT !.cep = "setup"])
  IN CASE err -> [c EXCEPT !.cep = "idle", !.setup = NoReq]
       [] ~err /\ r.txn # SetupSize -> Refuse(r)
       [] ~err /\ r.txn = SetupSize ->
            IF ~a.ok THEN Refuse(a.d)
            ELSE IF a.d.setup.len = 0 THEN NoDataStage(a.d) ELSE DataStage(a)

SetupCb(c, err) ==
  LET r == ReadPkt(c)
      a == Answer([r EXCEPT !.cep = "setup"])
  IN CASE err                -> Rearm(c)
       [] ~err /\ r.txn # SetupSize -> Refuse(r)
       [] ~err /\ r.txn = SetupSize ->
            IF ~a.ok THEN Refuse(a.d)
            ELSE IF a.d.setup.len = 0 THEN NoDataStage(a.d) ELSE DataStage(a)

\* Mutant: a packet that is not the last is read and left in the FIFO.
RxCbNotServiced(c) ==
  LET r == ReadPkt(c)
  IN CASE r.cep # "rx" -> r
       [] r.cep = "rx" /\ r.cnt = r.len ->
            Rearm(EndTransfer([r EXCEPT !.classGot = r.got, !.got = 0]))
       [] r.cep = "rx" /\ r.cnt < r.len ->
            ReadPrepare(r, r.buf, Least(r.len - r.cnt, MaxPkt))
       [] OTHER -> Refuse(r)

\* The rest of a transfer is prepared as a transfer of its own, cut to MaxPkt.
RxCb(c) ==
  LET r == ReadPkt(c)
  IN CASE r.cep # "rx"    -> r
       [] r.cep = "rx" /\ r.cnt = r.len ->
            Rearm(EndTransfer([r EXCEPT !.classGot = r.got, !.got = 0]))
       [] r.cep = "rx" /\ r.cnt < r.len ->
            ReadPrepare([r EXCEPT !.rx = NoPkt], r.buf, Least(r.len - r.cnt, MaxPkt))
       [] OTHER -> Refuse(r)

TxCb(c) ==
  CASE c.cep # "tx"                   -> c
    [] c.cep = "tx" /\ c.cnt < c.len  ->
         WritePkt([c EXCEPT !.txn = Least(c.len - c.cnt, MaxPkt)])
    [] OTHER                          -> Rearm(c)

CepRegisters(c) == [c EXCEPT !.setupEnd = FALSE, !.sentStall = FALSE, !.sendStall = FALSE]
CepConfigured(c) == CepRegisters([c EXCEPT !.cep = "idle", !.buf = "none", !.txn = SetupSize])

ResetCb(c) ==
  Rearm(CepConfigured([c EXCEPT !.state = "default", !.addr = 0, !.speed = c.bus]))
\* Mutant: the state is not saved.
SuspendCbNotSaved(c) == [c EXCEPT !.state = "suspended"]

SuspendCb(c) == [c EXCEPT !.saved = c.state, !.state = "suspended"]
ResumeCb(c) == [c EXCEPT !.state = c.saved]
DisconnectCb(c) == ClassRelease([c EXCEPT !.state = "notAttached"])

\* MSS_USB_CIF_handle_cep_irq: one of the causes of an interrupt is served.
EpIrq(c) ==
  CASE c.sentStall -> SetupCb([c EXCEPT !.sentStall = FALSE], TRUE)
    [] ~c.sentStall /\ c.setupEnd ->
         SetupCb([c EXCEPT !.setupEnd = FALSE], c.rx = NoPkt)
    [] ~c.sentStall /\ ~c.setupEnd /\ c.cepState = "tx" -> TxCb(c)
    [] ~c.sentStall /\ ~c.setupEnd /\ c.cepState = "idle" /\ c.rx # NoPkt -> SetupCb(c, FALSE)
    [] ~c.sentStall /\ ~c.setupEnd /\ c.cepState = "rx" /\ c.rx # NoPkt -> RxCb(c)
    [] OTHER -> c

BusIrq(c, events) ==
  LET c1 == IF "disconnect" \in events THEN DisconnectCb(c) ELSE c
      c2 == IF "resume" \in events THEN ResumeCb(c1) ELSE c1
      c3 == IF "suspend" \in events THEN SuspendCb(c2) ELSE c2
  IN IF "reset" \in events THEN ResetCb(c3) ELSE c3

---------------------------------------------------------------------------
\* The HID application configures both endpoints itself, before it is plugged in.
AppConfigs(class) ==
  IF class = "hid" THEN {Config(1, "tx", "interrupt", 512, 1024, 1024, FALSE),
                         Config(1, "rx", "interrupt", 256, 1024, 1024, FALSE)} ELSE {}

Init ==
  /\ \E b \in Builds :
       d = [state |-> "notAttached", saved |-> "notAttached", addr |-> 0, cfg |-> 0,
            iface |-> 0, haltTx |-> FALSE, haltRx |-> FALSE, class |-> b.class,
            user |-> b.user, bus |-> b.bus, speed |-> b.user, eps |-> AppConfigs(b.class),
            cls |-> "none", classGot |-> 0, delay |-> FALSE,
            cep |-> "idle", buf |-> "setup", len |-> SetupSize, cnt |-> 0,
            txn |-> SetupSize, got |-> 0, setup |-> NoReq, cepState |-> "idle",
            rx |-> NoPkt, tx |-> NoPkt, dataEnd |-> FALSE,
            setupEnd |-> FALSE, sendStall |-> FALSE, sentStall |-> FALSE,
            stallTx |-> FALSE, stallRx |-> FALSE, faddr |-> 0]
  /\ irq = [ep0 |-> FALSE, usb |-> {}]
  /\ host = [phase |-> "gone", req |-> NoReq, n |-> 0, of |-> "none",
             addr |-> 0, cfg |-> 0, susp |-> FALSE]
  /\ count = [bus |-> 0, aborts |-> 0]

\* USB_IRQHandler.
Isr ==
  /\ ~d.delay
  /\ Pending
  /\ \E c \in {BusIrq(d, irq.usb)} : d' = IF irq.ep0 THEN EpIrq(c) ELSE c
  /\ irq' = [ep0 |-> FALSE, usb |-> {}]
  /\ UNCHANGED <<host, count>>

\* The end of the delay loop of SET_ADDRESS: the host's status stage is over.
IsrAfterDelay ==
  /\ d.delay
  /\ host.phase # "status"
  /\ d' = Rearm([d EXCEPT !.delay = FALSE, !.faddr = d.addr])
  /\ UNCHANGED <<irq, host, count>>

---------------------------------------------------------------------------
(* The host and the core (external).                                       *)

Legal(r) ==
  CASE host.addr = 0 -> r.k \in {"address"} \/ (r.k = "descriptor" /\ r.v = "device")
    [] host.addr # 0 /\ host.cfg \in {0, Unknown} ->
         \/ r.k \in {"descriptor", "setConfig"} \/ (r.k = "status" /\ r.v = "device")
         \/ r.k = "address" /\ host.cfg = 0
    [] OTHER -> r.k # "address"

Over == [host EXCEPT !.phase = "idle", !.req = NoReq, !.n = 0, !.of = "none"]

FirstStage(r) == IF r.len = 0 THEN "status" ELSE IF r.in THEN "in" ELSE "out"

HostSetup(r) ==
  /\ host.phase = "idle" /\ ~host.susp /\ host.addr = d.faddr
  /\ Legal(r)
  /\ ~d.delay
  /\ ~Pending \/ "setup" \in Overlap
  /\ d' = [d EXCEPT !.rx = [of |-> "host", n |-> SetupSize, req |-> r], !.tx = NoPkt,
                    !.dataEnd = FALSE]
  /\ irq' = [irq EXCEPT !.ep0 = TRUE]
  /\ host' = [host EXCEPT !.phase = FirstStage(r), !.req = r, !.n = 0, !.of = "none"]
  /\ UNCHANGED count

\* A packet of the IN data stage.  The core raises no interrupt for the packet
\* sent with DataEnd.
HostIn ==
  /\ host.phase = "in"
  /\ d.tx # NoPkt
  /\ LET n == host.n + d.tx.n
     IN host' = [host EXCEPT !.n = n, !.of = d.tx.of,
                             !.phase = IF d.tx.n < MaxPkt \/ n >= host.req.len
                                       THEN "status" ELSE "in"]
  /\ d' = [d EXCEPT !.tx = NoPkt]
  /\ irq' = [irq EXCEPT !.ep0 = @ \/ ~d.dataEnd]
  /\ UNCHANGED count

HostOut ==
  /\ host.phase = "out"
  /\ d.rx = NoPkt /\ ~d.dataEnd /\ ~d.sendStall
  /\ LET n == Least(host.req.len - host.n, MaxPkt)
     IN /\ d' = [d EXCEPT !.rx = [NoPkt EXCEPT !.of = "host", !.n = n]]
        /\ host' = [host EXCEPT !.n = @ + n,
                                !.phase = IF host.n + n = host.req.len THEN "status" ELSE "out"]
  /\ irq' = [irq EXCEPT !.ep0 = TRUE]
  /\ UNCHANGED count

AboutToEndWell == host.phase = "status" /\ d.dataEnd /\ d.tx = NoPkt

HostStatus ==
  /\ AboutToEndWell
  /\ d' = [d EXCEPT !.dataEnd = FALSE, !.classGot = 0]
  /\ irq' = [irq EXCEPT !.ep0 = TRUE]
  /\ host' = [Over EXCEPT !.addr = IF host.req.k = "address" THEN host.req.v ELSE @,
                          !.cfg = IF host.req.k = "setConfig" THEN host.req.v ELSE @]
  /\ UNCHANGED count

\* A stage the driver stalls, or one the core stalls since DataEnd is set.
HostStalled ==
  /\ host.phase \in {"in", "out", "status"}
  /\ d.sendStall \/ (d.dataEnd /\ d.tx = NoPkt /\ host.phase # "status")
  /\ d' = [d EXCEPT !.sendStall = FALSE, !.sentStall = TRUE]
  /\ irq' = [irq EXCEPT !.ep0 = TRUE]
  /\ host' = Over
  /\ UNCHANGED count

\* The host gives a transfer up; the token of its next SETUP raises SetupEnd.
HostAbort ==
  /\ host.phase \in {"in", "out", "status"}
  /\ count.aborts < MaxAborts
  /\ ~(d.dataEnd /\ d.cepState = "tx") \/ "late" \in Overlap
  /\ d' = [d EXCEPT !.setupEnd = ~d.dataEnd, !.rx = NoPkt, !.tx = NoPkt,
                    !.dataEnd = FALSE, !.sendStall = FALSE]
  /\ irq' = [irq EXCEPT !.ep0 = @ \/ ~d.dataEnd]
  /\ host' = [Over EXCEPT !.addr = IF host.req.k = "address" THEN Unknown ELSE @,
                          !.cfg = IF host.req.k = "setConfig" THEN Unknown ELSE @]
  /\ count' = [count EXCEPT !.aborts = @ + 1]

Raise(event) ==
  /\ irq.usb = {} \/ event = "reset" \/ "events" \in Overlap
  /\ irq' = [irq EXCEPT !.usb = @ \union {event}]

Bus(event) ==
  /\ count.bus < MaxBus
  /\ Raise(event)
  /\ count' = [count EXCEPT !.bus = @ + 1]

\* A reset clears FADDR, the FIFOs and every control register of the core.
BusReset ==
  /\ Bus("reset")
  /\ ~d.delay \/ "delay" \in Overlap
  /\ d' = [d EXCEPT !.faddr = 0, !.rx = NoPkt, !.tx = NoPkt, !.dataEnd = FALSE,
                    !.setupEnd = FALSE, !.sendStall = FALSE,
                    !.sentStall = FALSE, !.stallTx = FALSE, !.stallRx = FALSE]
  /\ host' = [Over EXCEPT !.addr = 0, !.cfg = 0, !.susp = FALSE]

BusSuspend ==
  /\ host.phase = "idle" /\ ~host.susp
  /\ Bus("suspend")
  /\ host' = [host EXCEPT !.susp = TRUE]
  /\ UNCHANGED d

BusResume ==
  /\ host.susp
  /\ Raise("resume")
  /\ host' = [host EXCEPT !.susp = FALSE]
  /\ UNCHANGED <<d, count>>

Unplug ==
  /\ host.phase # "gone"
  /\ ~d.delay \/ "delay" \in Overlap
  /\ Bus("disconnect")
  /\ host' = [Over EXCEPT !.phase = "gone", !.susp = FALSE]
  /\ UNCHANGED d

HostGoesOn == HostIn \/ HostOut \/ HostStatus \/ HostStalled

HostNext ==
  \/ \E r \in Requests : HostSetup(r)
  \/ HostGoesOn \/ HostAbort
  \/ BusReset \/ BusSuspend \/ BusResume \/ Unplug

Next == Isr \/ IsrAfterDelay \/ HostNext

\* The interrupt is served, and the host goes on with a transfer that it can go
\* on with; nothing makes it begin one, give one up or use the bus events.
Fairness ==
  /\ WF_vars(Isr \/ IsrAfterDelay)
  /\ WF_vars(HostGoesOn)

Spec == Init /\ [][Next]_vars /\ Fairness

---------------------------------------------------------------------------
(* Properties.                                                             *)

\* Every variable has its type, and no transfer counts past its length.
TypeOK ==
  /\ d.state \in AtLeastDefault \union {"notAttached"}
  /\ d.saved \in AtLeastDefault \union {"notAttached"}
  /\ d.cep \in {"idle", "setup", "rx", "tx"} /\ d.cepState \in {"idle", "rx", "tx"}
  /\ d.setup \in Requests \union {NoReq} /\ d.cnt \in 0..d.len /\ d.txn \in 0..MaxPkt
  /\ irq.ep0 \in BOOLEAN /\ irq.usb \subseteq {"reset", "suspend", "resume", "disconnect"}
  /\ host.phase \in {"gone", "idle", "in", "out", "status"}
  /\ host.addr \in Nat /\ host.cfg \in Nat /\ host.susp \in BOOLEAN

Wanted(r) ==
  CASE r.k = "descriptor"   -> [of |-> DataOf(DescriptorBuffer(d, r.v)),
                                n |-> DescriptorLength(d, r.v)]
    [] r.k = "getConfig"    -> [of |-> "cfg1", n |-> 1]
    [] r.k = "getInterface" -> [of |-> "iface", n |-> 1]
    [] r.k = "status" /\ r.v = "device" -> [of |-> "self", n |-> 2]
    [] r.k = "class"        -> [of |-> "class", n |-> IF d.class = "msc" THEN 1 ELSE r.len]
    [] OTHER                -> [of |-> host.of, n |-> 2]

\* A control transfer that the host sees end well carried the data it is about,
\* as much of it as was asked for, and the class was handed every byte of an OUT
\* data stage: the packets that mss_usbd_cep_tx_complete_cb and
\* mss_usbd_cep_rx_cb cut a transfer into add up to it, whatever was given up or
\* reset before.
AnswerIsRight ==
  AboutToEndWell =>
    LET r == host.req
    IN /\ r.in => /\ host.of = Wanted(r).of
                  /\ host.n = Least(Wanted(r).n, r.len)
       /\ ~r.in /\ r.len > 0 /\ r.k = "class" => d.classGot = r.len

\* Between transfers, with no interrupt pending, endpoint 0 waits for a SETUP
\* packet in g_setup_pkt, and at the address the host uses.
ReadyForSetup ==
  host.phase = "idle" /\ ~Pending =>
    /\ d.cep = "idle" /\ d.cepState = "idle"
    /\ d.buf = "setup" /\ d.txn = SetupSize /\ d.cnt = 0
    /\ host.addr \in {d.faddr, Unknown}

\* What GET_STATUS reports of an endpoint is whether the core stalls it, for the
\* classes that configure both endpoints when they are initialised.
HaltReported ==
  d.state = "configured" /\ ~Pending /\ d.class # "hid" =>
    /\ d.haltTx = d.stallTx
    /\ d.haltRx = d.stallRx

\* Once configured, the endpoints are those of the descriptor that the host has been
\* given for the speed of the bus, as large, each with bytes of the core's memory of
\* its own.  Left out are the bulk endpoints of the vendor class at high speed, which
\* get the size of its interrupt endpoints, and the bytes that the endpoints of a
\* printer share, and those of the HID class and its application.
EndpointsInStep ==
  d.state = "configured" /\ ~Pending =>
    LET conf == ConfDescriptor(d.class, d.user, d.speed)
    IN /\ Cardinality(d.eps) = Cardinality(EpsOf(conf))
       /\ d.class # "vendor" \/ d.speed = "fs" => AsDescribed(d.eps, conf)
       /\ d.class \notin {"hid", "printer"} => Apart(d.eps)

\* device_state, the configuration, the class, its endpoints and the halts follow what the host has
\* done: across requests, resets, suspends, and unplugging.
StateInStep ==
  /\ ~Pending /\ Unknown \notin {host.addr, host.cfg} =>
       /\ host.susp => d.state = "suspended"
       /\ host.phase = "idle" /\ ~host.susp =>
            d.state = IF host.addr = 0 THEN "default"
                      ELSE IF host.cfg = 0 THEN "address" ELSE "configured"
       /\ host.phase = "gone" => d.state = "notAttached"
       /\ d.state = "configured" => d.cls = "configured"
  /\ HaltReported
  /\ EndpointsInStep

\* mss_usbd_cep_rx_cb calls usbd_class_cep_rx_done when the data of the request
\* has arrived.
DesiredDataArrived == d.classGot # 0 => d.classGot = host.req.len

\* Every control transfer ends: it is answered, stalled, given up or reset.
TransferEnds == host.phase \in {"in", "out", "status"} ~> host.phase \in {"idle", "gone"}

===========================================================================
