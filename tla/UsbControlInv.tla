---------------------------- MODULE UsbControlInv ---------------------------
(***************************************************************************)
(* The inductive invariant of UsbControl: what stage of its transfer the   *)
(* endpoint is in, and how far the state, the address and the              *)
(* configuration of the device are behind what the host has done.          *)
(* Checked by TLC and proved in UsbControlProofs.                          *)
(***************************************************************************)
EXTENDS UsbControl

\* Of the descriptors, which are constants that TLC evaluates.
ASSUME DescriptorLengths ==
  \A class \in AllClasses, user, speed \in Speeds :
    /\ ConfDescriptor(class, user, speed).len \in Nat
    /\ OtherSpeedDescriptor(class, user, speed).len \in Nat

\* The requests have the form that chapter 9 gives them.
Regular ==
  \A r \in Requests :
    /\ r.in => r.len > 0
    /\ r.k = "address" => r.v \in 0..127
    /\ r.k = "setConfig" => r.v \in 0..255
    /\ r.k \in {"address", "setConfig", "setInterface", "halt", "clearHalt"} => r.len = 0
    /\ r.k \in {"status", "getConfig", "getInterface"} => r.in
    /\ r.k = "setDescriptor" => ~r.in
    /\ r.k = "status" => r.len = 2
    /\ r.k \in {"getConfig", "getInterface"} => r.len = 1

CepStates == {"idle", "setup", "rx", "tx"}
UsbEvents == {"reset", "suspend", "resume", "disconnect"}
InTransfer == host.phase \in {"in", "out", "status"}

Fields ==
  {"state", "saved", "addr", "cfg", "iface", "haltTx", "haltRx", "class", "user", "bus", "speed",
   "eps", "cls", "classGot", "delay", "cep", "buf", "len", "cnt", "txn", "got", "setup",
   "cepState", "rx", "tx", "dataEnd", "setupEnd", "sendStall", "sentStall", "stallTx",
   "stallRx", "faddr"}

---------------------------------------------------------------------------
(* The types.                                                              *)

Packet(p) == /\ p = [of |-> p.of, n |-> p.n, req |-> p.req]
             /\ p.n \in Nat /\ p.req \in Requests \union {NoReq}

States == AtLeastDefault \union {"notAttached"}

DriverTyped(c) ==
  /\ DOMAIN c = Fields
  /\ c.state \in States /\ c.saved \in States
  /\ c.addr \in 0..127 /\ c.faddr \in 0..127
  /\ c.class \in AllClasses /\ c.user \in Speeds /\ c.bus \in Speeds /\ c.speed \in Speeds
  /\ [class |-> c.class, user |-> c.user, bus |-> c.bus] \in Builds
  /\ c.cep \in CepStates /\ c.cepState \in {"idle", "rx", "tx"}
  /\ c.len \in Nat /\ c.cnt \in Nat /\ c.txn \in Nat /\ c.got \in Nat /\ c.classGot \in Nat
  /\ Packet(c.rx) /\ Packet(c.tx) /\ c.setup \in Requests \union {NoReq}
  /\ c.dataEnd \in BOOLEAN /\ c.setupEnd \in BOOLEAN /\ c.sendStall \in BOOLEAN
  /\ c.sentStall \in BOOLEAN /\ c.delay \in BOOLEAN
  /\ c.haltTx \in BOOLEAN /\ c.haltRx \in BOOLEAN
  /\ c.stallTx \in BOOLEAN /\ c.stallRx \in BOOLEAN

Typed ==
  /\ DriverTyped(d)
  /\ DOMAIN irq = {"ep0", "usb"} /\ DOMAIN count = {"bus", "aborts"}
  /\ DOMAIN host = {"phase", "req", "n", "of", "addr", "cfg", "susp"}
  /\ irq.ep0 \in BOOLEAN
  /\ \E e \in UsbEvents : irq.usb \subseteq {e, "reset"}
  /\ host.phase \in {"gone", "idle", "in", "out", "status"}
  /\ host.n \in Nat /\ host.susp \in BOOLEAN
  /\ host.addr \in 0..127 \union {Unknown} /\ host.cfg \in 0..255 \union {Unknown}

---------------------------------------------------------------------------
(* Endpoint 0.                                                             *)

\* It waits for a SETUP packet.
IsWaiting(c) == /\ c.cep = "idle" /\ c.cepState = "idle" /\ c.buf = "setup"
                /\ c.len = SetupSize /\ c.cnt = 0 /\ c.txn = SetupSize
Waiting == IsWaiting(d)

\* After a reset of the bus: all that is left in the driver will go.
Cleared == /\ d.faddr = 0 /\ d.rx = NoPkt /\ d.tx = NoPkt
           /\ ~d.setupEnd /\ ~d.sendStall /\ ~d.sentStall /\ ~d.delay

\* Between transfers: what one left half done, an interrupt is pending for; the last packet
\* of an answer may be in that state.
IdleInv ==
  /\ d.rx = NoPkt /\ d.tx = NoPkt /\ ~d.sendStall /\ ~(d.setupEnd /\ d.sentStall)
  /\ d.setupEnd \/ d.sentStall => irq.ep0 /\ ~d.delay
  /\ ~(d.setupEnd \/ d.sentStall) /\ ~d.delay =>
       Waiting \/ (d.cep = "tx" /\ d.cepState = "tx" /\ d.cnt >= d.len /\ irq.ep0)
  /\ d.delay => d.cepState = "idle"

\* The stages of a transfer.  The SETUP packet is in the FIFO.
ToAnswer ==
  /\ irq.ep0 /\ ~d.delay /\ Waiting
  /\ d.rx = [of |-> "host", n |-> SetupSize, req |-> host.req] /\ d.tx = NoPkt
  /\ ~d.dataEnd /\ ~d.sendStall
  /\ host.phase = FirstStage(host.req) /\ host.n = 0

\* The handler has asked for a STALL.
Refused ==
  /\ ~irq.ep0 /\ ~d.delay /\ d.sendStall /\ d.rx = NoPkt /\ d.tx = NoPkt /\ ~d.dataEnd

\* Done but for the status stage; of a request without data from the host, or of one with.
Ended ==
  /\ ~irq.ep0 /\ d.dataEnd /\ ~d.sendStall /\ d.rx = NoPkt /\ d.tx = NoPkt
  /\ ~host.req.in
  /\ IF d.delay THEN host.req.k = "address" /\ d.addr = host.req.v /\ host.phase = "status" /\ d.cepState = "idle"
     ELSE Waiting /\ host.req.k # "address" /\ host.phase \in {"out", "status"}
  /\ host.phase = "status" /\ host.req.len > 0 /\ host.req.k = "class" =>
       d.classGot = host.req.len

\* The answer leaves packet by packet: what the host has and what is in the FIFO are what
\* the driver has counted, and only the last packet is short.
Sending ==
  /\ d.cep = "tx" /\ d.cepState = "tx" /\ d.rx = NoPkt /\ ~d.sendStall /\ ~d.delay
  /\ host.req.in
  /\ d.cnt <= d.len /\ (d.dataEnd <=> d.cnt = d.len)
  /\ d.len = Least(Wanted(host.req).n, host.req.len) /\ (d.buf = "none" => d.len = 0)
  /\ DataOf(d.buf) = Wanted(host.req).of \/ (host.req.k = "status" /\ host.req.v # "device")
  /\ IF d.tx = NoPkt
     THEN /\ host.of = DataOf(d.buf) /\ host.n = d.cnt
          /\ (irq.ep0 <=> ~d.dataEnd)
          /\ d.dataEnd \/ host.phase = "in"
          /\ host.phase \in {"in", "status"}
     ELSE /\ d.tx = [of |-> DataOf(d.buf), n |-> d.tx.n, req |-> NoReq]
          /\ host.n + d.tx.n = d.cnt /\ d.tx.n <= MaxPkt
          /\ d.dataEnd \/ d.tx.n = MaxPkt
          /\ host.phase = "in" /\ ~irq.ep0

\* The data of the host arrives: for the class, all of it or the second packet; for a
\* request that takes none, nowhere.
Receiving ==
  /\ d.cep = "rx" /\ d.cepState = "rx" /\ d.tx = NoPkt /\ ~d.dataEnd /\ ~d.sendStall
  /\ ~d.delay /\ ~host.req.in /\ host.req.len > 0 /\ d.cnt = 0
  /\ host.n <= host.req.len
  /\ host.phase = IF host.n = host.req.len THEN "status" ELSE "out"
  /\ (irq.ep0 <=> d.rx # NoPkt)
  /\ IF d.buf = "class"
     THEN /\ \/ d.got = 0 /\ d.len = host.req.len
             \/ d.got = MaxPkt /\ host.req.len > MaxPkt
                /\ d.len = Least(host.req.len - MaxPkt, MaxPkt)
          /\ IF d.rx = NoPkt THEN host.n = d.got
             ELSE d.rx.n = Least(host.req.len - d.got, MaxPkt) /\ host.n = d.got + d.rx.n
     ELSE /\ d.buf = "none" /\ d.len = 0 /\ host.req.k # "class"
          /\ d.rx = NoPkt => host.n = 0

CepInv ==
  /\ "reset" \in irq.usb => host.phase = "idle" /\ Cleared
  /\ host.phase = "idle" /\ "reset" \notin irq.usb => IdleInv
  /\ InTransfer =>
       /\ ~d.sentStall /\ ~d.setupEnd
       /\ host.req \in Requests /\ Legal(host.req) /\ ~host.susp /\ irq.usb = {}
       /\ ToAnswer \/ Refused \/ Ended \/ Sending \/ Receiving

---------------------------------------------------------------------------
(* The state of the device.                                                *)

\* The driver when the events of the bus have been served.
Served == BusIrq(d, irq.usb)
Level == IF host.susp THEN Served.saved ELSE Served.state
\* The driver has answered a request that the host has not seen to its end.
AddressTaken == host.phase = "status" /\ host.req.k = "address" /\ d.dataEnd
ConfigTaken == host.phase = "status" /\ host.req.k = "setConfig" /\ d.dataEnd

\* The events of the bus that are pending are those of the host's last steps.
EventInv ==
  /\ "reset" \in irq.usb => host.addr = 0 /\ host.cfg = 0 /\ ~host.susp
  /\ host.susp => Served.state = "suspended" /\ host.phase = "idle"
  /\ "suspend" \in irq.usb /\ "reset" \notin irq.usb => host.susp
  /\ "resume" \in irq.usb /\ "reset" \notin irq.usb => d.state = "suspended" /\ host.phase = "idle" /\ ~host.susp
  /\ "disconnect" \in irq.usb /\ "reset" \notin irq.usb => host.phase = "gone"
  /\ host.phase = "gone" => Served.state = "notAttached" /\ ~host.susp

\* The address is written to the core after the status stage, by the handler of its interrupt:
\* until then the host and the driver differ by it.
AddressInv ==
  host.phase # "gone" =>
    /\ ~d.delay => host.addr \in {d.faddr, Unknown}
    /\ d.delay => host.phase \in {"status", "idle"}
    /\ d.delay /\ host.phase = "idle" => host.addr \in {d.addr, Unknown}
    /\ InTransfer => host.addr = d.faddr

\* Default, addressed or configured, as the host has made it.
LevelInv ==
  host.phase # "gone" =>
    /\ Served.speed = Served.bus
    /\ host.addr = 0 =>
         /\ host.cfg = 0
         /\ Level = IF AddressTaken /\ host.req.v # 0 THEN "address" ELSE "default"
    /\ host.addr = Unknown => host.cfg = 0 /\ Level \in {"default", "address"}
    /\ host.addr \notin {0, Unknown} =>
         IF ConfigTaken
         THEN /\ Level = IF host.req.v = 0 THEN "address" ELSE "configured"
              /\ d.cfg = host.req.v
         ELSE CASE host.cfg = Unknown -> Level \in {"address", "configured"}
                [] host.cfg = 0 -> Level = IF AddressTaken /\ host.req.v = 0
                                           THEN "default" ELSE "address"
                [] OTHER -> Level = "configured" /\ d.cfg = host.cfg

---------------------------------------------------------------------------
(* The endpoints.                                                          *)

ClassConfigs(class, speed) ==
  CASE class = "hid" -> HidConfigs [] class = "cdc" -> CdcConfigs
    [] class = "printer" -> PrinterConfigs [] class = "vendor" -> VendorConfigs[speed]
    [] class = "msc" -> MscConfigs[speed]
\* What SET_CONFIGURATION makes of the endpoints the application configured: those of the class
\* that pass the tests take their place.
Given(class, speed) ==
  LET configs == ClassConfigs(class, speed)
  IN Replaces(Replaces(AppConfigs(class),
                       {e \in configs : e.dir = "tx" /\ TxAccepted(speed, e)}),
              {e \in configs : e.dir = "rx" /\ RxAccepted(speed, e)})

\* The class configures both directions of endpoint 1, and a build's endpoints agree with what
\* it tells the host.  The only build that does not fit is a printer on a bus at full speed.
Fits(b) ==
  LET configs == ClassConfigs(b.class, b.bus)
      given == Given(b.class, b.bus)
      conf == ConfDescriptor(b.class, b.user, b.bus)
  IN /\ b.class # "hid" =>
          /\ \E e \in configs : e.num = 1 /\ e.dir = "tx" /\ TxAccepted(b.bus, e)
          /\ \E e \in configs : e.num = 1 /\ e.dir = "rx" /\ RxAccepted(b.bus, e)
     /\ Cardinality(given) = Cardinality(EpsOf(conf))
     /\ b.class # "vendor" \/ b.bus = "fs" => AsDescribed(given, conf)
     /\ b.class \notin {"hid", "printer"} => Apart(given)

ConfigInv ==
  /\ d.eps \in {AppConfigs(d.class), Given(d.class, d.bus)}
  /\ host.phase # "gone" /\ Level = "configured" =>
       /\ Served.cls = "configured"
       /\ d.eps = Given(d.class, d.bus)
       /\ d.class # "hid" => d.haltTx = d.stallTx /\ d.haltRx = d.stallRx

---------------------------------------------------------------------------
(* Endpoint 0 and the device, of every build; with the endpoints, of builds *)
(* that fit.                                                               *)

Core == Typed /\ CepInv /\ EventInv /\ AddressInv /\ LevelInv
AllFit == \A b \in Builds : Fits(b)
===========================================================================
