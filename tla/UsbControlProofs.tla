-------------------------- MODULE UsbControlProofs -------------------------
(***************************************************************************)
(* Endpoint 0 of the USB device: the answer is right, the endpoint ready,  *)
(* and the device in step with the host, for every build, packet size and  *)
(* set of requests, and any number of bus events and of transfers given    *)
(* up.                                                                     *)
(*                                                                         *)
(* A state of the driver is a record of thirty fields.  So the functions   *)
(* of the driver are first described by what they change and what they     *)
(* leave alone (Keeps); then each step of the host, the bus and the        *)
(* interrupt handler is proved from those descriptions alone.              *)
(***************************************************************************)
EXTENDS UsbControlInv, TLAPS
USE UsbControlAssumption
USE DEF Fields

\* What a function of the driver's record leaves alone.
Keeps(c, r, changed) == DOMAIN r = Fields /\ \A f \in Fields \ changed : r[f] = c[f]

LEMMA KeepsTwice ==
  ASSUME NEW c, NEW r, NEW s, NEW A, NEW B, Keeps(c, r, A), Keeps(r, s, B)
  PROVE  Keeps(c, s, A \union B)
  BY DEF Keeps

---------------------------------------------------------------------------
(* What the functions of endpoint 0 do to the driver.                       *)

LEMMA ReadPrepareDoes ==
  ASSUME NEW c, DOMAIN c = Fields, NEW buf, NEW len
  PROVE  LET r == ReadPrepare(c, buf, len)
         IN /\ Keeps(c, r, {"buf", "len", "cnt", "txn", "cepState"})
            /\ r.buf = buf /\ r.len = len /\ r.cnt = 0 /\ r.txn = Least(len, MaxPkt)
            /\ r.cepState = IF c.cep = "idle" THEN "idle"
                            ELSE IF c.cep \in {"setup", "rx"} THEN "rx" ELSE c.cepState
  BY DEF ReadPrepare, Keeps

\* mss_usbd_cep_rx_prepare for the next SETUP packet.
RearmChanges == {"setup", "cep", "buf", "len", "cnt", "txn", "cepState"}
LEMMA RearmDoes ==
  ASSUME NEW c, DOMAIN c = Fields
  PROVE  LET r == Rearm(c)
         IN Keeps(c, r, RearmChanges) /\ IsWaiting(r) /\ r.setup = NoReq
<1> DEFINE m == [c EXCEPT !.setup = NoReq, !.cep = "idle"]
<1>1. /\ DOMAIN m = Fields /\ m.cep = "idle" /\ m.setup = NoReq
      /\ \A f \in Fields \ {"setup", "cep"} : m[f] = c[f]
  OBVIOUS
<1>2. Rearm(c) = ReadPrepare(m, "setup", SetupSize) BY DEF Rearm
<1>3. Least(SetupSize, MaxPkt) = SetupSize BY DEF Least, SetupSize
<1> HIDE DEF m
<1> QED BY <1>1, <1>2, <1>3, ReadPrepareDoes DEF Keeps, IsWaiting, RearmChanges

LEMMA RefuseDoes ==
  ASSUME NEW c, DOMAIN c = Fields
  PROVE  LET r == Refuse(c)
         IN /\ Keeps(c, r, {"cep", "setup", "sendStall", "rx"})
            /\ r.cep = "idle" /\ r.setup = NoReq /\ r.sendStall = TRUE /\ r.rx = NoPkt
  BY DEF Refuse, CepStall, Keeps

\* A packet is read as a SETUP, as data, or not at all.
LEMMA ReadPktDoes ==
  ASSUME NEW c, DOMAIN c = Fields, c.cnt \in Nat, c.got \in Nat, c.rx.n \in Nat
  PROVE  LET r == ReadPkt(c)
         IN /\ Keeps(c, r, {"cnt", "setup", "got"})
            /\ c.buf = "none" => r = c
            /\ c.buf = "setup" => r.cnt = c.cnt + c.rx.n /\ r.setup = c.rx.req /\ r.got = 0
            /\ c.buf \notin {"none", "setup"} =>
                 r.cnt = c.cnt + c.rx.n /\ r.setup = c.setup /\ r.got = c.got + c.rx.n
            /\ r.cnt \in Nat /\ r.got \in Nat /\ r.setup \in {c.setup, c.rx.req}
<1>1. CASE c.buf = "none" BY <1>1 DEF ReadPkt, Keeps
<1>2. CASE c.buf = "setup"
  <2>1. ReadPkt(c) = [c EXCEPT !.cnt = @ + c.rx.n, !.setup = c.rx.req, !.got = 0]
    BY <1>2 DEF ReadPkt
  <2> HIDE DEF ReadPkt
  <2>2. Keeps(c, ReadPkt(c), {"cnt", "setup", "got"}) BY <2>1 DEF Keeps
  <2>3. ReadPkt(c).cnt = c.cnt + c.rx.n /\ ReadPkt(c).setup = c.rx.req /\ ReadPkt(c).got = 0
    BY <2>1
  <2> QED BY <1>2, <2>2, <2>3
<1>3. CASE c.buf \notin {"none", "setup"}
  <2>1. ReadPkt(c) = [c EXCEPT !.cnt = @ + c.rx.n, !.setup = @, !.got = @ + c.rx.n]
    BY <1>3 DEF ReadPkt
  <2> HIDE DEF ReadPkt
  <2>2. Keeps(c, ReadPkt(c), {"cnt", "setup", "got"}) BY <2>1 DEF Keeps
  <2>3. ReadPkt(c).cnt = c.cnt + c.rx.n /\ ReadPkt(c).setup = c.setup /\ ReadPkt(c).got = c.got + c.rx.n
    BY <2>1
  <2> QED BY <1>3, <2>2, <2>3
<1> QED BY <1>1, <1>2, <1>3

LEMMA PacketIs ==
  ASSUME NEW buf, NEW n
  PROVE  [NoPkt EXCEPT !.of = buf, !.n = n] = [of |-> buf, n |-> n, req |-> NoReq]
<1> DEFINE p == [of |-> buf, n |-> n, req |-> NoReq]
           q == [NoPkt EXCEPT !.of = buf, !.n = n]
<1>1. DOMAIN NoPkt = {"of", "n", "req"} /\ NoPkt.req = NoReq BY DEF NoPkt
<1>2. q = [f \in {"of", "n", "req"} |-> q[f]] /\ q.of = buf /\ q.n = n /\ q.req = NoReq BY <1>1
<1>3. p = [f \in {"of", "n", "req"} |-> p[f]] /\ p.of = buf /\ p.n = n /\ p.req = NoReq OBVIOUS
<1> HIDE DEF p, q
<1>4. \A f \in {"of", "n", "req"} : p[f] = q[f] BY <1>2, <1>3
<1>5. [f \in {"of", "n", "req"} |-> p[f]] = [f \in {"of", "n", "req"} |-> q[f]] BY <1>4
<1>6. p = q BY <1>2, <1>3, <1>5, Zenon
<1> QED BY <1>6, Zenon DEF p, q

LEMMA DataOfIs ==
  ASSUME NEW buf
  PROVE  DataOf(buf) # "none" /\ (buf # "none" => DataOf(buf) = buf)
  BY DEF DataOf

LEMMA WritePktDoes ==
  ASSUME NEW c, DOMAIN c = Fields, c.cep = "tx", c.cnt \in Nat, c.txn \in Nat
  PROVE  LET r == WritePkt(c)
             n == IF c.buf = "none" THEN 0 ELSE c.txn
         IN /\ Keeps(c, r, {"tx", "cnt", "cepState", "dataEnd"})
            /\ r.tx = [of |-> DataOf(c.buf), n |-> n, req |-> NoReq] /\ r.cnt = c.cnt + n
            /\ r.cepState = "tx" /\ r.dataEnd = (c.cnt + n >= c.len)
<1> DEFINE n == IF c.buf = "none" THEN 0 ELSE c.txn
           t == [NoPkt EXCEPT !.of = DataOf(c.buf), !.n = n]
<1>1. WritePkt(c) = [c EXCEPT !.tx = t, !.cnt = @ + n,
                              !.cepState = IF c.cep = "tx" THEN "tx" ELSE @,
                              !.dataEnd = c.cnt + n >= c.len]
  BY DEF WritePkt
<1> HIDE DEF n
<1>2. t = [of |-> DataOf(c.buf), n |-> n, req |-> NoReq] BY PacketIs
<1> HIDE DEF t
<1>3. /\ Keeps(c, WritePkt(c), {"tx", "cnt", "cepState", "dataEnd"})
      /\ WritePkt(c).tx = t /\ WritePkt(c).cnt = c.cnt + n
      /\ WritePkt(c).cepState = "tx" /\ WritePkt(c).dataEnd = (c.cnt + n >= c.len)
  BY <1>1 DEF Keeps
<1> QED BY <1>2, <1>3 DEF n

LEMMA CepWriteDoes ==
  ASSUME NEW c, DOMAIN c = Fields, c.cep = "tx", NEW buf, NEW len \in Nat
  PROVE  LET r == CepWrite(c, buf, len)
             n == IF buf = "none" THEN 0 ELSE Least(len, MaxPkt)
         IN /\ Keeps(c, r, {"buf", "len", "txn", "tx", "cnt", "cepState", "dataEnd"})
            /\ r.buf = buf /\ r.len = len /\ r.txn = Least(len, MaxPkt)
            /\ r.tx = [of |-> DataOf(buf), n |-> n, req |-> NoReq] /\ r.cnt = n
            /\ r.cepState = "tx" /\ r.dataEnd = (n >= len)
<1> DEFINE m == [c EXCEPT !.buf = buf, !.len = len, !.cnt = 0, !.txn = Least(len, MaxPkt)]
<1>1. /\ DOMAIN m = Fields /\ m.cep = "tx" /\ m.buf = buf /\ m.len = len /\ m.cnt = 0
      /\ m.txn = Least(len, MaxPkt)
      /\ \A f \in Fields \ {"buf", "len", "cnt", "txn"} : m[f] = c[f]
  OBVIOUS
<1>2. Least(len, MaxPkt) \in Nat BY DEF Least
<1>3. CepWrite(c, buf, len) = WritePkt(m) BY DEF CepWrite
<1> HIDE DEF m
<1> DEFINE n == IF buf = "none" THEN 0 ELSE Least(len, MaxPkt)
<1>4. m.cnt \in Nat /\ m.txn \in Nat BY <1>1, <1>2
<1>5. (IF m.buf = "none" THEN 0 ELSE m.txn) = n BY <1>1
<1>6. n \in Nat BY <1>2
<1> HIDE DEF n
<1>7. /\ Keeps(m, WritePkt(m), {"tx", "cnt", "cepState", "dataEnd"})
      /\ WritePkt(m).tx = [of |-> DataOf(m.buf), n |-> n, req |-> NoReq] /\ WritePkt(m).cnt = m.cnt + n
      /\ WritePkt(m).cepState = "tx" /\ WritePkt(m).dataEnd = (m.cnt + n >= m.len)
  BY <1>1, <1>4, <1>5, WritePktDoes, Zenon
<1>8. m.cnt + n = n BY <1>1, <1>6
<1>9. /\ WritePkt(m).tx = [of |-> DataOf(buf), n |-> n, req |-> NoReq] /\ WritePkt(m).cnt = n
      /\ WritePkt(m).cepState = "tx" /\ WritePkt(m).dataEnd = (n >= len)
  BY <1>1, <1>7, <1>8, Zenon
<1>10. /\ Keeps(c, WritePkt(m), {"buf", "len", "txn", "tx", "cnt", "cepState", "dataEnd"})
       /\ WritePkt(m).buf = buf /\ WritePkt(m).len = len /\ WritePkt(m).txn = Least(len, MaxPkt)
  BY <1>1, <1>7 DEF Keeps
<1> QED BY <1>3, <1>9, <1>10, Zenon DEF n

---------------------------------------------------------------------------
(* What a request does to the driver, and what it is answered.              *)

LEMMA TakeIs ==
  ASSUME NEW c, NEW buf, NEW len
  PROVE  /\ Take(c, buf, len).ok \in BOOLEAN /\ Take(c, buf, len).ok /\ Take(c, buf, len).buf = buf
         /\ Take(c, buf, len).len = len /\ Take(c, buf, len).d = c
  BY DEF Take
LEMMA DoneIs ==
  ASSUME NEW c
  PROVE  Done(c).ok \in BOOLEAN /\ Done(c).ok /\ Done(c).buf = "none" /\ Done(c).len = 0 /\ Done(c).d = c
  BY DEF Done, Take
LEMMA FailIs ==
  ASSUME NEW c
  PROVE  Fail(c).ok \in BOOLEAN /\ ~Fail(c).ok /\ Fail(c).buf = "none" /\ Fail(c).len = 0 /\ Fail(c).d = c
  BY DEF Fail, Done, Take

\* The endpoints of a direction that a configuration replaces; do they spare endpoint 1?
TxNew(configs, speed) == {e \in configs : e.dir = "tx" /\ TxAccepted(speed, e)}
RxNew(configs, speed) == {e \in configs : e.dir = "rx" /\ RxAccepted(speed, e)}
Spares(es) == \A e \in es : e.num # 1

EpChanges == {"eps", "haltTx", "haltRx", "stallTx", "stallRx", "cls"}

\* MSS_USBD_tx_ep_configure and MSS_USBD_rx_ep_configure, called one after the other.
LEMMA TxConfiguredDoes ==
  ASSUME NEW c, DOMAIN c = Fields, NEW configs
  PROVE  LET es == TxNew(configs, c.speed)
             r == TxConfigured(c, configs)
         IN /\ Keeps(c, r, {"eps", "haltTx", "stallTx"})
            /\ r.eps = Replaces(c.eps, es)
            /\ r.haltTx = (c.haltTx /\ Spares(es))
            /\ r.stallTx = (c.stallTx /\ Spares(es))
<1> DEFINE es == TxNew(configs, c.speed)
           kept == Spares(es)
           rest == Replaces(c.eps, es)
<1>1. TxConfigured(c, configs)
        = [[c EXCEPT !.eps = rest, !.haltTx = c.haltTx /\ kept] EXCEPT !.stallTx = c.stallTx /\ kept]
  BY DEF TxConfigured, TxRegisters, TxNew, Spares
<1> HIDE DEF es, kept, rest
<1>2. /\ Keeps(c, TxConfigured(c, configs), {"eps", "haltTx", "stallTx"})
      /\ TxConfigured(c, configs).eps = rest
      /\ TxConfigured(c, configs).haltTx = (c.haltTx /\ kept)
      /\ TxConfigured(c, configs).stallTx = (c.stallTx /\ kept)
  BY <1>1 DEF Keeps
<1> QED BY <1>2, Zenon DEF es, kept, rest

LEMMA RxConfiguredDoes ==
  ASSUME NEW c, DOMAIN c = Fields, NEW configs
  PROVE  LET es == RxNew(configs, c.speed)
             r == RxConfigured(c, configs)
         IN /\ Keeps(c, r, {"eps", "haltRx", "stallRx"})
            /\ r.eps = Replaces(c.eps, es)
            /\ r.haltRx = (c.haltRx /\ Spares(es))
            /\ r.stallRx = (c.stallRx /\ Spares(es))
<1> DEFINE es == RxNew(configs, c.speed)
           kept == Spares(es)
           rest == Replaces(c.eps, es)
<1>1. RxConfigured(c, configs)
        = [[c EXCEPT !.eps = rest, !.haltRx = c.haltRx /\ kept] EXCEPT !.stallRx = c.stallRx /\ kept]
  BY DEF RxConfigured, RxRegisters, RxNew, Spares
<1> HIDE DEF es, kept, rest
<1>2. /\ Keeps(c, RxConfigured(c, configs), {"eps", "haltRx", "stallRx"})
      /\ RxConfigured(c, configs).eps = rest
      /\ RxConfigured(c, configs).haltRx = (c.haltRx /\ kept)
      /\ RxConfigured(c, configs).stallRx = (c.stallRx /\ kept)
  BY <1>1 DEF Keeps
<1> QED BY <1>2, Zenon DEF es, kept, rest

\* An init callback configures the endpoints of its class.
LEMMA ClassInitIs ==
  ASSUME NEW c, c.class \in AllClasses
  PROVE  ClassInit(c) = WithEndpoints(c, ClassConfigs(c.class, c.speed))
  BY DEF AllClasses, ClassInit, ClassConfigs, HidInit, CdcInit, PrinterInit, VendorInit, MscInit

LEMMA ClassInitDoes ==
  ASSUME NEW c, DOMAIN c = Fields, c.class \in AllClasses
  PROVE  LET configs == ClassConfigs(c.class, c.speed)
             tx == TxNew(configs, c.speed)
             rx == RxNew(configs, c.speed)
             r == ClassInit(c)
         IN /\ Keeps(c, r, EpChanges)
            /\ r.cls = "configured" /\ r.eps = Replaces(Replaces(c.eps, tx), rx)
            /\ r.haltTx = (c.haltTx /\ Spares(tx)) /\ r.stallTx = (c.stallTx /\ Spares(tx))
            /\ r.haltRx = (c.haltRx /\ Spares(rx)) /\ r.stallRx = (c.stallRx /\ Spares(rx))
<1> DEFINE configs == ClassConfigs(c.class, c.speed)
           m == TxConfigured(c, configs)
           n == RxConfigured(m, configs)
<1>1. ClassInit(c) = [n EXCEPT !.cls = "configured"] BY ClassInitIs DEF WithEndpoints
<1> HIDE DEF configs
<1>2. Keeps(c, m, {"eps", "haltTx", "stallTx"}) BY TxConfiguredDoes
<1>3. DOMAIN m = Fields /\ m.speed = c.speed BY <1>2 DEF Keeps
<1>4. Keeps(m, n, {"eps", "haltRx", "stallRx"}) BY <1>3, RxConfiguredDoes
<1>5. /\ m.eps = Replaces(c.eps, TxNew(configs, c.speed))
      /\ m.haltTx = (c.haltTx /\ Spares(TxNew(configs, c.speed)))
      /\ m.stallTx = (c.stallTx /\ Spares(TxNew(configs, c.speed)))
  BY TxConfiguredDoes
<1>6. /\ n.eps = Replaces(m.eps, RxNew(configs, c.speed))
      /\ n.haltRx = (m.haltRx /\ Spares(RxNew(configs, c.speed)))
      /\ n.stallRx = (m.stallRx /\ Spares(RxNew(configs, c.speed)))
  BY <1>3, RxConfiguredDoes
<1> HIDE DEF m, n
<1>7. /\ Keeps(c, ClassInit(c), EpChanges) /\ ClassInit(c).cls = "configured"
      /\ ClassInit(c).eps = n.eps /\ ClassInit(c).haltTx = m.haltTx /\ ClassInit(c).stallTx = m.stallTx
      /\ ClassInit(c).haltRx = n.haltRx /\ ClassInit(c).stallRx = n.stallRx
      /\ m.haltRx = c.haltRx /\ m.stallRx = c.stallRx
  BY <1>1, <1>2, <1>4 DEF Keeps, EpChanges
<1> QED BY <1>5, <1>6, <1>7, Zenon DEF configs

LEMMA ClassReleaseDoes ==
  ASSUME NEW c, DOMAIN c = Fields, c.class \in AllClasses
  PROVE  LET r == ClassRelease(c)
         IN /\ Keeps(c, r, {"cls", "stallTx", "stallRx"})
            /\ r.stallTx \in {c.stallTx, FALSE} /\ r.stallRx \in {c.stallRx, FALSE}
<1>1. ClassRelease(c) \in {c, [c EXCEPT !.cls = "none"],
                           [c EXCEPT !.cls = "none", !.stallTx = FALSE, !.stallRx = FALSE]}
  BY DEF AllClasses, ClassRelease, HidRelease, CdcRelease, PrinterRelease, MscRelease
<1> QED BY <1>1 DEF Keeps

\* Every request but SET_ADDRESS and SET_CONFIGURATION leaves the state, the
\* configuration and the endpoints; a halt is set and cleared in both places.
HaltChanges == {"iface", "haltTx", "haltRx", "stallTx", "stallRx"}
Alike(c) == c.haltTx = c.stallTx /\ c.haltRx = c.stallRx

LEMMA ClassRequestIs ==
  ASSUME NEW c, c.class \in AllClasses, c.setup.len \in Nat
  PROVE  LET a == ClassRequest(c)
         IN /\ a.ok \in BOOLEAN /\ a.d = c
            /\ a.ok => \/ a.buf = "none" /\ a.len = 0 /\ c.setup.len = 0
                       \/ a.buf = "class" /\ (a.len = IF c.class = "msc" THEN 1 ELSE c.setup.len)
                          /\ (c.class = "msc" => c.setup.in)
<1>1. ClassRequest(c) \in {Fail(c), Done(c), Take(c, "class", c.setup.len), Take(c, "class", 1)}
  BY DEF AllClasses, ClassRequest, HidRequest, CdcRequest, PrinterRequest, VendorRequest,
         MscRequest, Asked
<1>2. CASE ClassRequest(c) = Fail(c) BY <1>2, FailIs
<1>3. CASE ClassRequest(c) = Done(c) /\ c.setup.len = 0 BY <1>3, DoneIs
<1>4. CASE ClassRequest(c) = Take(c, "class", c.setup.len) /\ c.class # "msc" BY <1>4, TakeIs
<1>5. CASE ClassRequest(c) = Take(c, "class", 1) /\ c.class = "msc" /\ c.setup.in BY <1>5, TakeIs
<1>6. \/ ClassRequest(c) = Fail(c)
      \/ ClassRequest(c) = Done(c) /\ c.setup.len = 0
      \/ ClassRequest(c) = Take(c, "class", c.setup.len) /\ c.class # "msc"
      \/ ClassRequest(c) = Take(c, "class", 1) /\ c.class = "msc" /\ c.setup.in
  BY DEF AllClasses, ClassRequest, HidRequest, CdcRequest, PrinterRequest, VendorRequest,
         MscRequest, Asked
<1> QED BY <1>2, <1>3, <1>4, <1>5, <1>6

LEMMA DescriptorLengthIs ==
  ASSUME NEW c, c.class \in AllClasses, c.user \in Speeds, c.speed \in Speeds, NEW v
  PROVE  DescriptorLength(c, v) \in Nat
<1>1. /\ ConfDescriptor(c.class, c.user, c.speed).len \in Nat
      /\ OtherSpeedDescriptor(c.class, c.user, c.speed).len \in Nat
  BY DescriptorLengths
<1>2. DeviceDescriptor(v) \in Nat /\ StringDescriptor(v) \in Nat /\ ReportDescriptor(c.class) \in Nat
  BY DEF DeviceDescriptor, StringDescriptor, ReportDescriptor
<1> QED BY <1>1, <1>2 DEF DescriptorLength

LEMMA OtherRequestDoes ==
  ASSUME NEW c, DOMAIN c = Fields, c.class \in AllClasses, c.setup.len \in Nat,
         c.user \in Speeds, c.speed \in Speeds, c.setup.k \notin {"address", "setConfig"}
  PROVE  LET a == Answer(c)
         IN /\ a.ok \in BOOLEAN /\ a.len \in Nat
            /\ Keeps(c, a.d, HaltChanges)
            /\ Alike(c) => Alike(a.d)
            /\ a.d.haltTx \in {c.haltTx, TRUE, FALSE} /\ a.d.haltRx \in {c.haltRx, TRUE, FALSE}
            /\ a.d.stallTx \in {c.stallTx, TRUE, FALSE} /\ a.d.stallRx \in {c.stallRx, TRUE, FALSE}
<1> DEFINE Changed == {c, [c EXCEPT !.iface = c.setup.v],
                       [c EXCEPT !.haltTx = TRUE, !.stallTx = TRUE],
                       [c EXCEPT !.haltRx = TRUE, !.stallRx = TRUE],
                       [c EXCEPT !.haltTx = FALSE, !.stallTx = FALSE],
                       [c EXCEPT !.haltRx = FALSE, !.stallRx = FALSE]}
<1>1. ASSUME NEW e \in Changed
      PROVE  /\ Keeps(c, e, HaltChanges) /\ (Alike(c) => Alike(e))
             /\ e.haltTx \in {c.haltTx, TRUE, FALSE} /\ e.haltRx \in {c.haltRx, TRUE, FALSE}
             /\ e.stallTx \in {c.stallTx, TRUE, FALSE} /\ e.stallRx \in {c.stallRx, TRUE, FALSE}
  <2>1. CASE e = c BY <2>1 DEF Keeps
  <2>2. CASE e = [c EXCEPT !.iface = c.setup.v] BY <2>2 DEF Keeps, HaltChanges, Alike
  <2>3. CASE e = [c EXCEPT !.haltTx = TRUE, !.stallTx = TRUE] BY <2>3 DEF Keeps, HaltChanges, Alike
  <2>4. CASE e = [c EXCEPT !.haltRx = TRUE, !.stallRx = TRUE] BY <2>4 DEF Keeps, HaltChanges, Alike
  <2>5. CASE e = [c EXCEPT !.haltTx = FALSE, !.stallTx = FALSE] BY <2>5 DEF Keeps, HaltChanges, Alike
  <2>6. CASE e = [c EXCEPT !.haltRx = FALSE, !.stallRx = FALSE] BY <2>6 DEF Keeps, HaltChanges, Alike
  <2> QED BY <2>1, <2>2, <2>3, <2>4, <2>5, <2>6
<1> DEFINE Sound(a) == a.ok \in BOOLEAN /\ a.len \in Nat /\ a.d \in Changed
<1>2. Sound(Answer(c))
  <2>1. c \in Changed OBVIOUS
  <2>2. ASSUME NEW e \in Changed PROVE Sound(Done(e)) BY <2>2, DoneIs
  <2>3. Sound(Fail(c)) BY <2>1, FailIs
  <2>4. ASSUME NEW buf, NEW len \in Nat PROVE Sound(Take(c, buf, len)) BY <2>1, <2>4, TakeIs
  <2>5. CASE c.setup.k = "descriptor"
    BY <2>5, <2>3, <2>4, DescriptorLengthIs DEF Answer, GetDescriptor
  <2>6. CASE c.setup.k = "class"
    <3>1. Answer(c) = ClassRequest(c) BY <2>6 DEF Answer
    <3>2. ClassRequest(c) \in {Fail(c), Done(c), Take(c, "class", c.setup.len), Take(c, "class", 1)}
      BY DEF AllClasses, ClassRequest, HidRequest, CdcRequest, PrinterRequest, VendorRequest,
             MscRequest, Asked
    <3> QED BY <3>1, <3>2, <2>1, <2>2, <2>3, <2>4
  <2>7. CASE c.setup.k = "halt"
    <3>1. Answer(c) \in {Fail(c), Done([c EXCEPT !.haltTx = TRUE, !.stallTx = TRUE]),
                         Done([c EXCEPT !.haltRx = TRUE, !.stallRx = TRUE])}
      BY <2>7 DEF Answer, Halt
    <3> QED BY <3>1, <2>2, <2>3
  <2>8. CASE c.setup.k = "clearHalt"
    <3>1. Answer(c) \in {Fail(c), Done([c EXCEPT !.haltTx = FALSE, !.stallTx = FALSE]),
                         Done([c EXCEPT !.haltRx = FALSE, !.stallRx = FALSE])}
      BY <2>8 DEF Answer, ClearHalt
    <3> QED BY <3>1, <2>2, <2>3
  <2>9. CASE c.setup.k = "setInterface"
    <3>1. Answer(c) = Done([c EXCEPT !.iface = c.setup.v]) BY <2>9 DEF Answer
    <3> QED BY <3>1, <2>2
  <2>10. CASE c.setup.k \in {"getConfig", "getInterface"}
    BY <2>10, <2>1, <2>2, <2>4 DEF Answer, GetConfig
  <2>11. CASE c.setup.k = "status"
    BY <2>11, <2>1, <2>2, <2>4 DEF Answer, GetStatus
  <2>12. CASE c.setup.k = "setDescriptor" BY <2>12, <2>1, <2>2 DEF Answer
  <2>13. CASE c.setup.k \notin {"descriptor", "class", "halt", "clearHalt", "setInterface",
                                "getConfig", "getInterface", "status", "setDescriptor"}
    BY <2>13, <2>3 DEF Answer
  <2> QED BY <2>5, <2>6, <2>7, <2>8, <2>9, <2>10, <2>11, <2>12, <2>13
<1> QED BY <1>1, <1>2

\* What is answered, of a request the host may make.
LEMMA AnswerIs ==
  ASSUME Regular, NEW c, DOMAIN c = Fields, c.class \in AllClasses, c.setup \in Requests,
         c.user \in Speeds, c.speed \in Speeds
  PROVE  LET a == Answer(c)
             r == c.setup
         IN /\ a.ok /\ r.in =>
                 \/ r.k = "status" /\ c.state \notin {"address", "configured"}
                 \/ r.k = "descriptor" /\ a.buf = DescriptorBuffer(c, r.v)
                    /\ a.len = DescriptorLength(c, r.v)
                 \/ r.k = "getConfig" /\ a.len = 1 /\ a.buf = IF c.cfg = 0 THEN "cfg0" ELSE "cfg1"
                 \/ r.k = "getInterface" /\ a.buf = "iface" /\ a.len = 1
                 \/ r.k = "status" /\ r.v = "device" /\ a.buf = "self" /\ a.len = 2
                 \/ r.k = "status" /\ r.v # "device" /\ a.len = 2 /\ a.buf # "none"
                 \/ r.k = "class" /\ a.buf = "class"
                    /\ a.len = IF c.class = "msc" THEN 1 ELSE r.len
            /\ a.ok /\ ~r.in /\ r.len > 0 =>
                 \/ r.k # "class" /\ a.buf = "none" /\ a.len = 0
                 \/ r.k = "class" /\ a.buf = "class" /\ a.len = r.len
<1> DEFINE r == c.setup
<1>1. r.len \in Nat /\ r.in \in BOOLEAN /\ (r.in => r.len > 0) BY DEF Regular
<1>2. CASE r.k = "descriptor"
  <2>1. \/ Answer(c) = Fail(c)
        \/ r.in /\ Answer(c) = Take(c, DescriptorBuffer(c, r.v), DescriptorLength(c, r.v))
    BY <1>2 DEF Answer, GetDescriptor
  <2> QED BY <1>1, <1>2, <2>1, FailIs, TakeIs
<1>3. CASE r.k = "class"
  <2>1. Answer(c) = ClassRequest(c) BY <1>3 DEF Answer
  <2> QED BY <1>1, <1>3, <2>1, ClassRequestIs
<1>4. CASE r.k = "getConfig"
  <2>1. r.len = 1 /\ r.in BY <1>4 DEF Regular
  <2>2. Answer(c) = Take(c, IF c.cfg = 0 THEN "cfg0" ELSE "cfg1", 1) BY <1>4, <2>1 DEF Answer, GetConfig
  <2> QED BY <1>4, <2>1, <2>2, TakeIs
<1>5. CASE r.k = "getInterface"
  <2>1. r.in BY <1>5 DEF Regular
  <2>2. Answer(c) = Take(c, "iface", 1) BY <1>5 DEF Answer
  <2> QED BY <1>5, <2>1, <2>2, TakeIs
<1>6. CASE r.k = "status"
  <2>1. r.in /\ r.len = 2 BY <1>6 DEF Regular
  <2>2. \/ c.state \notin {"address", "configured"}
        \/ r.v = "device" /\ Answer(c) = Take(c, "self", 2)
        \/ r.v # "device" /\ (Answer(c) = Take(c, "halted", 2) \/ Answer(c) = Take(c, "notHalted", 2))
    BY <1>6, <2>1 DEF Answer, GetStatus
  <2> QED BY <1>6, <2>1, <2>2, TakeIs
<1>7. CASE r.k = "setDescriptor"
  <2>1. Answer(c) = Done(c) /\ ~r.in BY <1>7 DEF Answer, Regular
  <2> QED BY <1>7, <2>1, DoneIs
<1>8. CASE r.k \in {"address", "setConfig", "setInterface", "halt", "clearHalt"}
  <2>1. r.len = 0 BY <1>8 DEF Regular
  <2> QED BY <1>1, <2>1
<1>9. CASE r.k \notin {"descriptor", "class", "getConfig", "getInterface", "status", "setDescriptor",
                       "address", "setConfig", "setInterface", "halt", "clearHalt"}
  BY <1>9, FailIs DEF Answer
<1> QED BY <1>2, <1>3, <1>4, <1>5, <1>6, <1>7, <1>8, <1>9

LEMMA SetAddressDoes ==
  ASSUME NEW c, DOMAIN c = Fields, c.setup.k = "address"
  PROVE  LET a == Answer(c)
             v == c.setup.v
         IN /\ a.ok /\ a.ok \in BOOLEAN /\ a.len = 0 /\ a.buf = "none"
            /\ Keeps(c, a.d, {"addr", "state"}) /\ a.d.addr = v
            /\ a.d.state = IF c.state = "default" /\ v # 0 THEN "address"
                           ELSE IF c.state = "address" /\ v = 0 THEN "default"
                           ELSE c.state
<1> DEFINE v == c.setup.v
           s == IF c.state = "default" /\ v # 0 THEN "address"
                ELSE IF c.state = "address" /\ v = 0 THEN "default" ELSE c.state
           r == [c EXCEPT !.addr = v, !.state = s]
<1>1. Answer(c) = Done(r) BY DEF Answer, SetAddress
<1> HIDE DEF s
<1>2. Keeps(c, r, {"addr", "state"}) /\ r.addr = v /\ r.state = s BY DEF Keeps
<1> HIDE DEF r
<1>3. /\ Answer(c).ok /\ Answer(c).ok \in BOOLEAN /\ Answer(c).len = 0 /\ Answer(c).buf = "none"
      /\ Answer(c).d = r
  BY <1>1, DoneIs
<1> QED BY <1>2, <1>3 DEF s

SetConfigChanges == {"cfg", "state"} \union EpChanges

\* SET_CONFIGURATION configures the class, releases it, or is noted.
LEMMA SetConfigDoes ==
  ASSUME NEW c, DOMAIN c = Fields, c.class \in AllClasses, c.setup.k = "setConfig"
  PROVE  LET a == Answer(c)
             v == c.setup.v
             r == a.d
             tx == TxNew(ClassConfigs(c.class, c.speed), c.speed)
             rx == RxNew(ClassConfigs(c.class, c.speed), c.speed)
         IN /\ a.ok /\ a.ok \in BOOLEAN /\ a.len = 0 /\ a.buf = "none"
            /\ Keeps(c, r, SetConfigChanges)
            /\ c.state = "default" => r = c
            /\ c.state # "default" => r.cfg = v
            /\ c.state \in {"address", "configured"} /\ v # 0 =>
                 /\ r.state = "configured" /\ r.cls = "configured"
                 /\ r.eps = Replaces(Replaces(c.eps, tx), rx)
                 /\ r.haltTx = (c.haltTx /\ Spares(tx)) /\ r.stallTx = (c.stallTx /\ Spares(tx))
                 /\ r.haltRx = (c.haltRx /\ Spares(rx)) /\ r.stallRx = (c.stallRx /\ Spares(rx))
            /\ c.state = "configured" /\ v = 0 => r.state = "address"
            /\ c.state = "address" /\ v = 0 => r.state = "address"
            /\ c.state \notin {"default", "address", "configured"} => r.state = c.state
            /\ ~(c.state \in {"address", "configured"} /\ v # 0) =>
                 /\ r.eps = c.eps /\ r.haltTx = c.haltTx /\ r.haltRx = c.haltRx
                 /\ r.stallTx \in {c.stallTx, FALSE} /\ r.stallRx \in {c.stallRx, FALSE}
<1> DEFINE v == c.setup.v
           m == [c EXCEPT !.cfg = v]
           tx == TxNew(ClassConfigs(c.class, c.speed), c.speed)
           rx == RxNew(ClassConfigs(c.class, c.speed), c.speed)
<1>1. Keeps(c, m, {"cfg"}) /\ m.cfg = v BY DEF Keeps
<1>2. ASSUME NEW e, Answer(c) = Done(e)
      PROVE  /\ Answer(c).ok /\ Answer(c).ok \in BOOLEAN /\ Answer(c).len = 0
             /\ Answer(c).buf = "none" /\ Answer(c).d = e
  BY <1>2, DoneIs
<1>3. CASE c.state = "default"
  <2>1. Answer(c) = Done(c) BY <1>3 DEF Answer, SetConfig
  <2>2. Keeps(c, c, SetConfigChanges) BY DEF Keeps
  <2> QED BY <1>2, <1>3, <2>1, <2>2
<1>4. CASE c.state \in {"address", "configured"} /\ v # 0
  <2> DEFINE n == [m EXCEPT !.state = "configured"]
  <2>1. Answer(c) = Done(ClassInit(n)) BY <1>4 DEF Answer, SetConfig
  <2> HIDE DEF m
  <2>2. Keeps(c, n, {"cfg", "state"}) /\ n.state = "configured" /\ n.cfg = v BY <1>1 DEF Keeps
  <2> HIDE DEF n
  <2>3. /\ DOMAIN n = Fields /\ n.class = c.class /\ n.speed = c.speed /\ n.eps = c.eps
        /\ n.haltTx = c.haltTx /\ n.haltRx = c.haltRx /\ n.stallTx = c.stallTx /\ n.stallRx = c.stallRx
    BY <2>2 DEF Keeps
  <2> DEFINE r == ClassInit(n)
  <2>4. /\ Keeps(n, r, EpChanges)
        /\ r.cls = "configured" /\ r.eps = Replaces(Replaces(n.eps, tx), rx)
        /\ r.haltTx = (n.haltTx /\ Spares(tx)) /\ r.stallTx = (n.stallTx /\ Spares(tx))
        /\ r.haltRx = (n.haltRx /\ Spares(rx)) /\ r.stallRx = (n.stallRx /\ Spares(rx))
    BY <2>3, ClassInitDoes
  <2> HIDE DEF r, tx, rx
  <2>5. Keeps(c, r, SetConfigChanges) /\ r.state = "configured" /\ r.cfg = v
    BY <2>2, <2>4 DEF Keeps, SetConfigChanges, EpChanges
  <2>6. /\ Answer(c).ok /\ Answer(c).ok \in BOOLEAN /\ Answer(c).len = 0
        /\ Answer(c).buf = "none" /\ Answer(c).d = r
    BY <1>2, <2>1 DEF r
  <2>7. /\ r.eps = Replaces(Replaces(c.eps, tx), rx)
        /\ r.haltTx = (c.haltTx /\ Spares(tx)) /\ r.stallTx = (c.stallTx /\ Spares(tx))
        /\ r.haltRx = (c.haltRx /\ Spares(rx)) /\ r.stallRx = (c.stallRx /\ Spares(rx))
    BY <2>3, <2>4
  <2> QED BY <1>4, <2>4, <2>5, <2>6, <2>7 DEF tx, rx
<1>5. CASE c.state = "configured" /\ v = 0
  <2> DEFINE n == [m EXCEPT !.state = "address"]
  <2>1. Answer(c) = Done(ClassRelease(n)) BY <1>5 DEF Answer, SetConfig
  <2> HIDE DEF m
  <2>2. Keeps(c, n, {"cfg", "state"}) /\ n.state = "address" /\ n.cfg = v BY <1>1 DEF Keeps
  <2> HIDE DEF n
  <2>3. DOMAIN n = Fields /\ n.class = c.class BY <2>2 DEF Keeps
  <2> DEFINE r == ClassRelease(n)
  <2>4. /\ Keeps(n, r, {"cls", "stallTx", "stallRx"})
        /\ r.stallTx \in {n.stallTx, FALSE} /\ r.stallRx \in {n.stallRx, FALSE}
    BY <2>3, ClassReleaseDoes
  <2> HIDE DEF r
  <2>5. /\ Keeps(c, r, SetConfigChanges) /\ r.state = "address" /\ r.cfg = v
        /\ r.eps = c.eps /\ r.haltTx = c.haltTx /\ r.haltRx = c.haltRx
        /\ r.stallTx \in {c.stallTx, FALSE} /\ r.stallRx \in {c.stallRx, FALSE}
    BY <2>2, <2>4 DEF Keeps, SetConfigChanges, EpChanges
  <2>6. /\ Answer(c).ok /\ Answer(c).ok \in BOOLEAN /\ Answer(c).len = 0
        /\ Answer(c).buf = "none" /\ Answer(c).d = r
    BY <1>2, <2>1 DEF r
  <2> QED BY <1>5, <2>5, <2>6
<1>6. CASE c.state # "default" /\ ~(c.state \in {"address", "configured"} /\ v # 0)
           /\ ~(c.state = "configured" /\ v = 0)
  <2>1. Answer(c) = Done(m) BY <1>6 DEF Answer, SetConfig
  <2> HIDE DEF m
  <2>2. /\ Answer(c).ok /\ Answer(c).ok \in BOOLEAN /\ Answer(c).len = 0
        /\ Answer(c).buf = "none" /\ Answer(c).d = m
    BY <1>2, <2>1
  <2>3. /\ Keeps(c, m, SetConfigChanges) /\ m.state = c.state
        /\ m.eps = c.eps /\ m.haltTx = c.haltTx /\ m.haltRx = c.haltRx
        /\ m.stallTx = c.stallTx /\ m.stallRx = c.stallRx
    BY <1>1 DEF Keeps, SetConfigChanges
  <2> QED BY <1>1, <1>6, <2>2, <2>3
<1> QED BY <1>3, <1>4, <1>5, <1>6

AnswerChanges == {"addr", "iface"} \union SetConfigChanges

LEMMA AnswerDoes ==
  ASSUME Regular, NEW c, DriverTyped(c)
  PROVE  LET a == Answer(c)
         IN /\ a.ok \in BOOLEAN /\ a.len \in Nat
            /\ Keeps(c, a.d, AnswerChanges) /\ DriverTyped(a.d)
            /\ c.state = "notAttached" => a.d.state = "notAttached" /\ a.d.eps = c.eps
<1>1. /\ DOMAIN c = Fields /\ c.class \in AllClasses /\ c.speed \in Speeds /\ c.user \in Speeds
      /\ c.setup.len \in Nat /\ c.state \in States
      /\ c.haltTx \in BOOLEAN /\ c.haltRx \in BOOLEAN /\ c.stallTx \in BOOLEAN /\ c.stallRx \in BOOLEAN
  BY DEF DriverTyped, NoReq
<1> DEFINE r == Answer(c).d
<1>2. ASSUME Keeps(c, r, AnswerChanges), r.state \in States, r.addr \in 0..127,
             r.haltTx \in BOOLEAN, r.haltRx \in BOOLEAN, r.stallTx \in BOOLEAN, r.stallRx \in BOOLEAN
      PROVE  DriverTyped(r)
  <2> HIDE DEF r
  <2>1. /\ r.saved = c.saved /\ r.faddr = c.faddr /\ r.class = c.class /\ r.user = c.user
        /\ r.bus = c.bus /\ r.speed = c.speed /\ r.cep = c.cep /\ r.cepState = c.cepState
        /\ r.len = c.len /\ r.cnt = c.cnt /\ r.txn = c.txn /\ r.got = c.got /\ r.classGot = c.classGot
        /\ r.rx = c.rx /\ r.tx = c.tx /\ r.setup = c.setup /\ r.dataEnd = c.dataEnd
        /\ r.setupEnd = c.setupEnd /\ r.sendStall = c.sendStall /\ r.sentStall = c.sentStall
        /\ r.delay = c.delay /\ DOMAIN r = Fields
    BY <1>2 DEF Keeps, AnswerChanges, SetConfigChanges, EpChanges
  <2> QED BY <1>2, <2>1 DEF DriverTyped
<1>3. CASE c.setup.k = "address"
  <2>1. c.setup.v \in 0..127 BY <1>3 DEF Regular, DriverTyped, NoReq
  <2>2. /\ Answer(c).ok \in BOOLEAN /\ Answer(c).len = 0
        /\ Keeps(c, r, {"addr", "state"}) /\ r.addr = c.setup.v
        /\ r.state = IF c.state = "default" /\ c.setup.v # 0 THEN "address"
                     ELSE IF c.state = "address" /\ c.setup.v = 0 THEN "default" ELSE c.state
    BY <1>1, <1>3, SetAddressDoes
  <2> HIDE DEF r
  <2>3. /\ Keeps(c, r, AnswerChanges) /\ r.haltTx = c.haltTx /\ r.haltRx = c.haltRx
        /\ r.stallTx = c.stallTx /\ r.stallRx = c.stallRx /\ r.eps = c.eps
    BY <2>2 DEF Keeps, AnswerChanges, SetConfigChanges
  <2>4. r.state \in States BY <1>1, <2>2 DEF States, AtLeastDefault
  <2> QED BY <1>1, <1>2, <2>1, <2>2, <2>3, <2>4 DEF r
<1>4. CASE c.setup.k = "setConfig"
  <2>1. /\ Answer(c).ok \in BOOLEAN /\ Answer(c).len = 0
        /\ Keeps(c, r, SetConfigChanges)
        /\ r.state \in {c.state, "configured", "address"}
        /\ c.state = "notAttached" => r.state = "notAttached" /\ r.eps = c.eps
    BY <1>1, <1>4, SetConfigDoes DEF States, AtLeastDefault
  <2>5. /\ r.haltTx \in BOOLEAN /\ r.haltRx \in BOOLEAN
        /\ r.stallTx \in BOOLEAN /\ r.stallRx \in BOOLEAN
    <3> DEFINE tx == TxNew(ClassConfigs(c.class, c.speed), c.speed)
               rx == RxNew(ClassConfigs(c.class, c.speed), c.speed)
    <3>1. CASE c.state \in {"address", "configured"} /\ c.setup.v # 0
      <4>1. /\ r.haltTx = (c.haltTx /\ Spares(tx)) /\ r.stallTx = (c.stallTx /\ Spares(tx))
            /\ r.haltRx = (c.haltRx /\ Spares(rx)) /\ r.stallRx = (c.stallRx /\ Spares(rx))
        BY <1>1, <1>4, <3>1, SetConfigDoes
      <4> QED BY <4>1
    <3>2. CASE ~(c.state \in {"address", "configured"} /\ c.setup.v # 0)
      <4>1. /\ r.haltTx = c.haltTx /\ r.haltRx = c.haltRx
            /\ r.stallTx \in {c.stallTx, FALSE} /\ r.stallRx \in {c.stallRx, FALSE}
        BY <1>1, <1>4, <3>2, SetConfigDoes
      <4> QED BY <1>1, <4>1
    <3> QED BY <3>1, <3>2
  <2> HIDE DEF r
  <2>2. Keeps(c, r, AnswerChanges) /\ r.addr = c.addr
    BY <2>1 DEF Keeps, AnswerChanges, SetConfigChanges, EpChanges
  <2>3. r.state \in States BY <1>1, <2>1 DEF States, AtLeastDefault
  <2>4. r.addr \in 0..127 BY <2>2 DEF DriverTyped
  <2> QED BY <1>1, <1>2, <2>1, <2>2, <2>3, <2>4, <2>5 DEF r
<1>5. CASE c.setup.k \notin {"address", "setConfig"}
  <2>1. /\ Answer(c).ok \in BOOLEAN /\ Answer(c).len \in Nat
        /\ Keeps(c, r, HaltChanges)
        /\ r.haltTx \in BOOLEAN /\ r.haltRx \in BOOLEAN
        /\ r.stallTx \in BOOLEAN /\ r.stallRx \in BOOLEAN
    BY <1>1, <1>5, OtherRequestDoes
  <2> HIDE DEF r
  <2>2. Keeps(c, r, AnswerChanges) /\ r.addr = c.addr /\ r.state = c.state /\ r.eps = c.eps
    BY <2>1 DEF Keeps, AnswerChanges, SetConfigChanges, EpChanges, HaltChanges
  <2>3. r.addr \in 0..127 BY <2>2 DEF DriverTyped
  <2> QED BY <1>1, <1>2, <2>1, <2>2, <2>3 DEF r
<1> QED BY <1>3, <1>4, <1>5

---------------------------------------------------------------------------
(* What the callbacks of endpoint 0 do to the driver.                       *)

TransferChanges ==
  {"cep", "buf", "len", "cnt", "txn", "got", "setup", "cepState", "rx", "tx", "dataEnd",
   "sendStall", "sentStall", "setupEnd", "classGot", "delay"}

\* What a transfer changes has its types.
TransferTyped(r) ==
  /\ r.cep \in CepStates /\ r.cepState \in {"idle", "rx", "tx"}
  /\ r.len \in Nat /\ r.cnt \in Nat /\ r.txn \in Nat /\ r.got \in Nat /\ r.classGot \in Nat
  /\ Packet(r.rx) /\ Packet(r.tx) /\ r.setup \in Requests \union {NoReq}
  /\ r.dataEnd \in BOOLEAN /\ r.setupEnd \in BOOLEAN /\ r.sendStall \in BOOLEAN
  /\ r.sentStall \in BOOLEAN /\ r.delay \in BOOLEAN

LEMMA TransferKeepsTypes ==
  ASSUME NEW c, NEW r, DriverTyped(c), Keeps(c, r, TransferChanges), TransferTyped(r)
  PROVE  DriverTyped(r)
<1>1. /\ r.state = c.state /\ r.saved = c.saved /\ r.addr = c.addr /\ r.faddr = c.faddr
      /\ r.class = c.class /\ r.user = c.user /\ r.bus = c.bus /\ r.speed = c.speed
      /\ r.haltTx = c.haltTx /\ r.haltRx = c.haltRx /\ r.stallTx = c.stallTx /\ r.stallRx = c.stallRx
      /\ DOMAIN r = Fields
  BY DEF Keeps, TransferChanges
<1> QED BY <1>1 DEF DriverTyped, TransferTyped

LEMMA TypesOfTransfer ==
  ASSUME NEW c, DriverTyped(c)
  PROVE  TransferTyped(c) /\ DOMAIN c = Fields
  BY DEF DriverTyped, TransferTyped

LEMMA NoPktIs == Packet(NoPkt) /\ NoPkt.n = 0 /\ NoPkt.of = "none" /\ NoPkt.req = NoReq
  BY DEF NoPkt, Packet

LEMMA LeastIs ==
  ASSUME NEW a \in Nat, NEW b \in Nat
  PROVE  /\ Least(a, b) \in Nat /\ Least(a, b) <= a /\ Least(a, b) <= b
         /\ Least(a, b) = a \/ Least(a, b) = b
  BY DEF Least

LEMMA RearmTyped ==
  ASSUME NEW c, DriverTyped(c)
  PROVE  DriverTyped(Rearm(c)) /\ Keeps(c, Rearm(c), RearmChanges)
<1> DEFINE r == Rearm(c)
<1>1. Keeps(c, r, RearmChanges) /\ IsWaiting(r) /\ r.setup = NoReq BY TypesOfTransfer, RearmDoes
<1> HIDE DEF r
<1>2. /\ r.rx = c.rx /\ r.tx = c.tx /\ r.dataEnd = c.dataEnd /\ r.setupEnd = c.setupEnd
      /\ r.sendStall = c.sendStall /\ r.sentStall = c.sentStall /\ r.delay = c.delay
      /\ r.got = c.got /\ r.classGot = c.classGot
      /\ Keeps(c, r, TransferChanges)
  BY <1>1 DEF Keeps, RearmChanges, TransferChanges
<1>3. TransferTyped(r)
  BY <1>1, <1>2, TypesOfTransfer DEF TransferTyped, IsWaiting, CepStates, SetupSize
<1>4. DriverTyped(r) BY <1>2, <1>3, TransferKeepsTypes
<1> QED BY <1>1, <1>4 DEF r

LEMMA RefuseTyped ==
  ASSUME NEW c, DriverTyped(c)
  PROVE  DriverTyped(Refuse(c))
<1> DEFINE r == Refuse(c)
<1>1. /\ Keeps(c, r, {"cep", "setup", "sendStall", "rx"})
      /\ r.cep = "idle" /\ r.setup = NoReq /\ r.sendStall = TRUE /\ r.rx = NoPkt
  BY TypesOfTransfer, RefuseDoes
<1> HIDE DEF r
<1>2. /\ r.tx = c.tx /\ r.dataEnd = c.dataEnd /\ r.setupEnd = c.setupEnd
      /\ r.sentStall = c.sentStall /\ r.delay = c.delay /\ r.cepState = c.cepState
      /\ r.got = c.got /\ r.classGot = c.classGot /\ r.len = c.len /\ r.cnt = c.cnt /\ r.txn = c.txn
      /\ Keeps(c, r, TransferChanges)
  BY <1>1 DEF Keeps, TransferChanges
<1>3. TransferTyped(r)
  BY <1>1, <1>2, TypesOfTransfer, NoPktIs DEF TransferTyped, CepStates
<1>4. DriverTyped(r) BY <1>2, <1>3, TransferKeepsTypes
<1> QED BY <1>4 DEF r

LEMMA ReadPktTyped ==
  ASSUME NEW c, DriverTyped(c)
  PROVE  DriverTyped(ReadPkt(c))
<1> DEFINE r == ReadPkt(c)
<1>1. c.cnt \in Nat /\ c.got \in Nat /\ c.rx.n \in Nat /\ c.rx.req \in Requests \union {NoReq}
  BY DEF DriverTyped, Packet
<1>2. /\ Keeps(c, r, {"cnt", "setup", "got"})
      /\ r.cnt \in Nat /\ r.got \in Nat /\ r.setup \in {c.setup, c.rx.req}
  BY <1>1, TypesOfTransfer, ReadPktDoes
<1> HIDE DEF r
<1>3. /\ r.rx = c.rx /\ r.tx = c.tx /\ r.dataEnd = c.dataEnd /\ r.setupEnd = c.setupEnd
      /\ r.sentStall = c.sentStall /\ r.sendStall = c.sendStall /\ r.delay = c.delay
      /\ r.cep = c.cep /\ r.cepState = c.cepState
      /\ r.classGot = c.classGot /\ r.len = c.len /\ r.txn = c.txn
      /\ Keeps(c, r, TransferChanges)
  BY <1>2 DEF Keeps, TransferChanges
<1>4. r.setup \in Requests \union {NoReq} BY <1>1, <1>2 DEF DriverTyped
<1>5. TransferTyped(r) BY <1>2, <1>3, <1>4, TypesOfTransfer DEF TransferTyped
<1>6. DriverTyped(r) BY <1>3, <1>5, TransferKeepsTypes
<1> QED BY <1>6 DEF r

\* A request without data ends here; SET_ADDRESS begins its delay.
LEMMA NoDataStageDoes ==
  ASSUME NEW c, DOMAIN c = Fields
  PROVE  LET r == NoDataStage(c)
         IN /\ r.dataEnd = TRUE /\ r.rx = NoPkt /\ r.cep = "idle"
            /\ c.setup.k = "address" =>
                 Keeps(c, r, {"cep", "dataEnd", "rx", "delay"}) /\ r.delay = TRUE
            /\ c.setup.k # "address" =>
                 Keeps(c, r, RearmChanges \union {"dataEnd", "rx"}) /\ IsWaiting(r)
                   /\ r.setup = NoReq
<1> DEFINE m == [c EXCEPT !.cep = "idle"]
           e == [m EXCEPT !.dataEnd = TRUE, !.rx = NoPkt]
           r == NoDataStage(c)
<1>1. r = IF c.setup.k = "address" THEN [e EXCEPT !.delay = TRUE] ELSE Rearm(e)
  BY DEF NoDataStage, EndTransfer
<1>2. Keeps(c, m, {"cep"}) /\ m.cep = "idle" BY DEF Keeps
<1> HIDE DEF m
<1>3. Keeps(c, e, {"cep", "dataEnd", "rx"}) /\ e.dataEnd = TRUE /\ e.rx = NoPkt /\ e.cep = "idle"
  BY <1>2 DEF Keeps
<1> HIDE DEF e
<1>4. CASE c.setup.k = "address"
  <2>1. r = [e EXCEPT !.delay = TRUE] BY <1>1, <1>4
  <2> HIDE DEF r
  <2>2. /\ Keeps(c, r, {"cep", "dataEnd", "rx", "delay"}) /\ r.delay = TRUE
        /\ r.dataEnd = TRUE /\ r.rx = NoPkt /\ r.cep = "idle"
    BY <1>3, <2>1 DEF Keeps
  <2> QED BY <1>4, <2>2 DEF r
<1>5. CASE c.setup.k # "address"
  <2>1. r = Rearm(e) BY <1>1, <1>5
  <2>2. DOMAIN e = Fields BY <1>3 DEF Keeps
  <2>3. Keeps(e, r, RearmChanges) /\ IsWaiting(r) /\ r.setup = NoReq BY <2>1, <2>2, RearmDoes
  <2> HIDE DEF r
  <2>4. /\ Keeps(c, r, RearmChanges \union {"dataEnd", "rx"})
        /\ r.dataEnd = TRUE /\ r.rx = NoPkt /\ r.cep = "idle"
    BY <1>3, <2>3 DEF Keeps, RearmChanges, IsWaiting
  <2> QED BY <1>5, <2>3, <2>4 DEF r
<1> QED BY <1>4, <1>5

\* A data stage is begun: the first packet of an answer, or the class's buffer.
InChanges == {"rx", "cep", "buf", "len", "txn", "tx", "cnt", "cepState", "dataEnd"}
OutChanges == {"rx", "cep", "buf", "len", "cnt", "txn", "cepState"}

LEMMA InStageDoes ==
  ASSUME NEW a, DOMAIN a.d = Fields, a.len \in Nat, a.d.setup.len \in Nat, a.d.setup.in
  PROVE  LET r == DataStage(a)
             len == Least(a.len, a.d.setup.len)
             n == IF a.buf = "none" THEN 0 ELSE Least(len, MaxPkt)
         IN /\ Keeps(a.d, r, InChanges)
            /\ r.rx = NoPkt /\ r.cep = "tx" /\ r.cepState = "tx" /\ r.buf = a.buf /\ r.len = len
            /\ r.txn = Least(len, MaxPkt) /\ r.cnt = n
            /\ r.tx = [of |-> DataOf(a.buf), n |-> n, req |-> NoReq] /\ r.dataEnd = (n >= len)
<1> DEFINE c == a.d
           m == [[c EXCEPT !.rx = NoPkt] EXCEPT !.cep = "tx"]
           len == Least(a.len, c.setup.len)
           n == IF a.buf = "none" THEN 0 ELSE Least(len, MaxPkt)
           r == DataStage(a)
<1>1. Keeps(c, m, {"rx", "cep"}) /\ m.rx = NoPkt /\ m.cep = "tx" BY DEF Keeps
<1>2. r = CepWrite(m, a.buf, len) BY DEF DataStage
<1>3. len \in Nat BY LeastIs
<1> HIDE DEF m
<1>4. DOMAIN m = Fields BY <1>1 DEF Keeps
<1> HIDE DEF len
<1>5. /\ Keeps(m, r, {"buf", "len", "txn", "tx", "cnt", "cepState", "dataEnd"})
      /\ r.buf = a.buf /\ r.len = len /\ r.txn = Least(len, MaxPkt)
      /\ r.tx = [of |-> DataOf(a.buf), n |-> n, req |-> NoReq] /\ r.cnt = n
      /\ r.cepState = "tx" /\ r.dataEnd = (n >= len)
  BY <1>1, <1>2, <1>3, <1>4, CepWriteDoes
<1> HIDE DEF r, n
<1>6. Keeps(c, r, InChanges) /\ r.rx = NoPkt /\ r.cep = "tx"
  BY <1>1, <1>5 DEF Keeps, InChanges
<1> QED BY <1>5, <1>6, Zenon DEF r, n, len, c

LEMMA OutStageDoes ==
  ASSUME NEW a, DOMAIN a.d = Fields, ~a.d.setup.in
  PROVE  LET r == DataStage(a)
         IN /\ Keeps(a.d, r, OutChanges)
            /\ r.rx = NoPkt /\ r.cep = "rx" /\ r.cepState = "rx" /\ r.buf = a.buf /\ r.len = a.len
            /\ r.cnt = 0 /\ r.txn = Least(a.len, MaxPkt)
<1> DEFINE c == a.d
           m == [[c EXCEPT !.rx = NoPkt] EXCEPT !.cep = "rx"]
           r == DataStage(a)
<1>1. Keeps(c, m, {"rx", "cep"}) /\ m.rx = NoPkt /\ m.cep = "rx" BY DEF Keeps
<1>2. r = ReadPrepare(m, a.buf, a.len) BY DEF DataStage
<1> HIDE DEF m
<1>4. DOMAIN m = Fields BY <1>1 DEF Keeps
<1>5. /\ Keeps(m, r, {"buf", "len", "cnt", "txn", "cepState"})
      /\ r.buf = a.buf /\ r.len = a.len /\ r.cnt = 0 /\ r.txn = Least(a.len, MaxPkt)
      /\ r.cepState = "rx"
  BY <1>1, <1>2, <1>4, ReadPrepareDoes
<1> HIDE DEF r
<1>6. Keeps(c, r, OutChanges) /\ r.rx = NoPkt /\ r.cep = "rx"
  BY <1>1, <1>5 DEF Keeps, OutChanges
<1> QED BY <1>5, <1>6 DEF r

---------------------------------------------------------------------------
(* Serving an interrupt of endpoint 0 changes what a transfer and an answer *)
(* may change, and leaves a driver that is not attached so.                 *)

EpIrqChanges == TransferChanges \union AnswerChanges

Follows(c, r) ==
  /\ DriverTyped(r) /\ Keeps(c, r, EpIrqChanges)
  /\ c.state = "notAttached" => r.state = "notAttached" /\ r.eps = c.eps

LEMMA FollowsItself ==
  ASSUME NEW c, DriverTyped(c)
  PROVE  Follows(c, c)
  BY TypesOfTransfer DEF Follows, Keeps

LEMMA FollowsTwice ==
  ASSUME NEW c, NEW r, NEW s, Follows(c, r), Follows(r, s)
  PROVE  Follows(c, s)
  BY DEF Follows, Keeps

LEMMA TransferFollows ==
  ASSUME NEW c, NEW r, DriverTyped(c), DriverTyped(r), Keeps(c, r, TransferChanges)
  PROVE  Follows(c, r)
  BY DEF Follows, Keeps, EpIrqChanges, TransferChanges

LEMMA RearmFollows ==
  ASSUME NEW c, DriverTyped(c)
  PROVE  Follows(c, Rearm(c))
<1>1. DriverTyped(Rearm(c)) /\ Keeps(c, Rearm(c), RearmChanges) BY RearmTyped
<1> HIDE DEF Rearm
<1>2. Keeps(c, Rearm(c), TransferChanges) BY <1>1 DEF Keeps, RearmChanges, TransferChanges
<1> QED BY <1>1, <1>2, TransferFollows

LEMMA RefuseFollows ==
  ASSUME NEW c, DriverTyped(c)
  PROVE  Follows(c, Refuse(c))
<1>1. DriverTyped(Refuse(c)) /\ Keeps(c, Refuse(c), {"cep", "setup", "sendStall", "rx"})
  BY RefuseTyped, RefuseDoes, TypesOfTransfer
<1>2. Keeps(c, Refuse(c), TransferChanges) BY <1>1 DEF Keeps, TransferChanges
<1> QED BY <1>1, <1>2, TransferFollows

LEMMA ReadPktFollows ==
  ASSUME NEW c, DriverTyped(c)
  PROVE  Follows(c, ReadPkt(c))
<1>1. c.cnt \in Nat /\ c.got \in Nat /\ c.rx.n \in Nat BY DEF DriverTyped, Packet
<1>2. DriverTyped(ReadPkt(c)) /\ Keeps(c, ReadPkt(c), {"cnt", "setup", "got"})
  BY <1>1, ReadPktTyped, ReadPktDoes, TypesOfTransfer
<1>3. Keeps(c, ReadPkt(c), TransferChanges) BY <1>2 DEF Keeps, TransferChanges
<1> QED BY <1>2, <1>3, TransferFollows

\* A field of a transfer is set.
LEMMA SetFollows ==
  ASSUME NEW c, DriverTyped(c)
  PROVE  /\ \A s \in CepStates : Follows(c, [c EXCEPT !.cep = s])
         /\ Follows(c, [c EXCEPT !.sentStall = FALSE])
         /\ Follows(c, [c EXCEPT !.setupEnd = FALSE])
         /\ Follows(c, [c EXCEPT !.rx = NoPkt])
         /\ \A n \in Nat : Follows(c, [c EXCEPT !.txn = n])
         /\ Follows(c, [c EXCEPT !.classGot = c.got, !.got = 0])
         /\ Follows(c, [c EXCEPT !.dataEnd = TRUE, !.rx = NoPkt])
<1>1. ASSUME NEW s \in CepStates PROVE Follows(c, [c EXCEPT !.cep = s])
  <2> DEFINE r == [c EXCEPT !.cep = s]
  <2>1. Keeps(c, r, {"cep"}) /\ r.cep = s BY TypesOfTransfer DEF Keeps
  <2> HIDE DEF r
  <2>2. Keeps(c, r, TransferChanges) /\ TransferTyped(r)
    BY <2>1, TypesOfTransfer DEF Keeps, TransferTyped, TransferChanges
  <2> QED BY <2>2, TransferKeepsTypes, TransferFollows DEF r
<1>2. Follows(c, [c EXCEPT !.sentStall = FALSE])
  <2> DEFINE r == [c EXCEPT !.sentStall = FALSE]
  <2>1. Keeps(c, r, {"sentStall"}) /\ r.sentStall = FALSE BY TypesOfTransfer DEF Keeps
  <2> HIDE DEF r
  <2>2. Keeps(c, r, TransferChanges) /\ TransferTyped(r)
    BY <2>1, TypesOfTransfer DEF Keeps, TransferTyped, TransferChanges
  <2> QED BY <2>2, TransferKeepsTypes, TransferFollows DEF r
<1>3. Follows(c, [c EXCEPT !.setupEnd = FALSE])
  <2> DEFINE r == [c EXCEPT !.setupEnd = FALSE]
  <2>1. Keeps(c, r, {"setupEnd"}) /\ r.setupEnd = FALSE BY TypesOfTransfer DEF Keeps
  <2> HIDE DEF r
  <2>2. Keeps(c, r, TransferChanges) /\ TransferTyped(r)
    BY <2>1, TypesOfTransfer DEF Keeps, TransferTyped, TransferChanges
  <2> QED BY <2>2, TransferKeepsTypes, TransferFollows DEF r
<1>4. Follows(c, [c EXCEPT !.rx = NoPkt])
  <2> DEFINE r == [c EXCEPT !.rx = NoPkt]
  <2>1. Keeps(c, r, {"rx"}) /\ r.rx = NoPkt BY TypesOfTransfer DEF Keeps
  <2> HIDE DEF r
  <2>2. Keeps(c, r, TransferChanges) /\ TransferTyped(r)
    BY <2>1, TypesOfTransfer, NoPktIs DEF Keeps, TransferTyped, TransferChanges
  <2> QED BY <2>2, TransferKeepsTypes, TransferFollows DEF r
<1>5. ASSUME NEW n \in Nat PROVE Follows(c, [c EXCEPT !.txn = n])
  <2> DEFINE r == [c EXCEPT !.txn = n]
  <2>1. Keeps(c, r, {"txn"}) /\ r.txn = n BY TypesOfTransfer DEF Keeps
  <2> HIDE DEF r
  <2>2. Keeps(c, r, TransferChanges) /\ TransferTyped(r)
    BY <2>1, TypesOfTransfer DEF Keeps, TransferTyped, TransferChanges
  <2> QED BY <2>2, TransferKeepsTypes, TransferFollows DEF r
<1>6. Follows(c, [c EXCEPT !.classGot = c.got, !.got = 0])
  <2> DEFINE r == [c EXCEPT !.classGot = c.got, !.got = 0]
  <2>1. Keeps(c, r, {"classGot", "got"}) /\ r.classGot = c.got /\ r.got = 0
    BY TypesOfTransfer DEF Keeps
  <2> HIDE DEF r
  <2>2. Keeps(c, r, TransferChanges) /\ TransferTyped(r)
    BY <2>1, TypesOfTransfer DEF Keeps, TransferTyped, TransferChanges
  <2> QED BY <2>2, TransferKeepsTypes, TransferFollows DEF r
<1>7. Follows(c, [c EXCEPT !.dataEnd = TRUE, !.rx = NoPkt])
  <2> DEFINE r == [c EXCEPT !.dataEnd = TRUE, !.rx = NoPkt]
  <2>1. Keeps(c, r, {"dataEnd", "rx"}) /\ r.dataEnd = TRUE /\ r.rx = NoPkt
    BY TypesOfTransfer DEF Keeps
  <2> HIDE DEF r
  <2>2. Keeps(c, r, TransferChanges) /\ TransferTyped(r)
    BY <2>1, TypesOfTransfer, NoPktIs DEF Keeps, TransferTyped, TransferChanges
  <2> QED BY <2>2, TransferKeepsTypes, TransferFollows DEF r
<1> QED BY <1>1, <1>2, <1>3, <1>4, <1>5, <1>6, <1>7

LEMMA ReadPrepareFollows ==
  ASSUME NEW c, DriverTyped(c), NEW buf, NEW len \in Nat
  PROVE  Follows(c, ReadPrepare(c, buf, len))
<1> DEFINE r == ReadPrepare(c, buf, len)
<1>1. /\ Keeps(c, r, {"buf", "len", "cnt", "txn", "cepState"})
      /\ r.len = len /\ r.cnt = 0 /\ r.txn = Least(len, MaxPkt)
      /\ r.cepState \in {"idle", "rx", c.cepState}
  BY TypesOfTransfer, ReadPrepareDoes
<1>2. Least(len, MaxPkt) \in Nat BY LeastIs
<1> HIDE DEF r
<1>3. Keeps(c, r, TransferChanges) BY <1>1 DEF Keeps, TransferChanges
<1>4. /\ r.rx = c.rx /\ r.tx = c.tx /\ r.dataEnd = c.dataEnd /\ r.setupEnd = c.setupEnd
      /\ r.sentStall = c.sentStall /\ r.sendStall = c.sendStall /\ r.delay = c.delay
      /\ r.cep = c.cep /\ r.setup = c.setup /\ r.classGot = c.classGot /\ r.got = c.got
  BY <1>1 DEF Keeps
<1>5. TransferTyped(r) BY <1>1, <1>2, <1>4, TypesOfTransfer DEF TransferTyped
<1> QED BY <1>3, <1>5, TransferKeepsTypes, TransferFollows DEF r

LEMMA PacketOf ==
  ASSUME NEW buf, NEW n \in Nat
  PROVE  Packet([of |-> buf, n |-> n, req |-> NoReq])
  BY DEF Packet

LEMMA WritePktFollows ==
  ASSUME NEW c, DriverTyped(c), c.cep = "tx"
  PROVE  Follows(c, WritePkt(c))
<1> DEFINE r == WritePkt(c)
           n == IF c.buf = "none" THEN 0 ELSE c.txn
<1>1. c.cnt \in Nat /\ c.txn \in Nat /\ c.len \in Nat BY DEF DriverTyped
<1>2. n \in Nat BY <1>1
<1>3. /\ Keeps(c, r, {"tx", "cnt", "cepState", "dataEnd"})
      /\ r.tx = [of |-> DataOf(c.buf), n |-> n, req |-> NoReq] /\ r.cnt = c.cnt + n
      /\ r.cepState = "tx" /\ r.dataEnd = (c.cnt + n >= c.len)
  BY <1>1, TypesOfTransfer, WritePktDoes
<1> HIDE DEF n
<1>4. Packet(r.tx) BY <1>2, <1>3, PacketOf
<1> HIDE DEF r
<1>5. r.cnt \in Nat /\ r.dataEnd \in BOOLEAN BY <1>1, <1>2, <1>3
<1>6. Keeps(c, r, TransferChanges) BY <1>3 DEF Keeps, TransferChanges
<1>7. /\ r.rx = c.rx /\ r.setupEnd = c.setupEnd /\ r.len = c.len /\ r.txn = c.txn
      /\ r.sentStall = c.sentStall /\ r.sendStall = c.sendStall /\ r.delay = c.delay
      /\ r.cep = c.cep /\ r.setup = c.setup /\ r.classGot = c.classGot /\ r.got = c.got
  BY <1>3 DEF Keeps
<1>8. TransferTyped(r) BY <1>3, <1>4, <1>5, <1>7, TypesOfTransfer DEF TransferTyped
<1> QED BY <1>6, <1>8, TransferKeepsTypes, TransferFollows DEF r

LEMMA AnswerFollows ==
  ASSUME Regular, NEW c, DriverTyped(c)
  PROVE  /\ Answer(c).ok \in BOOLEAN /\ Answer(c).len \in Nat
         /\ Follows(c, Answer(c).d) /\ Answer(c).d.setup = c.setup
<1> DEFINE r == Answer(c).d
<1>1. /\ Answer(c).ok \in BOOLEAN /\ Answer(c).len \in Nat
      /\ Keeps(c, r, AnswerChanges) /\ DriverTyped(r)
      /\ c.state = "notAttached" => r.state = "notAttached" /\ r.eps = c.eps
  BY AnswerDoes
<1> HIDE DEF r
<1>2. Keeps(c, r, EpIrqChanges) /\ r.setup = c.setup
  BY <1>1 DEF Keeps, EpIrqChanges, AnswerChanges, SetConfigChanges, EpChanges
<1> QED BY <1>1, <1>2 DEF Follows, r

SetupRead(c) == [ReadPkt(c) EXCEPT !.cep = "setup"]

LEMMA SetupCbIs ==
  ASSUME NEW c
  PROVE  LET a == Answer(SetupRead(c))
         IN /\ SetupCb(c, TRUE) = Rearm(c)
            /\ ReadPkt(c).txn # SetupSize => SetupCb(c, FALSE) = Refuse(ReadPkt(c))
            /\ ReadPkt(c).txn = SetupSize =>
                 /\ ~a.ok => SetupCb(c, FALSE) = Refuse(a.d)
                 /\ a.ok /\ a.d.setup.len = 0 => SetupCb(c, FALSE) = NoDataStage(a.d)
                 /\ a.ok /\ a.d.setup.len # 0 => SetupCb(c, FALSE) = DataStage(a)
  BY DEF SetupCb, SetupRead

LEMMA SetupReadFollows ==
  ASSUME NEW c, DriverTyped(c)
  PROVE  Follows(c, SetupRead(c)) /\ DriverTyped(SetupRead(c))
<1> DEFINE m == ReadPkt(c)
<1>1. Follows(c, m) BY ReadPktFollows
<1>2. DriverTyped(m) BY <1>1 DEF Follows
<1> HIDE DEF m
<1>3. "setup" \in CepStates BY DEF CepStates
<1>4. Follows(m, [m EXCEPT !.cep = "setup"]) BY <1>2, <1>3, SetFollows
<1>5. Follows(c, [m EXCEPT !.cep = "setup"]) BY <1>1, <1>4, FollowsTwice
<1> QED BY <1>5 DEF SetupRead, m, Follows

LEMMA NoDataStageFollows ==
  ASSUME NEW c, DriverTyped(c)
  PROVE  Follows(c, NoDataStage(c))
<1> DEFINE m == [c EXCEPT !.cep = "idle"]
           e == [m EXCEPT !.dataEnd = TRUE, !.rx = NoPkt]
           r == NoDataStage(c)
<1>1. r = IF c.setup.k = "address" THEN [e EXCEPT !.delay = TRUE] ELSE Rearm(e)
  BY DEF NoDataStage, EndTransfer
<1>2. Follows(c, m) BY SetFollows DEF CepStates
<1>3. DriverTyped(m) BY <1>2 DEF Follows
<1> HIDE DEF m
<1>4. Follows(m, e) BY <1>3, SetFollows
<1>5. DriverTyped(e) BY <1>4 DEF Follows
<1> HIDE DEF e
<1>6. Follows(e, r)
  <2>1. CASE c.setup.k = "address"
    <3>1. r = [e EXCEPT !.delay = TRUE] BY <1>1, <2>1
    <3> HIDE DEF r
    <3>2. Keeps(e, r, {"delay"}) /\ r.delay = TRUE BY <1>5, <3>1, TypesOfTransfer DEF Keeps
    <3>3. Keeps(e, r, TransferChanges) /\ TransferTyped(r)
      BY <1>5, <3>2, TypesOfTransfer DEF Keeps, TransferTyped, TransferChanges
    <3> QED BY <1>5, <3>3, TransferKeepsTypes, TransferFollows
  <2>2. CASE c.setup.k # "address" BY <1>1, <1>5, <2>2, RearmFollows
  <2> QED BY <2>1, <2>2
<1> QED BY <1>2, <1>4, <1>6, FollowsTwice

LEMMA DataStageFollows ==
  ASSUME NEW a, DriverTyped(a.d), a.len \in Nat
  PROVE  Follows(a.d, DataStage(a))
<1> DEFINE c == a.d
           m == [c EXCEPT !.rx = NoPkt]
           r == DataStage(a)
<1>1. c.setup.len \in Nat BY DEF DriverTyped, NoReq
<1>2. r = IF c.setup.in
          THEN CepWrite([m EXCEPT !.cep = "tx"], a.buf, Least(a.len, c.setup.len))
          ELSE ReadPrepare([m EXCEPT !.cep = "rx"], a.buf, a.len)
  BY DEF DataStage
<1>3. Follows(c, m) BY SetFollows
<1> HIDE DEF m
<1>4. DriverTyped(m) BY <1>3 DEF Follows
<1>5. CASE c.setup.in
  <2> DEFINE t == [m EXCEPT !.cep = "tx"]
             len == Least(a.len, c.setup.len)
             w == [t EXCEPT !.buf = a.buf, !.len = len, !.cnt = 0, !.txn = Least(len, MaxPkt)]
  <2>1. r = WritePkt(w) BY <1>2, <1>5 DEF CepWrite
  <2>2. len \in Nat BY <1>1, LeastIs
  <2>3. Least(len, MaxPkt) \in Nat BY <2>2, LeastIs
  <2>4. Follows(m, t) BY <1>4, SetFollows DEF CepStates
  <2>5. DriverTyped(t) BY <2>4 DEF Follows
  <2>6. t.cep = "tx" BY <1>4, TypesOfTransfer
  <2> HIDE DEF t, len
  <2>7. /\ Keeps(t, w, {"buf", "len", "cnt", "txn"}) /\ w.len = len /\ w.cnt = 0
        /\ w.txn = Least(len, MaxPkt)
    BY <2>5, TypesOfTransfer DEF Keeps
  <2> HIDE DEF w
  <2>8. Keeps(t, w, TransferChanges) /\ TransferTyped(w) /\ w.cep = "tx"
    BY <2>2, <2>3, <2>5, <2>6, <2>7, TypesOfTransfer DEF Keeps, TransferTyped, TransferChanges
  <2>9. DriverTyped(w) BY <2>5, <2>8, TransferKeepsTypes
  <2>10. Follows(t, w) BY <2>5, <2>8, <2>9, TransferFollows
  <2>11. Follows(w, r) BY <2>1, <2>8, <2>9, WritePktFollows
  <2> HIDE DEF r, c
  <2> QED BY <1>3, <2>4, <2>10, <2>11, FollowsTwice DEF r, c
<1>6. CASE ~c.setup.in
  <2> DEFINE t == [m EXCEPT !.cep = "rx"]
  <2>1. r = ReadPrepare(t, a.buf, a.len) BY <1>2, <1>6
  <2>2. Follows(m, t) BY <1>4, SetFollows DEF CepStates
  <2>3. DriverTyped(t) BY <2>2 DEF Follows
  <2> HIDE DEF t
  <2>4. Follows(t, r) BY <2>1, <2>3, ReadPrepareFollows
  <2> HIDE DEF r, c
  <2> QED BY <1>3, <2>2, <2>4, FollowsTwice DEF r, c
<1> QED BY <1>5, <1>6

LEMMA SetupCbFollows ==
  ASSUME Regular, NEW c, DriverTyped(c), NEW err \in BOOLEAN
  PROVE  Follows(c, SetupCb(c, err))
<1>1. CASE err
  <2>1. SetupCb(c, err) = Rearm(c) BY <1>1, SetupCbIs
  <2> QED BY <2>1, RearmFollows
<1>2. CASE ~err
  <2> DEFINE r == SetupCb(c, FALSE)
             p == ReadPkt(c)
             m == SetupRead(c)
             a == Answer(m)
  <2>1. SetupCb(c, err) = r BY <1>2
  <2>2. Follows(c, p) /\ DriverTyped(p) BY ReadPktFollows DEF Follows
  <2>3. Follows(c, m) /\ DriverTyped(m) BY SetupReadFollows
  <2>4. a.ok \in BOOLEAN /\ a.len \in Nat /\ Follows(m, a.d) /\ DriverTyped(a.d)
    BY <2>3, AnswerFollows DEF Follows
  <2>5. /\ p.txn # SetupSize => r = Refuse(p)
        /\ p.txn = SetupSize =>
             /\ ~a.ok => r = Refuse(a.d)
             /\ a.ok /\ a.d.setup.len = 0 => r = NoDataStage(a.d)
             /\ a.ok /\ a.d.setup.len # 0 => r = DataStage(a)
    BY SetupCbIs
  <2> HIDE DEF r, p, m, a
  <2>6. CASE p.txn # SetupSize
    <3>1. Follows(p, r) BY <2>2, <2>5, <2>6, RefuseFollows
    <3> QED BY <2>1, <2>2, <3>1, FollowsTwice
  <2>7. CASE p.txn = SetupSize
    <3>1. Follows(a.d, r)
      BY <2>4, <2>5, <2>7, RefuseFollows, NoDataStageFollows, DataStageFollows
    <3>2. Follows(c, a.d) BY <2>3, <2>4, FollowsTwice
    <3> QED BY <2>1, <3>1, <3>2, FollowsTwice
  <2> QED BY <2>6, <2>7
<1> QED BY <1>1, <1>2

LEMMA RxCbFollows ==
  ASSUME NEW c, DriverTyped(c)
  PROVE  Follows(c, RxCb(c))
<1> DEFINE p == ReadPkt(c)
           g == [p EXCEPT !.classGot = p.got, !.got = 0]
           e == [g EXCEPT !.dataEnd = TRUE, !.rx = NoPkt]
           n == [p EXCEPT !.rx = NoPkt]
           r == RxCb(c)
<1>1. Follows(c, p) BY ReadPktFollows
<1>2. \/ r = p
      \/ r = Rearm(e)
      \/ p.cnt < p.len /\ r = ReadPrepare(n, p.buf, Least(p.len - p.cnt, MaxPkt))
      \/ r = Refuse(p)
  BY DEF RxCb, EndTransfer
<1> HIDE DEF p
<1>3. DriverTyped(p) BY <1>1 DEF Follows
<1>4. Follows(p, g) BY <1>3, SetFollows
<1> HIDE DEF g
<1>5. DriverTyped(g) BY <1>4 DEF Follows
<1>6. Follows(g, e) BY <1>5, SetFollows
<1> HIDE DEF e
<1>7. DriverTyped(e) BY <1>6 DEF Follows
<1>8. Follows(p, n) /\ DriverTyped(n) BY <1>3, SetFollows DEF Follows
<1> HIDE DEF n, r
<1>9. CASE r = p BY <1>1, <1>9 DEF r
<1>10. CASE r = Rearm(e)
  <2>1. Follows(e, r) BY <1>7, <1>10, RearmFollows
  <2> QED BY <1>1, <1>4, <1>6, <2>1, FollowsTwice DEF r
<1>11. CASE p.cnt < p.len /\ r = ReadPrepare(n, p.buf, Least(p.len - p.cnt, MaxPkt))
  <2>1. p.len - p.cnt \in Nat BY <1>3, <1>11 DEF DriverTyped
  <2>2. Least(p.len - p.cnt, MaxPkt) \in Nat BY <2>1, LeastIs
  <2>3. Follows(n, r) BY <1>8, <1>11, <2>2, ReadPrepareFollows
  <2> QED BY <1>1, <1>8, <2>3, FollowsTwice DEF r
<1>12. CASE r = Refuse(p)
  <2>1. Follows(p, r) BY <1>3, <1>12, RefuseFollows
  <2> QED BY <1>1, <2>1, FollowsTwice DEF r
<1> QED BY <1>2, <1>9, <1>10, <1>11, <1>12 DEF r

LEMMA TxCbFollows ==
  ASSUME NEW c, DriverTyped(c)
  PROVE  Follows(c, TxCb(c))
<1> DEFINE n == [c EXCEPT !.txn = Least(c.len - c.cnt, MaxPkt)]
<1>1. \/ TxCb(c) = c
      \/ c.cep = "tx" /\ c.cnt < c.len /\ TxCb(c) = WritePkt(n)
      \/ TxCb(c) = Rearm(c)
  BY DEF TxCb
<1>2. CASE TxCb(c) = c BY <1>2, FollowsItself
<1>3. CASE c.cep = "tx" /\ c.cnt < c.len /\ TxCb(c) = WritePkt(n)
  <2>1. c.len - c.cnt \in Nat BY <1>3 DEF DriverTyped
  <2>2. Least(c.len - c.cnt, MaxPkt) \in Nat BY <2>1, LeastIs
  <2>3. Follows(c, n) BY <2>2, SetFollows
  <2>4. n.cep = "tx" BY <1>3, TypesOfTransfer
  <2> HIDE DEF n
  <2>5. DriverTyped(n) BY <2>3 DEF Follows
  <2>6. Follows(n, WritePkt(n)) BY <2>4, <2>5, WritePktFollows
  <2> QED BY <1>3, <2>3, <2>6, FollowsTwice
<1>4. CASE TxCb(c) = Rearm(c) BY <1>4, RearmFollows
<1> QED BY <1>1, <1>2, <1>3, <1>4

LEMMA EpIrqFollows ==
  ASSUME Regular, NEW c, DriverTyped(c)
  PROVE  Follows(c, EpIrq(c))
<1> DEFINE s == [c EXCEPT !.sentStall = FALSE]
           e == [c EXCEPT !.setupEnd = FALSE]
<1>1. \/ EpIrq(c) = SetupCb(s, TRUE)
      \/ EpIrq(c) = SetupCb(e, c.rx = NoPkt)
      \/ EpIrq(c) = TxCb(c)
      \/ EpIrq(c) = SetupCb(c, FALSE)
      \/ EpIrq(c) = RxCb(c)
      \/ EpIrq(c) = c
  BY DEF EpIrq
<1>2. Follows(c, s) /\ Follows(c, e) BY SetFollows
<1>3. DriverTyped(s) /\ DriverTyped(e) BY <1>2 DEF Follows
<1> HIDE DEF s, e
<1>4. CASE EpIrq(c) = SetupCb(s, TRUE)
  <2>1. Follows(s, EpIrq(c)) BY <1>3, <1>4, SetupCbFollows
  <2> QED BY <1>2, <2>1, FollowsTwice
<1>5. CASE EpIrq(c) = SetupCb(e, c.rx = NoPkt)
  <2>1. Follows(e, EpIrq(c)) BY <1>3, <1>5, SetupCbFollows
  <2> QED BY <1>2, <2>1, FollowsTwice
<1> QED BY <1>1, <1>4, <1>5, TxCbFollows, SetupCbFollows, RxCbFollows, FollowsItself

---------------------------------------------------------------------------
(* What the bus events do to the driver.                                    *)

ResetChanges == RearmChanges \union {"state", "addr", "speed", "setupEnd", "sentStall", "sendStall"}

WasReset(c, r) ==
  /\ r.state = "default" /\ r.addr = 0 /\ r.speed = c.bus /\ IsWaiting(r) /\ r.setup = NoReq
  /\ r.setupEnd = FALSE /\ r.sentStall = FALSE /\ r.sendStall = FALSE

LEMMA ResetCbDoes ==
  ASSUME NEW c, DriverTyped(c)
  PROVE  LET r == ResetCb(c)
         IN Keeps(c, r, ResetChanges) /\ WasReset(c, r) /\ DriverTyped(r)
<1> DEFINE m == [c EXCEPT !.state = "default", !.addr = 0, !.speed = c.bus]
           n == [m EXCEPT !.cep = "idle", !.buf = "none", !.txn = SetupSize]
           o == [n EXCEPT !.setupEnd = FALSE, !.sentStall = FALSE, !.sendStall = FALSE]
           r == ResetCb(c)
<1>1. r = Rearm(o) BY DEF ResetCb, CepConfigured, CepRegisters
<1>2. /\ Keeps(c, m, {"state", "addr", "speed"}) /\ m.state = "default" /\ m.addr = 0
      /\ m.speed = c.bus
  BY TypesOfTransfer DEF Keeps
<1> HIDE DEF m
<1>3. Keeps(m, n, {"cep", "buf", "txn"}) BY <1>2 DEF Keeps
<1> HIDE DEF n
<1>4. /\ Keeps(n, o, {"setupEnd", "sentStall", "sendStall"})
      /\ o.setupEnd = FALSE /\ o.sentStall = FALSE /\ o.sendStall = FALSE
  BY <1>3 DEF Keeps
<1> HIDE DEF o
<1>5. DOMAIN o = Fields BY <1>4 DEF Keeps
<1>6. Keeps(o, r, RearmChanges) /\ IsWaiting(r) /\ r.setup = NoReq BY <1>1, <1>5, RearmDoes
<1> HIDE DEF r
<1>7. Keeps(c, r, ResetChanges)
  BY <1>2, <1>3, <1>4, <1>6 DEF Keeps, ResetChanges, RearmChanges
<1>8. /\ r.state = m.state /\ r.addr = m.addr /\ r.speed = m.speed /\ r.setupEnd = o.setupEnd
      /\ r.sentStall = o.sentStall /\ r.sendStall = o.sendStall
  BY <1>3, <1>4, <1>6 DEF Keeps, RearmChanges
<1>9. WasReset(c, r) BY <1>2, <1>4, <1>6, <1>8 DEF WasReset
<1>10. /\ r.saved = c.saved /\ r.faddr = c.faddr
       /\ r.class = c.class /\ r.user = c.user /\ r.bus = c.bus
       /\ r.haltTx = c.haltTx /\ r.haltRx = c.haltRx /\ r.stallTx = c.stallTx /\ r.stallRx = c.stallRx
       /\ r.rx = c.rx /\ r.tx = c.tx /\ r.dataEnd = c.dataEnd /\ r.delay = c.delay
       /\ r.got = c.got /\ r.classGot = c.classGot /\ DOMAIN r = Fields
  BY <1>7 DEF Keeps, ResetChanges, RearmChanges
<1>11. DriverTyped(r)
  <2>1. r.state \in States /\ r.addr \in 0..127 /\ r.speed \in Speeds
    BY <1>9 DEF DriverTyped, WasReset, States, AtLeastDefault
  <2>2. /\ r.cep \in CepStates /\ r.cepState \in {"idle", "rx", "tx"}
        /\ r.len \in Nat /\ r.cnt \in Nat /\ r.txn \in Nat
    BY <1>9 DEF WasReset, IsWaiting, CepStates, SetupSize
  <2>3. /\ r.setup \in Requests \union {NoReq}
        /\ r.setupEnd \in BOOLEAN /\ r.sendStall \in BOOLEAN /\ r.sentStall \in BOOLEAN
    BY <1>9 DEF WasReset
  <2> QED BY <1>10, <2>1, <2>2, <2>3 DEF DriverTyped
<1> QED BY <1>7, <1>9, <1>11 DEF r

\* The other events change the state, or what the class has configured.
EventChanges == {"state", "saved", "cls", "stallTx", "stallRx"}

LEMMA EventTyped ==
  ASSUME NEW c, DriverTyped(c), NEW r, Keeps(c, r, EventChanges), r.state \in States,
         r.saved \in States, r.stallTx \in BOOLEAN, r.stallRx \in BOOLEAN
  PROVE  DriverTyped(r)
<1>1. /\ r.addr = c.addr /\ r.faddr = c.faddr /\ r.speed = c.speed
      /\ r.class = c.class /\ r.user = c.user /\ r.bus = c.bus
      /\ r.haltTx = c.haltTx /\ r.haltRx = c.haltRx /\ DOMAIN r = Fields
  BY DEF Keeps, EventChanges
<1>2. /\ r.cep = c.cep /\ r.cepState = c.cepState /\ r.len = c.len /\ r.cnt = c.cnt
      /\ r.txn = c.txn /\ r.got = c.got /\ r.classGot = c.classGot /\ r.rx = c.rx /\ r.tx = c.tx
      /\ r.setup = c.setup /\ r.dataEnd = c.dataEnd /\ r.setupEnd = c.setupEnd
      /\ r.sendStall = c.sendStall /\ r.sentStall = c.sentStall /\ r.delay = c.delay
  BY DEF Keeps, EventChanges
<1> QED BY <1>1, <1>2 DEF DriverTyped

LEMMA SuspendCbDoes ==
  ASSUME NEW c, DriverTyped(c)
  PROVE  LET r == SuspendCb(c)
         IN /\ Keeps(c, r, {"state", "saved"}) /\ r.state = "suspended" /\ r.saved = c.state
            /\ DriverTyped(r)
<1> DEFINE r == SuspendCb(c)
<1>1. Keeps(c, r, {"state", "saved"}) /\ r.state = "suspended" /\ r.saved = c.state
  BY TypesOfTransfer DEF Keeps, SuspendCb
<1> HIDE DEF r
<1>2. /\ Keeps(c, r, EventChanges) /\ r.stallTx = c.stallTx /\ r.stallRx = c.stallRx
  BY <1>1 DEF Keeps, EventChanges
<1>3. c.state \in States /\ c.stallTx \in BOOLEAN /\ c.stallRx \in BOOLEAN BY DEF DriverTyped
<1>4. DriverTyped(r) BY <1>1, <1>2, <1>3, EventTyped DEF States, AtLeastDefault
<1> QED BY <1>1, <1>4 DEF r

LEMMA ResumeCbDoes ==
  ASSUME NEW c, DriverTyped(c)
  PROVE  LET r == ResumeCb(c)
         IN Keeps(c, r, {"state"}) /\ r.state = c.saved /\ DriverTyped(r)
<1> DEFINE r == ResumeCb(c)
<1>1. Keeps(c, r, {"state"}) /\ r.state = c.saved
  BY TypesOfTransfer DEF Keeps, ResumeCb
<1> HIDE DEF r
<1>2. /\ Keeps(c, r, EventChanges) /\ r.saved = c.saved /\ r.stallTx = c.stallTx /\ r.stallRx = c.stallRx
  BY <1>1 DEF Keeps, EventChanges
<1>3. c.saved \in States /\ c.stallTx \in BOOLEAN /\ c.stallRx \in BOOLEAN BY DEF DriverTyped
<1>4. DriverTyped(r) BY <1>1, <1>2, <1>3, EventTyped
<1> QED BY <1>1, <1>4 DEF r

LEMMA DisconnectCbDoes ==
  ASSUME NEW c, DriverTyped(c)
  PROVE  LET r == DisconnectCb(c)
         IN /\ Keeps(c, r, {"state", "cls", "stallTx", "stallRx"}) /\ r.state = "notAttached"
            /\ DriverTyped(r)
<1> DEFINE m == [c EXCEPT !.state = "notAttached"]
           r == ClassRelease(m)
<1>1. DisconnectCb(c) = r BY DEF DisconnectCb
<1>2. Keeps(c, m, {"state"}) /\ m.state = "notAttached" BY TypesOfTransfer DEF Keeps
<1> HIDE DEF m
<1>3. /\ DOMAIN m = Fields /\ m.class = c.class /\ m.saved = c.saved
      /\ m.stallTx = c.stallTx /\ m.stallRx = c.stallRx
  BY <1>2 DEF Keeps
<1>4. /\ c.class \in AllClasses /\ c.saved \in States /\ c.stallTx \in BOOLEAN
      /\ c.stallRx \in BOOLEAN
  BY DEF DriverTyped
<1>5. /\ Keeps(m, r, {"cls", "stallTx", "stallRx"})
      /\ r.stallTx \in {m.stallTx, FALSE} /\ r.stallRx \in {m.stallRx, FALSE}
  BY <1>3, <1>4, ClassReleaseDoes
<1> HIDE DEF r
<1>6. /\ Keeps(c, r, {"state", "cls", "stallTx", "stallRx"}) /\ r.state = "notAttached"
      /\ Keeps(c, r, EventChanges) /\ r.saved = c.saved
  BY <1>2, <1>5 DEF Keeps, EventChanges
<1>7. r.stallTx \in BOOLEAN /\ r.stallRx \in BOOLEAN BY <1>3, <1>4, <1>5
<1>8. DriverTyped(r) BY <1>4, <1>6, <1>7, EventTyped DEF States
<1> QED BY <1>1, <1>6, <1>8

BusChanges == EventChanges \union ResetChanges

LEMMA BusIrqDoes ==
  ASSUME NEW c, DriverTyped(c), NEW e \in UsbEvents, NEW events, events \subseteq {e, "reset"}
  PROVE  LET r == BusIrq(c, events)
         IN /\ DriverTyped(r) /\ Keeps(c, r, BusChanges)
            /\ events = {} => r = c
            /\ "reset" \in events => WasReset(c, r)
            /\ "reset" \notin events =>
                 /\ Keeps(c, r, EventChanges)
                 /\ "suspend" \in events => r = SuspendCb(c)
                 /\ "resume" \in events => r = ResumeCb(c)
                 /\ "disconnect" \in events => r = DisconnectCb(c)
<1> DEFINE r == BusIrq(c, events)
<1>1. CASE "reset" \notin events
  <2>1. \/ events = {} /\ r = c
        \/ events = {"suspend"} /\ r = SuspendCb(c)
        \/ events = {"resume"} /\ r = ResumeCb(c)
        \/ events = {"disconnect"} /\ r = DisconnectCb(c)
    <3>1. events = {} \/ events = {e} BY <1>1
    <3> QED BY <1>1, <3>1 DEF BusIrq, UsbEvents
  <2> HIDE DEF r
  <2>2. DriverTyped(r) /\ Keeps(c, r, EventChanges)
    <3>1. CASE r = c BY <3>1, TypesOfTransfer DEF Keeps
    <3>2. CASE r = SuspendCb(c) BY <3>2, SuspendCbDoes DEF Keeps, EventChanges
    <3>3. CASE r = ResumeCb(c) BY <3>3, ResumeCbDoes DEF Keeps, EventChanges
    <3>4. CASE r = DisconnectCb(c) BY <3>4, DisconnectCbDoes DEF Keeps, EventChanges
    <3> QED BY <2>1, <3>1, <3>2, <3>3, <3>4
  <2>3. Keeps(c, r, BusChanges) BY <2>2 DEF Keeps, BusChanges
  <2> QED BY <1>1, <2>1, <2>2, <2>3 DEF r
<1>2. CASE "reset" \in events
  <2>1. PICK x \in {c, SuspendCb(c), ResumeCb(c), DisconnectCb(c)} : r = ResetCb(x)
    BY <1>2 DEF BusIrq, UsbEvents
  <2> HIDE DEF r
  <2>2. DriverTyped(x) /\ Keeps(c, x, EventChanges)
    <3>1. CASE x = c BY <3>1, TypesOfTransfer DEF Keeps
    <3>2. CASE x = SuspendCb(c) BY <3>2, SuspendCbDoes DEF Keeps, EventChanges
    <3>3. CASE x = ResumeCb(c) BY <3>3, ResumeCbDoes DEF Keeps, EventChanges
    <3>4. CASE x = DisconnectCb(c) BY <3>4, DisconnectCbDoes DEF Keeps, EventChanges
    <3> QED BY <3>1, <3>2, <3>3, <3>4
  <2>3. Keeps(x, r, ResetChanges) /\ WasReset(x, r) /\ DriverTyped(r) BY <2>1, <2>2, ResetCbDoes
  <2>4. Keeps(c, r, BusChanges) /\ x.bus = c.bus
    BY <2>2, <2>3 DEF Keeps, BusChanges, EventChanges
  <2>5. WasReset(c, r) BY <2>3, <2>4 DEF WasReset
  <2>6. events # {} BY <1>2
  <2> QED BY <1>2, <2>3, <2>4, <2>5, <2>6 DEF r
<1> QED BY <1>1, <1>2

---------------------------------------------------------------------------
(* The invariant, and what is used of it.                                   *)

LEMMA TypesOfHost ==
  ASSUME Typed
  PROVE  /\ DriverTyped(d) /\ DOMAIN d = Fields /\ DOMAIN irq = {"ep0", "usb"}
         /\ DOMAIN host = {"phase", "req", "n", "of", "addr", "cfg", "susp"}
         /\ irq.ep0 \in BOOLEAN /\ host.n \in Nat
         /\ d.faddr \in 0..127 /\ d.addr \in 0..127 /\ d.faddr # Unknown /\ d.addr # Unknown
  BY DEF Typed, DriverTyped, Unknown

LEMMA ServedNow ==
  ASSUME irq.usb = {}
  PROVE  Served = d
  BY DEF Served, BusIrq

\* In a transfer no bus event is pending, and the host is at the device's address.
LEMMA InTransferIs ==
  ASSUME Core, InTransfer
  PROVE  /\ irq.usb = {} /\ Served = d /\ ~host.susp /\ Level = d.state
         /\ host.addr = d.faddr /\ host.addr # Unknown
         /\ host.req \in Requests /\ Legal(host.req) /\ d.sentStall = FALSE /\ d.setupEnd = FALSE
         /\ ToAnswer \/ Refused \/ Ended \/ Sending \/ Receiving
<1>1. irq.usb = {} /\ ~host.susp /\ host.phase # "gone" BY DEF Core, CepInv, InTransfer
<1>2. Served = d BY <1>1, ServedNow
<1>3. host.addr = d.faddr BY <1>1 DEF Core, AddressInv
<1>4. d.sentStall = FALSE /\ d.setupEnd = FALSE
  BY DEF Core, CepInv, Typed, DriverTyped
<1> QED BY <1>1, <1>2, <1>3, <1>4, TypesOfHost DEF Core, CepInv, Level

\* The configuration and what it rests on are as they were, or none is left.
ConfigKept ==
  /\ d'.eps = d.eps /\ d'.class = d.class /\ d'.bus = d.bus
  /\ (host.phase # "gone" /\ Level = "configured")' =>
       /\ host.phase # "gone" /\ Level = "configured"
       /\ Served'.cls = Served.cls
       /\ Alike(d) => Alike(d')

LEMMA ConfigInvKept ==
  ASSUME ConfigInv, ConfigKept
  PROVE  ConfigInv'
  BY DEF ConfigInv, ConfigKept, Alike

LEMMA LevelKept ==
  ASSUME LevelInv, host.phase # "gone", Level' = Level,
         host'.addr = host.addr, host'.cfg = host.cfg, d'.cfg = d.cfg,
         ~AddressTaken, ~AddressTaken', ~ConfigTaken, ~ConfigTaken', Served'.speed = Served'.bus
  PROVE  LevelInv'
  BY DEF LevelInv

---------------------------------------------------------------------------
(* What the host wants.                                                     *)

WantedN(c, r) ==
  CASE r.k = "descriptor"   -> DescriptorLength(c, r.v)
    [] r.k \in {"getConfig", "getInterface"} -> 1
    [] r.k = "class"        -> IF c.class = "msc" THEN 1 ELSE r.len
    [] OTHER                -> 2
WantedOf(c, of, r) ==
  CASE r.k = "descriptor"   -> DataOf(DescriptorBuffer(c, r.v))
    [] r.k = "getConfig"    -> "cfg1"
    [] r.k = "getInterface" -> "iface"
    [] r.k = "status" /\ r.v = "device" -> "self"
    [] r.k = "class"        -> "class"
    [] OTHER                -> of

LEMMA WantedIs ==
  ASSUME NEW r
  PROVE  Wanted(r).n = WantedN(d, r) /\ Wanted(r).of = WantedOf(d, host.of, r)
<1>1. CASE r.k = "descriptor" BY <1>1 DEF Wanted, WantedN, WantedOf
<1>2. CASE r.k = "getConfig" BY <1>2 DEF Wanted, WantedN, WantedOf
<1>3. CASE r.k = "getInterface" BY <1>3 DEF Wanted, WantedN, WantedOf
<1>4. CASE r.k = "status" /\ r.v = "device" BY <1>4 DEF Wanted, WantedN, WantedOf
<1>5. CASE r.k = "class" BY <1>5 DEF Wanted, WantedN, WantedOf
<1>6. CASE r.k \notin {"descriptor", "getConfig", "getInterface", "class"}
           /\ ~(r.k = "status" /\ r.v = "device")
  BY <1>6 DEF Wanted, WantedN, WantedOf
<1> QED BY <1>1, <1>2, <1>3, <1>4, <1>5, <1>6

LEMMA WantedIsNext ==
  /\ Wanted(host.req)'.n = WantedN(d', host'.req)
  /\ Wanted(host.req)'.of = WantedOf(d', host'.of, host'.req)
<1>1. Wanted(host.req).n = WantedN(d, host.req) /\ Wanted(host.req).of = WantedOf(d, host.of, host.req)
  BY WantedIs
<1>2. (/\ Wanted(host.req).n = WantedN(d, host.req)
       /\ Wanted(host.req).of = WantedOf(d, host.of, host.req))'
  BY <1>1, PTL
<1> QED BY <1>2

LEMMA SameWanted ==
  ASSUME NEW c, NEW e, e.class = c.class, e.user = c.user, e.speed = c.speed, NEW r
  PROVE  /\ WantedN(e, r) = WantedN(c, r)
         /\ \A of : WantedOf(e, of, r) = WantedOf(c, of, r)
<1>1. \A v : DescriptorLength(e, v) = DescriptorLength(c, v) BY DEF DescriptorLength
<1>2. \A v : DescriptorBuffer(e, v) = DescriptorBuffer(c, v) BY <1>1 DEF DescriptorBuffer
<1> QED BY <1>1, <1>2 DEF WantedN, WantedOf

LEMMA TypedNext ==
  ASSUME Typed, DriverTyped(d'), DOMAIN irq' = {"ep0", "usb"}, irq'.ep0 \in BOOLEAN,
         irq'.usb \in {{}, irq.usb}, DOMAIN host' = DOMAIN host, DOMAIN count' = DOMAIN count,
         host'.phase \in {"gone", "idle", "in", "out", "status"}, host'.n \in Nat,
         host'.susp \in BOOLEAN, host'.addr \in 0..127 \union {Unknown},
         host'.cfg \in 0..255 \union {Unknown}
  PROVE  Typed'
<1>1. \E e \in UsbEvents : irq'.usb \subseteq {e, "reset"} BY DEF Typed, UsbEvents
<1> QED BY <1>1 DEF Typed

\* A step of a transfer, with no event of the bus.
LEMMA TransferStep ==
  ASSUME Keeps(d, d', TransferChanges), irq.usb = {}, irq'.usb = {}, host'.susp = host.susp,
         host.phase # "gone"
  PROVE  /\ Served = d /\ Served' = d' /\ Level' = Level /\ ConfigKept
         /\ d'.faddr = d.faddr /\ d'.addr = d.addr /\ d'.cfg = d.cfg /\ d'.state = d.state
         /\ d'.saved = d.saved /\ d'.speed = d.speed /\ d'.bus = d.bus /\ d'.class = d.class
         /\ d'.user = d.user
<1>1. Served = d /\ Served' = d' BY DEF Served, BusIrq
<1>2. /\ d'.faddr = d.faddr /\ d'.addr = d.addr /\ d'.cfg = d.cfg /\ d'.state = d.state
      /\ d'.saved = d.saved /\ d'.speed = d.speed /\ d'.bus = d.bus /\ d'.class = d.class
      /\ d'.user = d.user /\ d'.eps = d.eps /\ d'.cls = d.cls
      /\ d'.haltTx = d.haltTx /\ d'.haltRx = d.haltRx /\ d'.stallTx = d.stallTx
      /\ d'.stallRx = d.stallRx
  BY DEF Keeps, TransferChanges
<1>3. Level' = Level BY <1>1, <1>2 DEF Level
<1>4. ConfigKept BY <1>1, <1>2, <1>3 DEF ConfigKept, Alike
<1> QED BY <1>1, <1>2, <1>3, <1>4

---------------------------------------------------------------------------
(* The steps of the host.                                                   *)

LEMMA HostSetupKeeps ==
  ASSUME Regular, Overlap = {}, Core, NEW r \in Requests, HostSetup(r)
  PROVE  Core' /\ ConfigKept
<1> DEFINE p == [of |-> "host", n |-> SetupSize, req |-> r]
<1>1. /\ host.phase = "idle" /\ ~host.susp /\ host.addr = d.faddr /\ Legal(r)
      /\ ~d.delay /\ ~irq.ep0 /\ irq.usb = {}
  BY DEF HostSetup, Pending
<1>2. /\ Waiting /\ ~d.sendStall /\ ~d.setupEnd /\ ~d.sentStall
  BY <1>1 DEF Core, CepInv, IdleInv
<1>3. /\ Keeps(d, d', {"rx", "tx", "dataEnd"})
      /\ d'.rx = p /\ d'.tx = NoPkt /\ d'.dataEnd = FALSE
  <2>1. d' = [d EXCEPT !.rx = p, !.tx = NoPkt, !.dataEnd = FALSE] BY DEF HostSetup
  <2> HIDE DEF p
  <2> QED BY <2>1, TypesOfHost DEF Keeps, Core
<1>4. /\ irq'.ep0 = TRUE /\ irq'.usb = {} /\ DOMAIN irq' = {"ep0", "usb"}
      /\ host'.phase = FirstStage(r) /\ host'.req = r /\ host'.n = 0 /\ host'.of = "none"
      /\ host'.addr = host.addr /\ host'.cfg = host.cfg /\ host'.susp = host.susp
      /\ DOMAIN host' = DOMAIN host /\ count' = count
  BY <1>1, TypesOfHost DEF Core, HostSetup
<1>5. host'.phase \in {"in", "out", "status"} BY <1>4 DEF FirstStage
<1>6. /\ d'.setupEnd = d.setupEnd /\ d'.sentStall = d.sentStall /\ d'.sendStall = d.sendStall
      /\ d'.delay = d.delay /\ d'.cep = d.cep /\ d'.cepState = d.cepState /\ d'.buf = d.buf
      /\ d'.len = d.len /\ d'.cnt = d.cnt /\ d'.txn = d.txn /\ d'.faddr = d.faddr
      /\ d'.state = d.state /\ d'.cfg = d.cfg /\ d'.eps = d.eps /\ d'.class = d.class
      /\ d'.bus = d.bus /\ d'.speed = d.speed /\ d'.cls = d.cls /\ d'.haltTx = d.haltTx
      /\ d'.haltRx = d.haltRx /\ d'.stallTx = d.stallTx /\ d'.stallRx = d.stallRx
      /\ d'.setup = d.setup /\ d'.got = d.got /\ d'.classGot = d.classGot
  BY <1>3 DEF Keeps
<1>7. Typed'
  <2>1. Packet(p) BY DEF Packet, SetupSize
  <2>2. Keeps(d, d', TransferChanges) /\ TransferTyped(d')
    BY <1>3, <1>6, <2>1, TypesOfTransfer, TypesOfHost, NoPktIs
    DEF Core, Keeps, TransferTyped, TransferChanges
  <2>3. DriverTyped(d') BY <2>2, TypesOfHost, TransferKeepsTypes DEF Core
  <2>4. /\ host.susp \in BOOLEAN /\ host.addr \in 0..127 \union {Unknown}
        /\ host.cfg \in 0..255 \union {Unknown}
    BY DEF Core, Typed
  <2>5. irq'.ep0 \in BOOLEAN /\ irq'.usb \in {{}, irq.usb} BY <1>4
  <2>6. host'.n \in Nat /\ DOMAIN count' = DOMAIN count BY <1>4
  <2> QED BY <1>4, <1>5, <2>3, <2>4, <2>5, <2>6, TypedNext DEF Core
<1>8. Legal(r)' BY <1>1, <1>4 DEF Legal
<1>9. CepInv'
  <2>1. ToAnswer' BY <1>1, <1>2, <1>3, <1>4, <1>6 DEF ToAnswer, Waiting, IsWaiting
  <2>2. Legal(host.req)' BY <1>8, <1>4 DEF Legal
  <2> QED BY <1>1, <1>2, <1>4, <1>5, <1>6, <2>1, <2>2 DEF CepInv, InTransfer
<1>10. Served = d /\ Served' = d' BY <1>1, <1>4 DEF Served, BusIrq
<1>11. EventInv' BY <1>1, <1>4, <1>5 DEF EventInv
<1>12. AddressInv' BY <1>1, <1>4, <1>5, <1>6 DEF AddressInv
<1>13. Level' = Level BY <1>4, <1>1, <1>6, <1>10 DEF Level
<1>14. LevelInv'
  <2>1. ~AddressTaken /\ ~ConfigTaken BY <1>1 DEF AddressTaken, ConfigTaken
  <2>2. ~AddressTaken' /\ ~ConfigTaken' BY <1>3 DEF AddressTaken, ConfigTaken
  <2>3. Served'.speed = Served'.bus BY <1>1, <1>6, <1>10 DEF Core, LevelInv
  <2> QED BY <1>1, <1>4, <1>6, <1>13, <2>1, <2>2, <2>3, LevelKept DEF Core
<1>15. ConfigKept BY <1>1, <1>6, <1>10, <1>13 DEF ConfigKept, Alike
<1> QED BY <1>7, <1>9, <1>11, <1>12, <1>14, <1>15 DEF Core

\* A packet of an answer is taken, or given.
LEMMA HostInKeeps ==
  ASSUME Regular, Overlap = {}, Core, HostIn
  PROVE  Core' /\ ConfigKept
<1> DEFINE n == host.n + d.tx.n
           req == host.req
<1>1. host.phase = "in" /\ d.tx # NoPkt BY DEF HostIn
<1>2. InTransfer BY <1>1 DEF InTransfer
<1>3. /\ irq.usb = {} /\ ~host.susp /\ host.addr = d.faddr /\ host.addr # Unknown
      /\ req \in Requests /\ Legal(req) /\ d.sentStall = FALSE /\ d.setupEnd = FALSE
  BY <1>2, InTransferIs
<1>4. Sending
  BY <1>1, <1>2, InTransferIs DEF ToAnswer, Refused, Ended, Sending, Receiving
<1>5. /\ d.cep = "tx" /\ d.cepState = "tx" /\ d.rx = NoPkt /\ ~d.sendStall /\ ~d.delay /\ req.in
      /\ d.cnt <= d.len /\ (d.dataEnd <=> d.cnt = d.len)
      /\ d.len = Least(Wanted(req).n, req.len) /\ (d.buf = "none" => d.len = 0)
      /\ DataOf(d.buf) = Wanted(req).of \/ (req.k = "status" /\ req.v # "device")
      /\ d.tx = [of |-> DataOf(d.buf), n |-> d.tx.n, req |-> NoReq] /\ n = d.cnt /\ d.tx.n <= MaxPkt
      /\ d.dataEnd \/ d.tx.n = MaxPkt
      /\ ~irq.ep0
  BY <1>1, <1>4 DEF Sending
<1>6. d.tx.of = DataOf(d.buf) BY <1>5
<1>7. /\ d' = [d EXCEPT !.tx = NoPkt] /\ Keeps(d, d', {"tx"}) /\ d'.tx = NoPkt
  BY TypesOfHost DEF HostIn, Keeps, Core
<1>8. /\ irq'.ep0 = (irq.ep0 \/ ~d.dataEnd) /\ irq'.usb = {} /\ DOMAIN irq' = {"ep0", "usb"}
      /\ host'.req = req /\ host'.n = n /\ host'.of = DataOf(d.buf)
      /\ host'.phase = (IF d.tx.n < MaxPkt \/ n >= req.len THEN "status" ELSE "in")
      /\ host'.addr = host.addr /\ host'.cfg = host.cfg /\ host'.susp = host.susp
      /\ DOMAIN host' = DOMAIN host /\ count' = count
  BY <1>3, <1>6, TypesOfHost DEF Core, HostIn
<1>9. /\ d'.setupEnd = d.setupEnd /\ d'.sentStall = d.sentStall /\ d'.sendStall = d.sendStall
      /\ d'.delay = d.delay /\ d'.cep = d.cep /\ d'.cepState = d.cepState /\ d'.buf = d.buf
      /\ d'.len = d.len /\ d'.cnt = d.cnt /\ d'.txn = d.txn /\ d'.rx = d.rx
      /\ d'.setup = d.setup /\ d'.got = d.got /\ d'.classGot = d.classGot /\ d'.dataEnd = d.dataEnd
      /\ Keeps(d, d', TransferChanges)
  BY <1>7 DEF Keeps, TransferChanges
<1>10. d.tx.n \in Nat /\ d.cnt \in Nat /\ d.len \in Nat /\ req.len \in Nat /\ n \in Nat
       /\ host.phase # "gone"
  BY <1>1, <1>3, <1>5, TypesOfHost DEF Core, DriverTyped, Packet
<1>11. /\ Served = d /\ Served' = d' /\ Level' = Level /\ ConfigKept
       /\ d'.faddr = d.faddr /\ d'.cfg = d.cfg /\ d'.speed = d.speed /\ d'.bus = d.bus
       /\ d'.class = d.class /\ d'.user = d.user
  BY <1>3, <1>8, <1>9, <1>10, TransferStep
<1>12. Typed'
  <2>1. TransferTyped(d')
    BY <1>7, <1>9, TypesOfTransfer, TypesOfHost, NoPktIs DEF Core, TransferTyped
  <2>2. DriverTyped(d') BY <1>9, <2>1, TypesOfHost, TransferKeepsTypes DEF Core
  <2>3. /\ host.susp \in BOOLEAN /\ host.addr \in 0..127 \union {Unknown}
        /\ host.cfg \in 0..255 \union {Unknown}
    BY DEF Core, Typed
  <2>4. irq'.ep0 \in BOOLEAN /\ irq'.usb \in {{}, irq.usb} BY <1>8
  <2>5. host'.n \in Nat /\ DOMAIN count' = DOMAIN count BY <1>8, <1>10
  <2>6. host'.phase \in {"gone", "idle", "in", "out", "status"} BY <1>8
  <2> QED BY <1>8, <2>2, <2>3, <2>4, <2>5, <2>6, TypedNext DEF Core
<1>13. Sending'
  <2>1. /\ WantedN(d', req) = WantedN(d, req)
        /\ WantedOf(d', host'.of, req) = WantedOf(d, host'.of, req)
    BY <1>11, SameWanted
  <2>2. /\ d'.len = Least(Wanted(host.req)'.n, req.len)
    BY <1>5, <1>8, <1>9, <2>1, WantedIs, WantedIsNext
  <2>3. DataOf(d.buf) = Wanted(host.req)'.of \/ (req.k = "status" /\ req.v # "device")
    <3>1. WantedOf(d, host'.of, req) \in {WantedOf(d, host.of, req), host'.of} BY DEF WantedOf
    <3> QED BY <1>5, <1>8, <2>1, <3>1, WantedIs, WantedIsNext
  <2>4. d.len <= req.len
    <3>1. Wanted(req).n = WantedN(d, req) BY WantedIs
    <3> QED BY <1>5, <1>10 DEF Least
  <2>5. d'.dataEnd \/ host'.phase = "in"
    <3>1. CASE ~d.dataEnd
      <4>1. d.cnt < d.len /\ d.tx.n = MaxPkt BY <1>5, <1>10, <3>1
      <4>2. ~(n >= req.len) /\ ~(d.tx.n < MaxPkt) BY <1>5, <1>10, <2>4, <4>1, UsbControlAssumption
      <4> QED BY <1>8, <4>2
    <3> QED BY <1>9, <3>1
  <2>6. irq'.ep0 <=> ~d'.dataEnd BY <1>5, <1>8, <1>9
  <2>7. host'.phase \in {"in", "status"} BY <1>8
  <2>8. host'.n = d'.cnt /\ host'.of = DataOf(d'.buf) BY <1>5, <1>8, <1>9
  <2>9. Least(Wanted(host.req)'.n, host'.req.len) = d'.len BY <1>8, <2>2
  <2> QED BY <1>4, <1>5, <1>7, <1>8, <1>9, <2>3, <2>5, <2>6, <2>7, <2>8, <2>9 DEF Sending
<1>14. CepInv'
  <2>1. Legal(host.req)' BY <1>3, <1>8 DEF Legal
  <2>2. host'.phase \in {"in", "status"} BY <1>8
  <2> QED BY <1>3, <1>8, <1>9, <1>13, <2>1, <2>2 DEF CepInv, InTransfer
<1>15. host'.phase \in {"in", "status"} BY <1>8
<1>16. EventInv' BY <1>3, <1>8, <1>15 DEF EventInv
<1>17. AddressInv' BY <1>3, <1>5, <1>8, <1>9, <1>11, <1>15 DEF AddressInv
<1>18. LevelInv'
  <2>1. req.k \notin {"address", "setConfig"} BY <1>3, <1>5, <1>10 DEF Regular
  <2>2. ~AddressTaken /\ ~ConfigTaken /\ ~AddressTaken' /\ ~ConfigTaken'
    BY <1>8, <2>1 DEF AddressTaken, ConfigTaken
  <2>3. Served'.speed = Served'.bus BY <1>1, <1>11 DEF Core, LevelInv
  <2> QED BY <1>1, <1>8, <1>11, <2>2, <2>3, LevelKept DEF Core
<1> QED BY <1>11, <1>12, <1>14, <1>16, <1>17, <1>18 DEF Core

LEMMA HostOutKeeps ==
  ASSUME Regular, Overlap = {}, Core, HostOut
  PROVE  Core' /\ ConfigKept
<1> DEFINE n == Least(host.req.len - host.n, MaxPkt)
           req == host.req
           p == [of |-> "host", n |-> n, req |-> NoReq]
<1>1. /\ host.phase = "out" /\ d.rx = NoPkt /\ ~d.dataEnd /\ ~d.sendStall
  BY DEF HostOut
<1>2. InTransfer BY <1>1 DEF InTransfer
<1>3. /\ irq.usb = {} /\ ~host.susp /\ host.addr = d.faddr /\ host.addr # Unknown
      /\ req \in Requests /\ Legal(req) /\ d.sentStall = FALSE /\ d.setupEnd = FALSE
  BY <1>2, InTransferIs
<1>4. Receiving
  <2>1. [of |-> "host", n |-> SetupSize, req |-> host.req] # NoPkt BY DEF NoPkt
  <2> QED BY <1>1, <1>2, <2>1, InTransferIs DEF ToAnswer, Refused, Ended, Sending, Receiving
<1>5. /\ d.cep = "rx" /\ d.cepState = "rx" /\ d.tx = NoPkt /\ ~d.delay /\ ~req.in /\ req.len > 0
      /\ d.cnt = 0 /\ host.n <= req.len /\ host.n # req.len
      /\ d.buf = "class" =>
           /\ \/ d.got = 0 /\ d.len = req.len
              \/ d.got = MaxPkt /\ req.len > MaxPkt /\ d.len = Least(req.len - MaxPkt, MaxPkt)
           /\ host.n = d.got
      /\ d.buf # "class" => d.buf = "none" /\ d.len = 0 /\ req.k # "class" /\ host.n = 0
  BY <1>1, <1>4 DEF Receiving
<1>6. req.len \in Nat /\ host.n \in Nat /\ req.len - host.n \in Nat /\ n \in Nat
      /\ n <= req.len - host.n /\ host.phase # "gone"
  <2>1. req.len \in Nat /\ host.n \in Nat BY <1>3, TypesOfHost DEF Core
  <2>2. req.len - host.n \in Nat BY <1>5, <2>1
  <2> QED BY <1>1, <2>1, <2>2, LeastIs, UsbControlAssumption
<1>7. /\ Keeps(d, d', {"rx"}) /\ d'.rx = p
  <2>1. d' = [d EXCEPT !.rx = p]
    <3>1. [NoPkt EXCEPT !.of = "host", !.n = n] = p BY PacketIs
    <3> HIDE DEF p
    <3> QED BY <3>1 DEF HostOut
  <2> HIDE DEF p
  <2> QED BY <2>1, TypesOfHost DEF Core, Keeps
<1>8. /\ irq'.ep0 = TRUE /\ irq'.usb = {} /\ DOMAIN irq' = {"ep0", "usb"}
      /\ host'.req = req /\ host'.n = host.n + n
      /\ host'.phase = (IF host.n + n = req.len THEN "status" ELSE "out")
      /\ host'.addr = host.addr /\ host'.cfg = host.cfg /\ host'.susp = host.susp
      /\ DOMAIN host' = DOMAIN host /\ count' = count
  <2> HIDE DEF n
  <2>1. host' = [host EXCEPT !.n = @ + n,
                             !.phase = IF host.n + n = host.req.len THEN "status" ELSE "out"]
    BY DEF HostOut, n
  <2>2. irq' = [irq EXCEPT !.ep0 = TRUE] /\ count' = count BY DEF HostOut
  <2> QED BY <1>3, <2>1, <2>2, TypesOfHost DEF Core
<1> HIDE DEF n
<1>9. /\ d'.setupEnd = d.setupEnd /\ d'.sentStall = d.sentStall /\ d'.sendStall = d.sendStall
      /\ d'.delay = d.delay /\ d'.cep = d.cep /\ d'.cepState = d.cepState /\ d'.buf = d.buf
      /\ d'.len = d.len /\ d'.cnt = d.cnt /\ d'.txn = d.txn /\ d'.tx = d.tx
      /\ d'.setup = d.setup /\ d'.got = d.got /\ d'.classGot = d.classGot /\ d'.dataEnd = d.dataEnd
      /\ Keeps(d, d', TransferChanges)
  BY <1>7 DEF Keeps, TransferChanges
<1>11. /\ Served = d /\ Served' = d' /\ Level' = Level /\ ConfigKept
       /\ d'.faddr = d.faddr /\ d'.cfg = d.cfg /\ d'.speed = d.speed /\ d'.bus = d.bus
  BY <1>3, <1>6, <1>8, <1>9, TransferStep
<1>12. Typed'
  <2>1. Packet(d'.rx) BY <1>6, <1>7, PacketOf
  <2>2. TransferTyped(d')
    BY <1>9, <2>1, TypesOfTransfer, TypesOfHost DEF Core, TransferTyped
  <2>3. DriverTyped(d') BY <1>9, <2>2, TypesOfHost, TransferKeepsTypes DEF Core
  <2>4. /\ host.susp \in BOOLEAN /\ host.addr \in 0..127 \union {Unknown}
        /\ host.cfg \in 0..255 \union {Unknown}
    BY DEF Core, Typed
  <2>5. irq'.ep0 \in BOOLEAN /\ irq'.usb \in {{}, irq.usb} BY <1>8
  <2>6. host'.n \in Nat /\ DOMAIN count' = DOMAIN count BY <1>6, <1>8
  <2>7. host'.phase \in {"gone", "idle", "in", "out", "status"} BY <1>8
  <2> QED BY <1>8, <2>3, <2>4, <2>5, <2>6, <2>7, TypedNext DEF Core
<1>13. Receiving'
  <2>1. d'.rx # NoPkt /\ d'.rx.n = n BY <1>7 DEF NoPkt
  <2>2. host'.n <= req.len BY <1>6, <1>8
  <2>3. d.buf = "class" => n = Least(req.len - d.got, MaxPkt) /\ host'.n = d.got + n
    BY <1>5, <1>8 DEF n
  <2> HIDE DEF p
  <2> QED BY <1>1, <1>5, <1>8, <1>9, <2>1, <2>2, <2>3 DEF Receiving
<1>14. host'.phase \in {"out", "status"} BY <1>8
<1>15. CepInv'
  <2>1. Legal(host.req)' BY <1>3, <1>8 DEF Legal
  <2> QED BY <1>3, <1>8, <1>9, <1>13, <1>14, <2>1 DEF CepInv, InTransfer
<1>16. EventInv' BY <1>3, <1>8, <1>14 DEF EventInv
<1>17. AddressInv' BY <1>3, <1>5, <1>8, <1>9, <1>11, <1>14 DEF AddressInv
<1>18. LevelInv'
  <2>1. ~AddressTaken /\ ~ConfigTaken /\ ~AddressTaken' /\ ~ConfigTaken'
    BY <1>1, <1>9 DEF AddressTaken, ConfigTaken
  <2>2. Served'.speed = Served'.bus BY <1>1, <1>11 DEF Core, LevelInv
  <2> QED BY <1>1, <1>8, <1>11, <2>1, <2>2, LevelKept DEF Core
<1> QED BY <1>11, <1>12, <1>15, <1>16, <1>17, <1>18 DEF Core

\* The transfer is over: what Over leaves to the host.
LEMMA OverIs ==
  ASSUME Typed
  PROVE  /\ Over.phase = "idle" /\ Over.req = NoReq /\ Over.n = 0 /\ Over.of = "none"
         /\ Over.addr = host.addr /\ Over.cfg = host.cfg /\ Over.susp = host.susp
         /\ DOMAIN Over = DOMAIN host
  BY TypesOfHost DEF Over

LEMMA HostStatusKeeps ==
  ASSUME Regular, Overlap = {}, Core, HostStatus
  PROVE  Core' /\ ConfigKept
<1> DEFINE req == host.req
<1>1. host.phase = "status" /\ d.dataEnd /\ d.tx = NoPkt BY DEF HostStatus, AboutToEndWell
<1>2. InTransfer BY <1>1 DEF InTransfer
<1>3. /\ irq.usb = {} /\ ~host.susp /\ host.addr = d.faddr /\ host.addr # Unknown
      /\ req \in Requests /\ Legal(req) /\ d.sentStall = FALSE /\ d.setupEnd = FALSE
  BY <1>2, InTransferIs
<1>4. Ended \/ Sending
  BY <1>1, <1>2, InTransferIs DEF ToAnswer, Refused, Ended, Sending, Receiving
<1>5. d.rx = NoPkt /\ ~d.sendStall BY <1>4 DEF Ended, Sending
<1>6. IF d.delay THEN req.k = "address" /\ d.addr = req.v /\ d.cepState = "idle"
      ELSE /\ req.k # "address"
           /\ Waiting \/ (d.cep = "tx" /\ d.cepState = "tx" /\ d.cnt >= d.len)
  <2>1. CASE Ended BY <2>1 DEF Ended
  <2>2. CASE Sending
    <3>1. req.k # "address" BY <1>3, <2>2 DEF Sending, Regular
    <3>2. d.cnt \in Nat /\ d.len \in Nat BY TypesOfHost DEF Core, DriverTyped
    <3> QED BY <1>1, <2>2, <3>1, <3>2 DEF Sending
  <2> QED BY <1>4, <2>1, <2>2
<1>7. /\ Keeps(d, d', {"dataEnd", "classGot"}) /\ d'.dataEnd = FALSE /\ d'.classGot = 0
  BY TypesOfHost DEF HostStatus, Keeps, Core
<1>8. /\ irq'.ep0 = TRUE /\ irq'.usb = {} /\ DOMAIN irq' = {"ep0", "usb"}
      /\ host'.phase = "idle" /\ host'.n = 0 /\ host'.susp = host.susp
      /\ host'.addr = (IF req.k = "address" THEN req.v ELSE host.addr)
      /\ host'.cfg = (IF req.k = "setConfig" THEN req.v ELSE host.cfg)
      /\ DOMAIN host' = DOMAIN host /\ count' = count
  <2>1. host' = [Over EXCEPT !.addr = IF req.k = "address" THEN req.v ELSE @,
                             !.cfg = IF req.k = "setConfig" THEN req.v ELSE @]
    BY DEF HostStatus
  <2>2. irq' = [irq EXCEPT !.ep0 = TRUE] /\ count' = count BY DEF HostStatus
  <2>3. Typed BY DEF Core
  <2> QED BY <1>3, <2>1, <2>2, <2>3, OverIs, TypesOfHost
<1>9. /\ d'.setupEnd = d.setupEnd /\ d'.sentStall = d.sentStall /\ d'.sendStall = d.sendStall
      /\ d'.delay = d.delay /\ d'.cep = d.cep /\ d'.cepState = d.cepState /\ d'.buf = d.buf
      /\ d'.len = d.len /\ d'.cnt = d.cnt /\ d'.txn = d.txn /\ d'.tx = d.tx /\ d'.rx = d.rx
      /\ d'.setup = d.setup /\ d'.got = d.got
      /\ Keeps(d, d', TransferChanges)
  BY <1>7 DEF Keeps, TransferChanges
<1>10. req.k = "address" => req.v \in 0..127 BY <1>3 DEF Regular
<1>11. req.k = "setConfig" => req.v \in 0..255 BY <1>3 DEF Regular
<1>12. /\ Served = d /\ Served' = d' /\ Level' = Level /\ ConfigKept
       /\ d'.faddr = d.faddr /\ d'.addr = d.addr /\ d'.cfg = d.cfg /\ d'.speed = d.speed
       /\ d'.bus = d.bus
  BY <1>1, <1>3, <1>8, <1>9, TransferStep
<1>13. Typed'
  <2>7. d'.classGot \in Nat BY <1>7
  <2>8. d'.dataEnd \in BOOLEAN BY <1>7
  <2>1. TransferTyped(d')
    BY <1>9, <2>7, <2>8, TypesOfTransfer, TypesOfHost DEF Core, TransferTyped
  <2>2. DriverTyped(d') BY <1>9, <2>1, TypesOfHost, TransferKeepsTypes DEF Core
  <2>3. /\ host.susp \in BOOLEAN /\ host.addr \in 0..127 \union {Unknown}
        /\ host.cfg \in 0..255 \union {Unknown}
    BY DEF Core, Typed
  <2>4. host'.addr \in 0..127 \union {Unknown} /\ host'.cfg \in 0..255 \union {Unknown}
    BY <1>8, <1>10, <1>11, <2>3
  <2>5. irq'.ep0 \in BOOLEAN /\ irq'.usb \in {{}, irq.usb} BY <1>8
  <2>6. host'.n \in Nat /\ DOMAIN count' = DOMAIN count BY <1>8
  <2> QED BY <1>8, <2>2, <2>3, <2>4, <2>5, <2>6, TypedNext DEF Core
<1>14. CepInv'
  <2>1. IdleInv' BY <1>1, <1>3, <1>5, <1>6, <1>8, <1>9 DEF IdleInv, Waiting, IsWaiting
  <2> QED BY <1>8, <2>1 DEF CepInv, InTransfer
<1>15. EventInv' BY <1>3, <1>8 DEF EventInv
<1>16. AddressInv' BY <1>3, <1>6, <1>8, <1>9, <1>12 DEF AddressInv, InTransfer
<1>17. LevelInv'
  <2>1. ~AddressTaken' /\ ~ConfigTaken' BY <1>8 DEF AddressTaken, ConfigTaken
  <2>2. AddressTaken <=> req.k = "address" BY <1>1 DEF AddressTaken
  <2>3. ConfigTaken <=> req.k = "setConfig" BY <1>1 DEF ConfigTaken
  <2>4. Served'.speed = Served'.bus BY <1>1, <1>12 DEF Core, LevelInv
  <2>5. Unknown = 256 BY DEF Unknown
  <2>6. LevelInv BY DEF Core
  <2>7. CASE req.k = "address"
    <3>1. req.v # Unknown BY <1>10, <2>5, <2>7
    <3>2. host.cfg = 0
      BY <1>1, <1>3, <2>6, <2>7 DEF Legal, LevelInv
    <3>3. Level = IF host.addr = 0 THEN IF req.v # 0 THEN "address" ELSE "default"
                  ELSE IF req.v = 0 THEN "default" ELSE "address"
      BY <1>1, <1>3, <2>2, <2>3, <2>6, <2>7, <3>2, <2>5 DEF LevelInv
    <3> QED BY <1>8, <1>12, <2>1, <2>4, <2>5, <2>7, <3>1, <3>2, <3>3 DEF LevelInv
  <2>8. CASE req.k = "setConfig"
    <3>1. host.addr # 0 BY <1>3, <2>8 DEF Legal
    <3>2. Level = (IF req.v = 0 THEN "address" ELSE "configured") /\ d.cfg = req.v
      BY <1>1, <1>3, <2>2, <2>3, <2>6, <2>8, <3>1 DEF LevelInv
    <3>3. req.v # Unknown BY <1>11, <2>5, <2>8
    <3> QED BY <1>3, <1>8, <1>12, <2>1, <2>4, <2>5, <2>8, <3>1, <3>2, <3>3 DEF LevelInv
  <2>9. CASE req.k \notin {"address", "setConfig"}
    BY <1>1, <1>8, <1>12, <2>1, <2>2, <2>3, <2>4, <2>6, <2>9, LevelKept
  <2> QED BY <2>7, <2>8, <2>9
<1> QED BY <1>12, <1>13, <1>14, <1>15, <1>16, <1>17 DEF Core

LEMMA HostStalledKeeps ==
  ASSUME Regular, Overlap = {}, Core, HostStalled
  PROVE  Core' /\ ConfigKept
<1>1. /\ host.phase \in {"in", "out", "status"}
      /\ d.sendStall \/ (d.dataEnd /\ d.tx = NoPkt /\ host.phase # "status")
  BY DEF HostStalled
<1>2. InTransfer BY <1>1 DEF InTransfer
<1>3. /\ irq.usb = {} /\ ~host.susp /\ host.addr = d.faddr /\ host.addr # Unknown
      /\ d.sentStall = FALSE /\ d.setupEnd = FALSE
  BY <1>2, InTransferIs
<1>4. /\ d.rx = NoPkt /\ d.tx = NoPkt /\ ~d.delay
      /\ d.dataEnd => host.phase # "status"
  BY <1>1, <1>2, InTransferIs DEF ToAnswer, Refused, Ended, Sending, Receiving
<1>5. /\ Keeps(d, d', {"sendStall", "sentStall"}) /\ d'.sendStall = FALSE /\ d'.sentStall = TRUE
  BY TypesOfHost DEF HostStalled, Keeps, Core
<1>6. /\ irq'.ep0 = TRUE /\ irq'.usb = {} /\ DOMAIN irq' = {"ep0", "usb"}
      /\ host'.phase = "idle" /\ host'.n = 0 /\ host'.susp = host.susp
      /\ host'.addr = host.addr /\ host'.cfg = host.cfg
      /\ DOMAIN host' = DOMAIN host /\ count' = count
  <2>1. Typed BY DEF Core
  <2> QED BY <1>3, <2>1, OverIs, TypesOfHost DEF HostStalled
<1>7. /\ d'.setupEnd = d.setupEnd /\ d'.dataEnd = d.dataEnd /\ d'.classGot = d.classGot
      /\ d'.delay = d.delay /\ d'.cep = d.cep /\ d'.cepState = d.cepState /\ d'.buf = d.buf
      /\ d'.len = d.len /\ d'.cnt = d.cnt /\ d'.txn = d.txn /\ d'.tx = d.tx /\ d'.rx = d.rx
      /\ d'.setup = d.setup /\ d'.got = d.got
      /\ Keeps(d, d', TransferChanges)
  BY <1>5 DEF Keeps, TransferChanges
<1>8. /\ Served = d /\ Served' = d' /\ Level' = Level /\ ConfigKept
      /\ d'.faddr = d.faddr /\ d'.addr = d.addr /\ d'.cfg = d.cfg /\ d'.speed = d.speed
      /\ d'.bus = d.bus
  BY <1>1, <1>3, <1>6, <1>7, TransferStep
<1>9. Typed'
  <2>1. TransferTyped(d')
    BY <1>5, <1>7, TypesOfTransfer, TypesOfHost DEF Core, TransferTyped
  <2>2. DriverTyped(d') BY <1>7, <2>1, TypesOfHost, TransferKeepsTypes DEF Core
  <2>3. /\ host.susp \in BOOLEAN /\ host.addr \in 0..127 \union {Unknown}
        /\ host.cfg \in 0..255 \union {Unknown}
    BY DEF Core, Typed
  <2>4. irq'.ep0 \in BOOLEAN /\ irq'.usb \in {{}, irq.usb} BY <1>6
  <2>5. host'.n \in Nat /\ DOMAIN count' = DOMAIN count BY <1>6
  <2> QED BY <1>6, <2>2, <2>3, <2>4, <2>5, TypedNext DEF Core
<1>10. CepInv'
  <2>1. IdleInv' BY <1>3, <1>4, <1>5, <1>6, <1>7 DEF IdleInv
  <2> QED BY <1>6, <2>1 DEF CepInv, InTransfer
<1>11. EventInv' BY <1>3, <1>6 DEF EventInv
<1>12. AddressInv' BY <1>3, <1>4, <1>6, <1>7, <1>8 DEF AddressInv, InTransfer
<1>13. LevelInv'
  <2>1. ~AddressTaken' /\ ~ConfigTaken' BY <1>6 DEF AddressTaken, ConfigTaken
  <2>2. ~AddressTaken /\ ~ConfigTaken BY <1>4 DEF AddressTaken, ConfigTaken
  <2>3. Served'.speed = Served'.bus BY <1>1, <1>8 DEF Core, LevelInv
  <2> QED BY <1>1, <1>6, <1>8, <2>1, <2>2, <2>3, LevelKept DEF Core
<1> QED BY <1>8, <1>9, <1>10, <1>11, <1>12, <1>13 DEF Core

\* What the host gives up it no longer knows the outcome of.
LEMMA HostAbortKeeps ==
  ASSUME Regular, Overlap = {}, Core, HostAbort
  PROVE  Core' /\ ConfigKept
<1> DEFINE req == host.req
<1>1. /\ host.phase \in {"in", "out", "status"} /\ ~(d.dataEnd /\ d.cepState = "tx")
  BY DEF HostAbort
<1>2. InTransfer BY <1>1 DEF InTransfer
<1>3. /\ irq.usb = {} /\ ~host.susp /\ host.addr = d.faddr /\ host.addr # Unknown
      /\ req \in Requests /\ Legal(req) /\ d.sentStall = FALSE /\ d.setupEnd = FALSE
  BY <1>2, InTransferIs
<1>4. /\ d.dataEnd /\ ~d.delay => Waiting
      /\ d.delay => d.dataEnd /\ d.cepState = "idle" /\ req.k = "address"
  BY <1>1, <1>2, InTransferIs DEF ToAnswer, Refused, Ended, Sending, Receiving
<1>5. /\ Keeps(d, d', {"setupEnd", "rx", "tx", "dataEnd", "sendStall"})
      /\ d'.setupEnd = (~d.dataEnd) /\ d'.rx = NoPkt /\ d'.tx = NoPkt /\ d'.dataEnd = FALSE
      /\ d'.sendStall = FALSE
  BY TypesOfHost DEF HostAbort, Keeps, Core
<1>6. /\ irq'.ep0 = (irq.ep0 \/ ~d.dataEnd) /\ irq'.usb = {} /\ DOMAIN irq' = {"ep0", "usb"}
      /\ host'.phase = "idle" /\ host'.n = 0 /\ host'.susp = host.susp
      /\ host'.addr = (IF req.k = "address" THEN Unknown ELSE host.addr)
      /\ host'.cfg = (IF req.k = "setConfig" THEN Unknown ELSE host.cfg)
      /\ DOMAIN host' = DOMAIN host /\ DOMAIN count' = DOMAIN count
  <2>1. host' = [Over EXCEPT !.addr = IF req.k = "address" THEN Unknown ELSE @,
                             !.cfg = IF req.k = "setConfig" THEN Unknown ELSE @]
    BY DEF HostAbort
  <2>2. irq' = [irq EXCEPT !.ep0 = @ \/ ~d.dataEnd] /\ count' = [count EXCEPT !.aborts = @ + 1]
    BY DEF HostAbort
  <2>3. Typed BY DEF Core
  <2> QED BY <1>3, <2>1, <2>2, <2>3, OverIs, TypesOfHost
<1>7. /\ d'.classGot = d.classGot /\ d'.sentStall = d.sentStall
      /\ d'.delay = d.delay /\ d'.cep = d.cep /\ d'.cepState = d.cepState /\ d'.buf = d.buf
      /\ d'.len = d.len /\ d'.cnt = d.cnt /\ d'.txn = d.txn
      /\ d'.setup = d.setup /\ d'.got = d.got
      /\ Keeps(d, d', TransferChanges)
  BY <1>5 DEF Keeps, TransferChanges
<1>8. /\ Served = d /\ Served' = d' /\ Level' = Level /\ ConfigKept
      /\ d'.faddr = d.faddr /\ d'.addr = d.addr /\ d'.cfg = d.cfg /\ d'.speed = d.speed
      /\ d'.bus = d.bus
  BY <1>1, <1>3, <1>6, <1>7, TransferStep
<1>9. Typed'
  <2>1. TransferTyped(d')
    BY <1>5, <1>7, TypesOfTransfer, TypesOfHost, NoPktIs DEF Core, TransferTyped
  <2>2. DriverTyped(d') BY <1>7, <2>1, TypesOfHost, TransferKeepsTypes DEF Core
  <2>3. /\ host.susp \in BOOLEAN /\ host.addr \in 0..127 \union {Unknown}
        /\ host.cfg \in 0..255 \union {Unknown}
    BY DEF Core, Typed
  <2>4. host'.addr \in 0..127 \union {Unknown} /\ host'.cfg \in 0..255 \union {Unknown}
    BY <1>6, <2>3
  <2>5. irq'.ep0 \in BOOLEAN /\ irq'.usb \in {{}, irq.usb} BY <1>6
  <2>6. host'.n \in Nat BY <1>6
  <2> QED BY <1>6, <2>2, <2>3, <2>4, <2>5, <2>6, TypedNext DEF Core
<1>10. CepInv'
  <2>1. IdleInv' BY <1>3, <1>4, <1>5, <1>6, <1>7 DEF IdleInv, Waiting, IsWaiting
  <2> QED BY <1>6, <2>1 DEF CepInv, InTransfer
<1>11. EventInv' BY <1>3, <1>6 DEF EventInv
<1>12. AddressInv' BY <1>3, <1>4, <1>6, <1>7, <1>8 DEF AddressInv, InTransfer
<1>13. LevelInv'
  <2>1. ~AddressTaken' /\ ~ConfigTaken' BY <1>6 DEF AddressTaken, ConfigTaken
  <2>2. Served'.speed = Served'.bus BY <1>1, <1>8 DEF Core, LevelInv
  <2>3. Unknown = 256 BY DEF Unknown
  <2>4. LevelInv BY DEF Core
  <2>5. CASE req.k = "address"
    <3>1. ~ConfigTaken BY <2>5 DEF ConfigTaken
    <3>2. host.cfg = 0 BY <1>1, <1>3, <2>4, <2>5 DEF Legal, LevelInv
    <3>3. Level \in {"default", "address"}
      BY <1>1, <1>3, <2>3, <2>4, <3>1, <3>2 DEF LevelInv
    <3> QED BY <1>6, <1>8, <2>1, <2>2, <2>3, <2>5, <3>2, <3>3 DEF LevelInv
  <2>6. CASE req.k = "setConfig"
    <3>1. ~AddressTaken BY <2>6 DEF AddressTaken
    <3>2. host.addr # 0 BY <1>3, <2>6 DEF Legal
    <3>3. Level \in {"address", "configured"}
      BY <1>1, <1>3, <2>4, <3>1, <3>2 DEF LevelInv
    <3> QED BY <1>3, <1>6, <1>8, <2>1, <2>2, <2>3, <2>6, <3>2, <3>3 DEF LevelInv
  <2>7. CASE req.k \notin {"address", "setConfig"}
    <3>1. ~AddressTaken /\ ~ConfigTaken BY <2>7 DEF AddressTaken, ConfigTaken
    <3> QED BY <1>1, <1>6, <1>8, <2>1, <2>2, <2>4, <2>7, <3>1, LevelKept
  <2> QED BY <2>5, <2>6, <2>7
<1> QED BY <1>8, <1>9, <1>10, <1>11, <1>12, <1>13 DEF Core

---------------------------------------------------------------------------
(* The bus.                                                                 *)

LEMMA TypedEvent ==
  ASSUME Typed, DriverTyped(d'), DOMAIN irq' = {"ep0", "usb"}, irq'.ep0 \in BOOLEAN,
         NEW e \in UsbEvents, irq'.usb \subseteq {e, "reset"},
         DOMAIN host' = DOMAIN host, DOMAIN count' = DOMAIN count,
         host'.phase \in {"gone", "idle", "in", "out", "status"}, host'.n \in Nat,
         host'.susp \in BOOLEAN, host'.addr \in 0..127 \union {Unknown},
         host'.cfg \in 0..255 \union {Unknown}
  PROVE  Typed'
  BY DEF Typed

LEMMA BusResetKeeps ==
  ASSUME Regular, Overlap = {}, Core, BusReset
  PROVE  Core' /\ ConfigKept
<1>0. Typed BY DEF Core
<1>1. ~d.delay BY DEF BusReset
<1> DEFINE Cut == {"faddr", "rx", "tx", "dataEnd", "setupEnd", "sendStall", "sentStall", "stallTx",
                   "stallRx"}
<1>2. /\ Keeps(d, d', Cut)
      /\ d'.faddr = 0 /\ d'.rx = NoPkt /\ d'.tx = NoPkt /\ d'.dataEnd = FALSE
      /\ d'.setupEnd = FALSE /\ d'.sendStall = FALSE /\ d'.sentStall = FALSE
      /\ d'.stallTx = FALSE /\ d'.stallRx = FALSE
  BY TypesOfHost DEF BusReset, Keeps, Core
<1>3. /\ irq'.ep0 = irq.ep0 /\ irq'.usb = irq.usb \union {"reset"} /\ DOMAIN irq' = {"ep0", "usb"}
      /\ DOMAIN count' = DOMAIN count
  BY <1>0, TypesOfHost DEF BusReset, Bus, Raise
<1>4. /\ host'.phase = "idle" /\ host'.n = 0 /\ host'.susp = FALSE /\ host'.addr = 0
      /\ host'.cfg = 0 /\ DOMAIN host' = DOMAIN host
  <2>1. host' = [Over EXCEPT !.addr = 0, !.cfg = 0, !.susp = FALSE] BY DEF BusReset
  <2> QED BY <1>0, <2>1, OverIs, TypesOfHost
<1>5. /\ d'.state = d.state /\ d'.saved = d.saved /\ d'.addr = d.addr /\ d'.class = d.class
      /\ d'.user = d.user /\ d'.bus = d.bus /\ d'.speed = d.speed /\ d'.cep = d.cep
      /\ d'.cepState = d.cepState /\ d'.len = d.len /\ d'.cnt = d.cnt /\ d'.txn = d.txn
      /\ d'.got = d.got /\ d'.classGot = d.classGot /\ d'.setup = d.setup /\ d'.delay = d.delay
      /\ d'.haltTx = d.haltTx /\ d'.haltRx = d.haltRx /\ DOMAIN d' = Fields
      /\ d'.eps = d.eps
  BY <1>2 DEF Keeps
<1>6. DriverTyped(d')
  <2>1. /\ d'.faddr \in 0..127 /\ Packet(d'.rx) /\ Packet(d'.tx) BY <1>2, NoPktIs
  <2>2. /\ d'.dataEnd \in BOOLEAN /\ d'.setupEnd \in BOOLEAN /\ d'.sendStall \in BOOLEAN
        /\ d'.sentStall \in BOOLEAN /\ d'.stallTx \in BOOLEAN /\ d'.stallRx \in BOOLEAN
    BY <1>2
  <2>3. DriverTyped(d) BY <1>0, TypesOfHost
  <2> QED BY <1>5, <2>1, <2>2, <2>3 DEF DriverTyped
<1>7. PICK e \in UsbEvents : irq'.usb \subseteq {e, "reset"} BY <1>0, <1>3 DEF Typed
<1>8. Typed'
  <2>1. host'.phase \in {"gone", "idle", "in", "out", "status"} BY <1>4
  <2>2. host'.n \in Nat /\ host'.addr \in 0..127 \union {Unknown} BY <1>4
  <2>3. host'.cfg \in 0..255 \union {Unknown} BY <1>4
  <2>4. host'.susp \in BOOLEAN BY <1>4
  <2>5. irq'.ep0 \in BOOLEAN BY <1>0, <1>3, TypesOfHost
  <2> QED BY <1>0, <1>3, <1>4, <1>6, <1>7, <2>1, <2>2, <2>3, <2>4, <2>5, TypedEvent
<1>9. "reset" \in irq'.usb BY <1>3
<1>10. CepInv'
  BY <1>1, <1>2, <1>4, <1>5, <1>9 DEF CepInv, Cleared, InTransfer
<1>11. EventInv' BY <1>4, <1>9 DEF EventInv
<1>12. AddressInv' BY <1>1, <1>2, <1>4, <1>5 DEF AddressInv, InTransfer
<1>13. Served'.state = "default" /\ Served'.speed = d'.bus /\ Served'.bus = d'.bus
  <2>1. Served' = BusIrq(d', irq'.usb) BY DEF Served
  <2>2. WasReset(d', Served') /\ Keeps(d', Served', BusChanges)
    BY <1>6, <1>7, <1>9, <2>1, BusIrqDoes
  <2>3. Served'.bus = d'.bus
    BY <2>2 DEF Keeps, BusChanges, EventChanges, ResetChanges, RearmChanges
  <2> QED BY <2>2, <2>3 DEF WasReset
<1>14. Level' = "default" BY <1>4, <1>13 DEF Level
<1>15. ~AddressTaken' /\ ~ConfigTaken' BY <1>4 DEF AddressTaken, ConfigTaken
<1>16. LevelInv' BY <1>4, <1>13, <1>14, <1>15 DEF LevelInv, Unknown
<1>17. ConfigKept BY <1>5, <1>14 DEF ConfigKept
<1> QED BY <1>8, <1>10, <1>11, <1>12, <1>16, <1>17 DEF Core

LEMMA BusSuspendKeeps ==
  ASSUME Regular, Overlap = {}, Core, BusSuspend
  PROVE  Core' /\ ConfigKept
<1>0. Typed BY DEF Core
<1>1. host.phase = "idle" /\ ~host.susp /\ irq.usb = {} /\ d' = d
  BY DEF BusSuspend, Bus, Raise
<1>2. /\ irq'.ep0 = irq.ep0 /\ irq'.usb = {"suspend"} /\ DOMAIN irq' = {"ep0", "usb"}
      /\ DOMAIN count' = DOMAIN count
  BY <1>0, <1>1, TypesOfHost DEF BusSuspend, Bus, Raise
<1>3. /\ host'.phase = "idle" /\ host'.n = host.n /\ host'.susp = TRUE /\ host'.addr = host.addr
      /\ host'.cfg = host.cfg /\ DOMAIN host' = DOMAIN host
  BY <1>0, <1>1, TypesOfHost DEF BusSuspend
<1>4. DriverTyped(d) BY <1>0, TypesOfHost
<1>5. Typed'
  <2>1. host'.phase \in {"gone", "idle", "in", "out", "status"} BY <1>3
  <2>2. /\ host'.n \in Nat /\ host'.addr \in 0..127 \union {Unknown}
        /\ host'.cfg \in 0..255 \union {Unknown}
    BY <1>0, <1>3 DEF Typed
  <2>3. host'.susp \in BOOLEAN BY <1>3
  <2>4. irq'.ep0 \in BOOLEAN BY <1>0, <1>2, TypesOfHost
  <2>5. "suspend" \in UsbEvents /\ irq'.usb \subseteq {"suspend", "reset"} BY <1>2 DEF UsbEvents
  <2>6. DriverTyped(d') BY <1>1, <1>4
  <2> QED BY <1>0, <1>2, <1>3, <2>1, <2>2, <2>3, <2>4, <2>5, <2>6, TypedEvent
<1>6. CepInv'
  <2>1. IdleInv BY <1>1 DEF Core, CepInv
  <2>2. IdleInv' BY <1>1, <1>2, <2>1 DEF IdleInv, Waiting, IsWaiting
  <2> QED BY <1>2, <1>3, <2>2 DEF CepInv, InTransfer
<1>7. Served = d /\ Served' = SuspendCb(d) BY <1>1, <1>2 DEF Served, BusIrq
<1>8. /\ Served'.state = "suspended" /\ Served'.saved = d.state /\ Served'.cls = d.cls
      /\ Served'.speed = d.speed /\ Served'.bus = d.bus
  BY <1>4, <1>7, SuspendCbDoes DEF Keeps
<1>9. Level' = Level BY <1>1, <1>3, <1>7, <1>8 DEF Level
<1>10. EventInv' BY <1>1, <1>2, <1>3, <1>8 DEF EventInv
<1>11. AddressInv' BY <1>1, <1>3 DEF Core, AddressInv, InTransfer
<1>12. LevelInv'
  <2>1. ~AddressTaken' /\ ~ConfigTaken' BY <1>3 DEF AddressTaken, ConfigTaken
  <2>2. ~AddressTaken /\ ~ConfigTaken BY <1>1 DEF AddressTaken, ConfigTaken
  <2>3. Served'.speed = Served'.bus BY <1>1, <1>7, <1>8 DEF Core, LevelInv
  <2> QED BY <1>1, <1>3, <1>9, <2>1, <2>2, <2>3, LevelKept DEF Core
<1>13. ConfigKept BY <1>1, <1>7, <1>8, <1>9 DEF ConfigKept, Alike
<1> QED BY <1>5, <1>6, <1>10, <1>11, <1>12, <1>13 DEF Core

LEMMA BusResumeKeeps ==
  ASSUME Regular, Overlap = {}, Core, BusResume
  PROVE  Core' /\ ConfigKept
<1>0. Typed BY DEF Core
<1>1. host.susp /\ irq.usb = {} /\ d' = d BY DEF BusResume, Raise
<1>2. Served = d BY <1>1, ServedNow
<1>3. d.state = "suspended" /\ host.phase = "idle" BY <1>1, <1>2 DEF Core, EventInv
<1>4. /\ irq'.ep0 = irq.ep0 /\ irq'.usb = {"resume"} /\ DOMAIN irq' = {"ep0", "usb"}
      /\ count' = count
  BY <1>0, <1>1, TypesOfHost DEF BusResume, Raise
<1>5. /\ host'.phase = "idle" /\ host'.n = host.n /\ host'.susp = FALSE /\ host'.addr = host.addr
      /\ host'.cfg = host.cfg /\ DOMAIN host' = DOMAIN host
  BY <1>0, <1>3, TypesOfHost DEF BusResume
<1>6. DriverTyped(d) BY <1>0, TypesOfHost
<1>7. Typed'
  <2>1. host'.phase \in {"gone", "idle", "in", "out", "status"} BY <1>5
  <2>2. /\ host'.n \in Nat /\ host'.addr \in 0..127 \union {Unknown}
        /\ host'.cfg \in 0..255 \union {Unknown}
    BY <1>0, <1>5 DEF Typed
  <2>3. host'.susp \in BOOLEAN BY <1>5
  <2>4. irq'.ep0 \in BOOLEAN BY <1>0, <1>4, TypesOfHost
  <2>5. "resume" \in UsbEvents /\ irq'.usb \subseteq {"resume", "reset"} BY <1>4 DEF UsbEvents
  <2>6. DriverTyped(d') /\ DOMAIN count' = DOMAIN count BY <1>1, <1>4, <1>6
  <2> QED BY <1>0, <1>4, <1>5, <2>1, <2>2, <2>3, <2>4, <2>5, <2>6, TypedEvent
<1>8. CepInv'
  <2>1. IdleInv BY <1>1, <1>3 DEF Core, CepInv
  <2>2. IdleInv' BY <1>1, <1>4, <2>1 DEF IdleInv, Waiting, IsWaiting
  <2> QED BY <1>4, <1>5, <2>2 DEF CepInv, InTransfer
<1>9. Served' = ResumeCb(d) BY <1>1, <1>4 DEF Served, BusIrq
<1>10. /\ Served'.state = d.saved /\ Served'.cls = d.cls
       /\ Served'.speed = d.speed /\ Served'.bus = d.bus
  BY <1>6, <1>9, ResumeCbDoes DEF Keeps
<1>11. Level' = Level BY <1>1, <1>2, <1>5, <1>10 DEF Level
<1>12. EventInv' BY <1>1, <1>3, <1>4, <1>5 DEF EventInv
<1>13. AddressInv' BY <1>1, <1>3, <1>5 DEF Core, AddressInv, InTransfer
<1>14. LevelInv'
  <2>1. ~AddressTaken' /\ ~ConfigTaken' BY <1>5 DEF AddressTaken, ConfigTaken
  <2>2. ~AddressTaken /\ ~ConfigTaken BY <1>3 DEF AddressTaken, ConfigTaken
  <2>3. Served'.speed = Served'.bus BY <1>2, <1>3, <1>10 DEF Core, LevelInv
  <2> QED BY <1>1, <1>3, <1>5, <1>11, <2>1, <2>2, <2>3, LevelKept DEF Core
<1>15. ConfigKept BY <1>1, <1>2, <1>3, <1>10, <1>11 DEF ConfigKept, Alike
<1> QED BY <1>7, <1>8, <1>12, <1>13, <1>14, <1>15 DEF Core

LEMMA UnplugKeeps ==
  ASSUME Regular, Overlap = {}, Core, Unplug
  PROVE  Core' /\ ConfigKept
<1>0. Typed BY DEF Core
<1>1. irq.usb = {} /\ d' = d BY DEF Unplug, Bus, Raise
<1>2. /\ irq'.ep0 = irq.ep0 /\ irq'.usb = {"disconnect"} /\ DOMAIN irq' = {"ep0", "usb"}
      /\ DOMAIN count' = DOMAIN count
  BY <1>0, <1>1, TypesOfHost DEF Unplug, Bus, Raise
<1>3. /\ host'.phase = "gone" /\ host'.n = 0 /\ host'.susp = FALSE /\ host'.addr = host.addr
      /\ host'.cfg = host.cfg /\ DOMAIN host' = DOMAIN host
  <2>1. host' = [Over EXCEPT !.phase = "gone", !.susp = FALSE] BY DEF Unplug
  <2> QED BY <1>0, <2>1, OverIs, TypesOfHost
<1>4. DriverTyped(d) BY <1>0, TypesOfHost
<1>5. Typed'
  <2>1. host'.phase \in {"gone", "idle", "in", "out", "status"} BY <1>3
  <2>2. /\ host'.addr \in 0..127 \union {Unknown}
        /\ host'.cfg \in 0..255 \union {Unknown}
    BY <1>0, <1>3 DEF Typed
  <2>3. host'.susp \in BOOLEAN BY <1>3
  <2>4. irq'.ep0 \in BOOLEAN BY <1>0, <1>2, TypesOfHost
  <2>5. "disconnect" \in UsbEvents /\ irq'.usb \subseteq {"disconnect", "reset"}
    BY <1>2 DEF UsbEvents
  <2>6. DriverTyped(d') /\ host'.n \in Nat BY <1>1, <1>3, <1>4
  <2> QED BY <1>0, <1>2, <1>3, <2>1, <2>2, <2>3, <2>4, <2>5, <2>6, TypedEvent
<1>6. CepInv' BY <1>2, <1>3 DEF CepInv, InTransfer
<1>7. Served' = DisconnectCb(d) BY <1>1, <1>2 DEF Served, BusIrq
<1>8. Served'.state = "notAttached" BY <1>4, <1>7, DisconnectCbDoes
<1>9. EventInv' BY <1>2, <1>3, <1>8 DEF EventInv
<1>10. AddressInv' /\ LevelInv' BY <1>3 DEF AddressInv, LevelInv
<1>11. ConfigKept BY <1>1, <1>3 DEF ConfigKept
<1> QED BY <1>5, <1>6, <1>9, <1>10, <1>11 DEF Core

---------------------------------------------------------------------------
(* The interrupt handler.                                                   *)

\* What the events of the bus come to rests on the state alone.
LEMMA ServedAlike ==
  ASSUME Typed, DriverTyped(d'), irq'.usb = irq.usb, "reset" \notin irq.usb,
         d'.state = d.state, d'.saved = d.saved, d'.speed = d.speed, d'.bus = d.bus, d'.cls = d.cls
  PROVE  /\ Served'.state = Served.state /\ Served'.speed = Served.speed
         /\ Served'.bus = Served.bus
         /\ "disconnect" \notin irq.usb =>
              Served'.cls = Served.cls /\ Served'.saved = Served.saved
<1>1. PICK e \in UsbEvents : irq.usb \subseteq {e, "reset"} BY DEF Typed
<1>2. DriverTyped(d) BY TypesOfHost
<1>3. Served = BusIrq(d, irq.usb) /\ Served' = BusIrq(d', irq.usb) BY DEF Served
<1>4. /\ irq.usb = {} => Served = d /\ Served' = d'
      /\ "suspend" \in irq.usb => Served = SuspendCb(d) /\ Served' = SuspendCb(d')
      /\ "resume" \in irq.usb => Served = ResumeCb(d) /\ Served' = ResumeCb(d')
      /\ "disconnect" \in irq.usb => Served = DisconnectCb(d) /\ Served' = DisconnectCb(d')
  BY <1>1, <1>2, <1>3, BusIrqDoes
<1>5. \/ irq.usb = {} \/ "suspend" \in irq.usb \/ "resume" \in irq.usb \/ "disconnect" \in irq.usb
  BY <1>1 DEF UsbEvents
<1>6. CASE irq.usb = {} BY <1>4, <1>6
<1>7. CASE "suspend" \in irq.usb
  <2>1. /\ Keeps(d, Served, {"state", "saved"}) /\ Keeps(d', Served', {"state", "saved"})
        /\ Served.state = "suspended" /\ Served'.state = "suspended"
        /\ Served.saved = d.state /\ Served'.saved = d'.state
    BY <1>2, <1>4, <1>7, SuspendCbDoes
  <2> QED BY <2>1 DEF Keeps
<1>8. CASE "resume" \in irq.usb
  <2>1. /\ Keeps(d, Served, {"state"}) /\ Keeps(d', Served', {"state"})
        /\ Served.state = d.saved /\ Served'.state = d'.saved
    BY <1>2, <1>4, <1>8, ResumeCbDoes
  <2> QED BY <2>1 DEF Keeps
<1>9. CASE "disconnect" \in irq.usb
  <2>1. /\ Keeps(d, Served, {"state", "cls", "stallTx", "stallRx"})
        /\ Keeps(d', Served', {"state", "cls", "stallTx", "stallRx"})
        /\ Served.state = "notAttached" /\ Served'.state = "notAttached"
    BY <1>2, <1>4, <1>9, DisconnectCbDoes
  <2> QED BY <1>9, <2>1 DEF Keeps
<1> QED BY <1>5, <1>6, <1>7, <1>8, <1>9

\* The address takes effect.
LEMMA IsrAfterDelayKeeps ==
  ASSUME Regular, Overlap = {}, Core, IsrAfterDelay
  PROVE  Core' /\ ConfigKept
<1>0. Typed BY DEF Core
<1>1. d.delay /\ host.phase # "status" /\ irq' = irq /\ host' = host /\ count' = count
  BY DEF IsrAfterDelay
<1>2. "reset" \notin irq.usb BY <1>1 DEF Core, CepInv, Cleared
<1>3. ~InTransfer
  <2>1. SUFFICES ASSUME InTransfer PROVE FALSE OBVIOUS
  <2> QED BY <1>1, <2>1, InTransferIs DEF ToAnswer, Refused, Ended, Sending, Receiving
<1> DEFINE m == [d EXCEPT !.delay = FALSE, !.faddr = d.addr]
<1>4. /\ Keeps(d, m, {"delay", "faddr"}) /\ m.delay = FALSE /\ m.faddr = d.addr
  BY <1>0, TypesOfHost DEF Keeps
<1>5. d' = Rearm(m) BY DEF IsrAfterDelay
<1> HIDE DEF m
<1>6. Keeps(m, d', RearmChanges) /\ IsWaiting(d') /\ d'.setup = NoReq
  <2>1. DOMAIN m = Fields BY <1>4 DEF Keeps
  <2> QED BY <1>5, <2>1, RearmDoes
<1>7. /\ d'.delay = FALSE /\ d'.faddr = d.addr
      /\ d'.state = d.state /\ d'.saved = d.saved /\ d'.addr = d.addr /\ d'.class = d.class
      /\ d'.user = d.user /\ d'.bus = d.bus /\ d'.speed = d.speed /\ d'.cls = d.cls
      /\ d'.got = d.got /\ d'.classGot = d.classGot /\ d'.eps = d.eps /\ d'.cfg = d.cfg
      /\ d'.haltTx = d.haltTx /\ d'.haltRx = d.haltRx /\ DOMAIN d' = Fields
      /\ d'.stallTx = d.stallTx /\ d'.stallRx = d.stallRx
      /\ d'.rx = d.rx /\ d'.tx = d.tx /\ d'.dataEnd = d.dataEnd /\ d'.setupEnd = d.setupEnd
      /\ d'.sendStall = d.sendStall /\ d'.sentStall = d.sentStall
  BY <1>4, <1>6 DEF Keeps, RearmChanges
<1>8. DriverTyped(d')
  <2>1. DriverTyped(d) BY <1>0, TypesOfHost
  <2>2. /\ d'.cep \in CepStates /\ d'.cepState \in {"idle", "rx", "tx"}
        /\ d'.len \in Nat /\ d'.cnt \in Nat /\ d'.txn \in Nat
    BY <1>6 DEF IsWaiting, CepStates, SetupSize
  <2>3. d'.setup \in Requests \union {NoReq} BY <1>6
  <2>4. d'.delay \in BOOLEAN BY <1>7
  <2>5. d'.faddr \in 0..127 BY <1>7, <2>1 DEF DriverTyped
  <2> QED BY <1>7, <2>1, <2>2, <2>3, <2>4, <2>5 DEF DriverTyped
<1>9. Typed' BY <1>0, <1>1, <1>8 DEF Typed
<1>10. CepInv'
  <2>1. host.phase = "idle" => IdleInv BY <1>2 DEF Core, CepInv
  <2>2. host.phase = "idle" => IdleInv'
    BY <1>1, <1>6, <1>7, <2>1 DEF IdleInv, Waiting
  <2>3. ~InTransfer' BY <1>1, <1>3 DEF InTransfer
  <2> QED BY <1>1, <1>2, <2>2, <2>3 DEF CepInv
<1>11. /\ Served'.state = Served.state /\ Served'.speed = Served.speed
       /\ Served'.bus = Served.bus
       /\ "disconnect" \notin irq.usb =>
            Served'.cls = Served.cls /\ Served'.saved = Served.saved
  BY <1>0, <1>1, <1>2, <1>7, <1>8, ServedAlike
<1>12. EventInv' BY <1>1, <1>2, <1>7, <1>11 DEF Core, EventInv
<1>13. AddressInv'
  <2>1. host.phase # "gone" => host.phase = "idle"
    BY <1>0, <1>3 DEF Typed, InTransfer
  <2> QED BY <1>1, <1>7, <2>1 DEF Core, AddressInv, InTransfer
<1>14. host.phase # "gone" => "disconnect" \notin irq.usb BY <1>2 DEF Core, EventInv
<1>15. host.phase # "gone" => Level' = Level BY <1>1, <1>11, <1>14 DEF Level
<1>16. LevelInv'
  <2>1. CASE host.phase = "gone" BY <1>1, <2>1 DEF LevelInv
  <2>2. CASE host.phase # "gone"
    <3>1. ~AddressTaken /\ ~ConfigTaken /\ ~AddressTaken' /\ ~ConfigTaken'
      BY <1>1 DEF AddressTaken, ConfigTaken
    <3>2. Served'.speed = Served'.bus BY <1>11, <2>2 DEF Core, LevelInv
    <3> QED BY <1>1, <1>7, <1>15, <2>2, <3>1, <3>2, LevelKept DEF Core
  <2> QED BY <2>1, <2>2
<1>17. ConfigKept BY <1>1, <1>7, <1>11, <1>14, <1>15 DEF ConfigKept, Alike
<1> QED BY <1>9, <1>10, <1>12, <1>13, <1>16, <1>17 DEF Core

LEMMA IsrDoes ==
  ASSUME Regular, Typed, Isr
  PROVE  /\ ~d.delay /\ (irq.ep0 \/ irq.usb # {})
         /\ d' = IF irq.ep0 THEN EpIrq(Served) ELSE Served
         /\ irq'.ep0 = FALSE /\ irq'.usb = {} /\ host' = host
         /\ DriverTyped(Served) /\ Keeps(d, Served, BusChanges)
         /\ Follows(Served, d') /\ Typed' /\ Served' = d'
<1>1. /\ ~d.delay /\ (irq.ep0 \/ irq.usb # {})
      /\ d' = IF irq.ep0 THEN EpIrq(Served) ELSE Served
      /\ irq' = [ep0 |-> FALSE, usb |-> {}] /\ host' = host /\ count' = count
  BY DEF Isr, Pending, Served
<1>2. PICK e \in UsbEvents : irq.usb \subseteq {e, "reset"} BY DEF Typed
<1>3. DriverTyped(d) BY TypesOfHost
<1>4. DriverTyped(Served) /\ Keeps(d, Served, BusChanges)
  BY <1>2, <1>3, BusIrqDoes DEF Served
<1>5. Follows(Served, d')
  <2>1. CASE irq.ep0 BY <1>1, <1>4, <2>1, EpIrqFollows
  <2>2. CASE ~irq.ep0 BY <1>1, <1>4, <2>2, FollowsItself
  <2> QED BY <2>1, <2>2
<1>6. irq'.ep0 = FALSE /\ irq'.usb = {} /\ DOMAIN irq' = {"ep0", "usb"} BY <1>1
<1>7. Served' = d' BY <1>6 DEF Served, BusIrq
<1>8. Typed'
  <2>1. DriverTyped(d') BY <1>5 DEF Follows
  <2>2. irq'.ep0 \in BOOLEAN BY <1>1
  <2>3. irq'.usb \in {{}, irq.usb} BY <1>6
  <2> QED BY <1>1, <1>6, <2>1, <2>2, <2>3, TypedNext DEF Typed
<1> QED BY <1>1, <1>4, <1>5, <1>6, <1>7, <1>8

\* After a reset the driver waits for a SETUP packet, and there is none.
LEMMA IsrResetKeeps ==
  ASSUME Regular, Core, Isr, "reset" \in irq.usb
  PROVE  Core' /\ ConfigKept
<1>0. Typed BY DEF Core
<1>1. /\ d' = IF irq.ep0 THEN EpIrq(Served) ELSE Served
      /\ irq'.ep0 = FALSE /\ irq'.usb = {} /\ host' = host
      /\ DriverTyped(Served) /\ Keeps(d, Served, BusChanges)
      /\ Typed' /\ Served' = d'
  BY <1>0, IsrDoes
<1>2. /\ host.phase = "idle" /\ d.faddr = 0 /\ d.rx = NoPkt /\ d.tx = NoPkt /\ ~d.delay
      /\ host.addr = 0 /\ host.cfg = 0 /\ ~host.susp
  BY DEF Core, CepInv, EventInv, Cleared
<1>3. PICK e \in UsbEvents : irq.usb \subseteq {e, "reset"} BY <1>0 DEF Typed
<1>4. WasReset(d, Served)
  BY <1>0, <1>3, TypesOfHost, BusIrqDoes DEF Served
<1>5. /\ Served.faddr = d.faddr /\ Served.rx = d.rx /\ Served.tx = d.tx /\ Served.delay = d.delay
      /\ Served.bus = d.bus /\ Served.eps = d.eps /\ Served.class = d.class
  BY <1>1 DEF Keeps, BusChanges, EventChanges, ResetChanges, RearmChanges
<1>6. d' = Served
  <2>1. EpIrq(Served) = Served
    BY <1>2, <1>4, <1>5 DEF EpIrq, WasReset, IsWaiting
  <2> QED BY <1>1, <2>1
<1>7. Waiting' BY <1>4, <1>6 DEF WasReset, Waiting, IsWaiting
<1>8. CepInv'
  <2>1. ~d'.setupEnd /\ ~d'.sentStall /\ ~d'.sendStall BY <1>4, <1>6 DEF WasReset
  <2>2. IdleInv' BY <1>2, <1>5, <1>6, <1>7, <2>1 DEF IdleInv
  <2> QED BY <1>1, <1>2, <2>2 DEF CepInv, InTransfer
<1>9. EventInv' BY <1>1, <1>2 DEF EventInv
<1>10. AddressInv' BY <1>1, <1>2, <1>5, <1>6 DEF AddressInv, InTransfer
<1>11. Served'.state = "default" /\ Served'.speed = Served'.bus
  BY <1>1, <1>4, <1>5, <1>6 DEF WasReset
<1>12. Level' = "default" BY <1>1, <1>2, <1>11 DEF Level
<1>13. LevelInv'
  <2>1. ~AddressTaken' BY <1>1, <1>2 DEF AddressTaken
  <2> QED BY <1>1, <1>2, <1>11, <1>12, <2>1 DEF LevelInv, Unknown
<1>14. ConfigKept BY <1>5, <1>6, <1>12 DEF ConfigKept
<1> QED BY <1>1, <1>8, <1>9, <1>10, <1>13, <1>14 DEF Core

\* A driver that is not attached may serve what was left, but stays so.
LEMMA IsrGoneKeeps ==
  ASSUME Regular, Core, Isr, host.phase = "gone"
  PROVE  Core' /\ ConfigKept
<1>0. Typed BY DEF Core
<1>1. /\ irq'.ep0 = FALSE /\ irq'.usb = {} /\ host' = host
      /\ DriverTyped(Served) /\ Keeps(d, Served, BusChanges)
      /\ Follows(Served, d') /\ Typed' /\ Served' = d'
  BY <1>0, IsrDoes
<1>2. Served.state = "notAttached" /\ ~host.susp BY DEF Core, EventInv
<1>3. d'.state = "notAttached" /\ d'.eps = Served.eps /\ Keeps(Served, d', EpIrqChanges)
  BY <1>1, <1>2 DEF Follows
<1>4. /\ d'.eps = d.eps /\ d'.class = d.class /\ d'.bus = d.bus
  BY <1>1, <1>3 DEF Keeps, BusChanges, EventChanges, ResetChanges, RearmChanges, EpIrqChanges,
                    TransferChanges, AnswerChanges, SetConfigChanges, EpChanges
<1>5. CepInv' BY <1>1 DEF CepInv, InTransfer
<1>6. EventInv' BY <1>1, <1>2, <1>3 DEF EventInv
<1>7. AddressInv' /\ LevelInv' BY <1>1 DEF AddressInv, LevelInv
<1>8. ConfigKept BY <1>1, <1>4 DEF ConfigKept
<1> QED BY <1>1, <1>5, <1>6, <1>7, <1>8 DEF Core

\* Between transfers, what is left of one is cleared away.
LEMMA IsrIdleKeeps ==
  ASSUME Regular, Core, Isr, host.phase = "idle", "reset" \notin irq.usb
  PROVE  Core' /\ ConfigKept
<1>0. Typed BY DEF Core
<1>1. /\ ~d.delay
      /\ d' = IF irq.ep0 THEN EpIrq(Served) ELSE Served
      /\ irq'.ep0 = FALSE /\ irq'.usb = {} /\ host' = host
      /\ DriverTyped(Served) /\ Typed' /\ Served' = d'
  BY <1>0, IsrDoes
<1>2. PICK e \in UsbEvents : irq.usb \subseteq {e, "reset"} BY <1>0 DEF Typed
<1>3. Keeps(d, Served, EventChanges)
  BY <1>0, <1>2, TypesOfHost, BusIrqDoes DEF Served
<1>4. IdleInv BY DEF Core, CepInv
<1>5. /\ Served.rx = NoPkt /\ Served.tx = NoPkt /\ ~Served.sendStall
      /\ ~(Served.setupEnd /\ Served.sentStall) /\ ~Served.delay
      /\ ~irq.ep0 => ~Served.setupEnd /\ ~Served.sentStall
      /\ ~(Served.setupEnd \/ Served.sentStall) =>
           IsWaiting(Served)
             \/ (Served.cep = "tx" /\ Served.cepState = "tx" /\ Served.cnt >= Served.len /\ irq.ep0)
      /\ Served.faddr = d.faddr /\ Served.cfg = d.cfg /\ Served.eps = d.eps
      /\ Served.class = d.class /\ Served.bus = d.bus
  BY <1>1, <1>3, <1>4 DEF IdleInv, Waiting, IsWaiting, Keeps, EventChanges
<1> DEFINE c == Served
           s == [c EXCEPT !.sentStall = FALSE]
           u == [c EXCEPT !.setupEnd = FALSE]
           Cleaned == RearmChanges \union {"sentStall", "setupEnd"}
<1>6. DOMAIN c = Fields BY <1>1, TypesOfTransfer
<1>7. /\ Keeps(c, d', Cleaned) /\ IsWaiting(d') /\ ~d'.sentStall /\ ~d'.setupEnd
  <2>1. CASE ~irq.ep0
    <3>1. d' = c /\ ~c.setupEnd /\ ~c.sentStall /\ IsWaiting(c) BY <1>1, <1>5, <2>1
    <3> QED BY <1>6, <3>1 DEF Keeps
  <2>2. CASE irq.ep0 /\ c.sentStall
    <3>1. d' = Rearm(s) BY <1>1, <2>2, SetupCbIs DEF EpIrq
    <3>2. Keeps(c, s, {"sentStall"}) /\ ~s.sentStall BY <1>6 DEF Keeps
    <3>3. ~c.setupEnd BY <1>5, <2>2
    <3> HIDE DEF c, s
    <3>4. DOMAIN s = Fields BY <3>2 DEF Keeps
    <3>5. Keeps(s, d', RearmChanges) /\ IsWaiting(d') BY <3>1, <3>4, RearmDoes
    <3> QED BY <3>2, <3>3, <3>5 DEF Keeps, RearmChanges
  <2>3. CASE irq.ep0 /\ ~c.sentStall /\ c.setupEnd
    <3>1. d' = Rearm(u)
      <4>1. (c.rx = NoPkt) = TRUE BY <1>5
      <4>2. d' = SetupCb(u, TRUE) BY <1>1, <2>3, <4>1 DEF EpIrq
      <4> QED BY <4>2, SetupCbIs
    <3>2. Keeps(c, u, {"setupEnd"}) /\ ~u.setupEnd BY <1>6 DEF Keeps
    <3> HIDE DEF c, u
    <3>4. DOMAIN u = Fields BY <3>2 DEF Keeps
    <3>5. Keeps(u, d', RearmChanges) /\ IsWaiting(d') BY <3>1, <3>4, RearmDoes
    <3> QED BY <2>3, <3>2, <3>5 DEF Keeps, RearmChanges
  <2>4. CASE irq.ep0 /\ ~c.sentStall /\ ~c.setupEnd /\ IsWaiting(c)
    <3>1. d' = c BY <1>1, <1>5, <2>4 DEF EpIrq, IsWaiting
    <3> QED BY <1>6, <2>4, <3>1 DEF Keeps
  <2>5. CASE /\ irq.ep0 /\ ~c.sentStall /\ ~c.setupEnd
             /\ c.cep = "tx" /\ c.cepState = "tx" /\ c.cnt >= c.len
    <3>1. EpIrq(c) = TxCb(c) BY <2>5 DEF EpIrq
    <3>2. c.cnt \in Nat /\ c.len \in Nat BY <1>1 DEF DriverTyped
    <3>3. ~(c.cnt < c.len) BY <2>5, <3>2
    <3>4. TxCb(c) = Rearm(c) BY <2>5, <3>3 DEF TxCb
    <3>5. d' = Rearm(c) BY <1>1, <2>5, <3>1, <3>4
    <3> HIDE DEF c
    <3>6. Keeps(c, d', RearmChanges) /\ IsWaiting(d') BY <1>6, <3>5, RearmDoes
    <3> QED BY <2>5, <3>6 DEF Keeps, RearmChanges
  <2> QED BY <1>5, <2>1, <2>2, <2>3, <2>4, <2>5
<1> HIDE DEF c
<1>8. /\ d'.rx = c.rx /\ d'.tx = c.tx /\ d'.sendStall = c.sendStall /\ d'.delay = c.delay
      /\ d'.faddr = c.faddr /\ d'.cfg = c.cfg /\ d'.eps = c.eps /\ d'.class = c.class
      /\ d'.bus = c.bus /\ d'.speed = c.speed /\ d'.state = c.state /\ d'.saved = c.saved
      /\ d'.cls = c.cls /\ d'.haltTx = c.haltTx /\ d'.haltRx = c.haltRx
      /\ d'.stallTx = c.stallTx /\ d'.stallRx = c.stallRx
  BY <1>7 DEF Keeps, RearmChanges
<1>9. c = Served BY DEF c
<1>10. CepInv'
  <2>1. IdleInv' BY <1>5, <1>7, <1>8, <1>9 DEF IdleInv, Waiting
  <2> QED BY <1>1, <2>1 DEF CepInv, InTransfer
<1>11. EventInv' BY <1>1, <1>8, <1>9 DEF Core, EventInv
<1>12. AddressInv'
  <2>1. host.addr \in {d.faddr, Unknown} BY <1>1 DEF Core, AddressInv
  <2> QED BY <1>1, <1>5, <1>8, <1>9, <2>1 DEF AddressInv, InTransfer
<1>13. Level' = Level BY <1>1, <1>8, <1>9 DEF Level
<1>14. LevelInv'
  <2>1. ~AddressTaken /\ ~ConfigTaken /\ ~AddressTaken' /\ ~ConfigTaken'
    BY <1>1 DEF AddressTaken, ConfigTaken
  <2>2. Served'.speed = Served'.bus BY <1>1, <1>8, <1>9 DEF Core, LevelInv
  <2> QED BY <1>1, <1>5, <1>8, <1>9, <1>13, <2>1, <2>2, LevelKept DEF Core
<1>15. ConfigKept
  <2>1. d'.eps = d.eps /\ d'.class = d.class /\ d'.bus = d.bus BY <1>5, <1>8, <1>9
  <2>2. Served'.cls = Served.cls BY <1>1, <1>8, <1>9
  <2>3. /\ Served.haltTx = d.haltTx /\ Served.haltRx = d.haltRx
    BY <1>3 DEF Keeps, EventChanges
  <2>4. /\ Served.stallTx = d.stallTx /\ Served.stallRx = d.stallRx
    <3>1. "disconnect" \notin irq.usb BY DEF Core, EventInv
    <3>2. \/ irq.usb = {} \/ "suspend" \in irq.usb \/ "resume" \in irq.usb
      BY <1>2, <3>1 DEF UsbEvents
    <3>3. /\ irq.usb = {} => Served = d
          /\ "suspend" \in irq.usb => Served = SuspendCb(d)
          /\ "resume" \in irq.usb => Served = ResumeCb(d)
      BY <1>0, <1>2, TypesOfHost, BusIrqDoes DEF Served
    <3>4. DriverTyped(d) BY <1>0, TypesOfHost
    <3>5. CASE "suspend" \in irq.usb
      <4>1. Keeps(d, Served, {"state", "saved"}) BY <3>3, <3>4, <3>5, SuspendCbDoes
      <4> QED BY <4>1 DEF Keeps
    <3>6. CASE "resume" \in irq.usb
      <4>1. Keeps(d, Served, {"state"}) BY <3>3, <3>4, <3>6, ResumeCbDoes
      <4> QED BY <4>1 DEF Keeps
    <3>7. CASE irq.usb = {} BY <3>3, <3>7
    <3> QED BY <3>2, <3>5, <3>6, <3>7
  <2>5. Alike(d) => Alike(d') BY <1>8, <1>9, <2>3, <2>4 DEF Alike
  <2> QED BY <1>1, <1>13, <2>1, <2>2, <2>5 DEF ConfigKept
<1> QED BY <1>1, <1>10, <1>11, <1>12, <1>14, <1>15 DEF Core

---------------------------------------------------------------------------
(* The interrupt handler, in a transfer.                                    *)

LEMMA IsrInTransfer ==
  ASSUME Regular, Core, Isr, InTransfer
  PROVE  /\ irq.ep0 = TRUE /\ ~d.delay /\ irq'.ep0 = FALSE /\ irq'.usb = {} /\ host' = host
         /\ d' = EpIrq(d) /\ Follows(d, d') /\ Typed' /\ DriverTyped(d)
         /\ Served = d /\ Served' = d' /\ Level = d.state /\ Level' = d'.state
<1>1. irq.usb = {} /\ Served = d /\ ~host.susp /\ Level = d.state BY InTransferIs
<1>2. /\ ~d.delay /\ (irq.ep0 \/ irq.usb # {})
      /\ d' = IF irq.ep0 THEN EpIrq(Served) ELSE Served
      /\ irq'.ep0 = FALSE /\ irq'.usb = {} /\ host' = host
      /\ Follows(Served, d') /\ Typed' /\ Served' = d'
  BY IsrDoes DEF Core
<1>3. irq.ep0 \in BOOLEAN /\ DriverTyped(d) BY TypesOfHost DEF Core
<1>4. irq.ep0 = TRUE BY <1>1, <1>2, <1>3
<1>5. Level' = d'.state BY <1>1, <1>2 DEF Level
<1> QED BY <1>1, <1>2, <1>3, <1>4, <1>5

\* What the transfer comes to is all that is left to show.
LEMMA IsrCepInv ==
  ASSUME Regular, Core, Isr, InTransfer, d'.sentStall = FALSE, d'.setupEnd = FALSE,
         Refused' \/ Ended' \/ Sending' \/ Receiving'
  PROVE  CepInv'
<1>1. /\ host.req \in Requests /\ Legal(host.req) /\ ~host.susp BY InTransferIs
<1>2. irq'.usb = {} /\ host' = host BY IsrInTransfer
<1>3. Legal(host.req)' BY <1>1, <1>2 DEF Legal
<1>4. host'.phase # "idle" BY <1>2 DEF InTransfer
<1> QED BY <1>1, <1>2, <1>3, <1>4 DEF CepInv

LEMMA IsrEvents ==
  ASSUME Regular, Core, Isr, InTransfer
  PROVE  EventInv'
<1>1. irq'.usb = {} /\ host' = host /\ ~host.susp /\ host'.phase # "gone"
  BY IsrInTransfer, InTransferIs DEF InTransfer
<1> QED BY <1>1 DEF EventInv

LEMMA IsrTransferStep ==
  ASSUME Regular, Core, Isr, InTransfer, Keeps(d, d', TransferChanges), d'.delay = FALSE,
         d'.sentStall = FALSE, d'.setupEnd = FALSE,
         Refused' \/ Ended' \/ Sending' \/ Receiving',
         ~AddressTaken, ~ConfigTaken, ~AddressTaken', ~ConfigTaken'
  PROVE  Core' /\ ConfigKept
<1>1. /\ irq.usb = {} /\ host.addr = d.faddr /\ host.phase # "gone"
  BY InTransferIs DEF InTransfer
<1>2. irq'.usb = {} /\ host' = host /\ Typed' BY IsrInTransfer
<1>3. /\ Level' = Level /\ ConfigKept /\ Served = d /\ Served' = d'
      /\ d'.faddr = d.faddr /\ d'.cfg = d.cfg /\ d'.speed = d.speed /\ d'.bus = d.bus
  BY <1>1, <1>2, TransferStep
<1>4. AddressInv' BY <1>1, <1>2, <1>3 DEF AddressInv
<1>5. LevelInv'
  <2>1. Served'.speed = Served'.bus BY <1>1, <1>3 DEF Core, LevelInv
  <2> QED BY <1>1, <1>2, <1>3, <2>1, LevelKept DEF Core
<1> QED BY <1>2, <1>3, <1>4, <1>5, IsrCepInv, IsrEvents DEF Core

\* The rest of an answer: its next packet.
LEMMA IsrSendingKeeps ==
  ASSUME Regular, Core, Isr, InTransfer, Sending
  PROVE  Core' /\ ConfigKept
<1> DEFINE req == host.req
<1>1. /\ irq.ep0 = TRUE /\ irq'.ep0 = FALSE /\ irq'.usb = {} /\ host' = host
      /\ d' = EpIrq(d) /\ DriverTyped(d)
  BY IsrInTransfer
<1>2. /\ host.addr = d.faddr /\ req \in Requests /\ d.sentStall = FALSE /\ d.setupEnd = FALSE
  BY InTransferIs
<1>3. /\ d.cep = "tx" /\ d.cepState = "tx" /\ d.rx = NoPkt /\ ~d.sendStall /\ ~d.delay
      /\ req.in /\ d.tx = NoPkt
      /\ d.len = Least(Wanted(req).n, req.len) /\ (d.buf = "none" => d.len = 0)
      /\ DataOf(d.buf) = Wanted(req).of \/ (req.k = "status" /\ req.v # "device")
      /\ host.of = DataOf(d.buf) /\ host.n = d.cnt /\ ~d.dataEnd /\ host.phase = "in"
      /\ d.cnt <= d.len /\ d.cnt # d.len
  BY <1>1 DEF Sending
<1>4. d.cnt \in Nat /\ d.len \in Nat /\ DOMAIN d = Fields /\ req.len \in Nat
  BY <1>1, <1>2 DEF DriverTyped
<1> DEFINE n == Least(d.len - d.cnt, MaxPkt)
           m == [d EXCEPT !.txn = n]
<1>5. d.cnt < d.len /\ d.len - d.cnt \in Nat /\ d.buf # "none" BY <1>3, <1>4
<1>6. n \in Nat /\ n <= MaxPkt /\ d.cnt + n <= d.len /\ (n = MaxPkt \/ d.cnt + n = d.len)
  BY <1>4, <1>5 DEF Least
<1>7. d' = WritePkt(m)
  <2>1. EpIrq(d) = TxCb(d) BY <1>2, <1>3 DEF EpIrq
  <2>2. TxCb(d) = WritePkt(m) BY <1>3, <1>5 DEF TxCb
  <2> QED BY <1>1, <2>1, <2>2
<1> HIDE DEF n
<1>8. /\ Keeps(d, m, {"txn"}) /\ m.txn = n /\ m.cep = "tx" /\ m.cnt = d.cnt /\ m.buf = d.buf
      /\ m.len = d.len /\ DOMAIN m = Fields
  BY <1>3, <1>4 DEF Keeps
<1> HIDE DEF m
<1>9. /\ Keeps(m, d', {"tx", "cnt", "cepState", "dataEnd"})
      /\ d'.tx = [of |-> DataOf(d.buf), n |-> n, req |-> NoReq] /\ d'.cnt = d.cnt + n
      /\ d'.cepState = "tx" /\ d'.dataEnd = (d.cnt + n >= d.len)
  BY <1>3, <1>4, <1>5, <1>6, <1>7, <1>8, WritePktDoes
<1>10. /\ d'.setupEnd = d.setupEnd /\ d'.sentStall = d.sentStall /\ d'.sendStall = d.sendStall
       /\ d'.delay = d.delay /\ d'.cep = d.cep /\ d'.buf = d.buf /\ d'.len = d.len /\ d'.rx = d.rx
       /\ d'.class = d.class /\ d'.user = d.user /\ d'.speed = d.speed
       /\ Keeps(d, d', TransferChanges)
  BY <1>8, <1>9 DEF Keeps, TransferChanges
<1>11. Sending'
  <2>1. /\ WantedN(d', req) = WantedN(d, req)
        /\ WantedOf(d', host.of, req) = WantedOf(d, host.of, req)
    BY <1>10, SameWanted
  <2>2. d'.len = Least(Wanted(host.req)'.n, host'.req.len)
    BY <1>1, <1>3, <1>10, <2>1, WantedIs, WantedIsNext
  <2>3. \/ DataOf(d'.buf) = Wanted(host.req)'.of
        \/ host'.req.k = "status" /\ host'.req.v # "device"
    BY <1>1, <1>3, <1>10, <2>1, WantedIs, WantedIsNext
  <2>4. d'.cnt <= d'.len /\ (d'.dataEnd <=> d'.cnt = d'.len)
    <3>1. d.cnt + n >= d.len <=> d.cnt + n = d.len BY <1>4, <1>6
    <3>2. d'.dataEnd <=> d.cnt + n = d.len BY <1>9, <3>1
    <3>3. d'.cnt = d.cnt + n /\ d'.len = d.len BY <1>9, <1>10
    <3> QED BY <1>6, <3>2, <3>3
  <2>5. d'.dataEnd \/ n = MaxPkt BY <1>6, <2>4, <1>9, <1>10
  <2>6. d'.tx.of = DataOf(d.buf) /\ d'.tx.n = n BY <1>9
  <2>7. d'.tx # NoPkt BY <2>6, NoPktIs, DataOfIs
  <2>8. host'.n + d'.tx.n = d'.cnt /\ d'.tx.n <= MaxPkt BY <1>1, <1>3, <1>6, <1>9, <2>6
  <2>9. d'.buf # "none" BY <1>5, <1>10
  <2> QED BY <1>1, <1>3, <1>9, <1>10, <2>2, <2>3, <2>4, <2>5, <2>6, <2>7, <2>8, <2>9 DEF Sending
<1>12. d'.delay = FALSE /\ d'.sentStall = FALSE /\ d'.setupEnd = FALSE
  BY <1>1, <1>2, <1>3, <1>10 DEF DriverTyped
<1>13. ~AddressTaken /\ ~ConfigTaken /\ ~AddressTaken' /\ ~ConfigTaken'
  BY <1>1, <1>3 DEF AddressTaken, ConfigTaken
<1> QED BY <1>10, <1>11, <1>12, <1>13, IsrTransferStep

\* A packet from the host: the rest is prepared for, or the class is handed it all.
LEMMA IsrReceivingKeeps ==
  ASSUME Regular, Core, Isr, InTransfer, Receiving
  PROVE  Core' /\ ConfigKept
<1> DEFINE req == host.req
<1>1. /\ irq.ep0 = TRUE /\ irq'.ep0 = FALSE /\ irq'.usb = {} /\ host' = host
      /\ d' = EpIrq(d) /\ DriverTyped(d)
  BY IsrInTransfer
<1>2. /\ host.addr = d.faddr /\ req \in Requests /\ d.sentStall = FALSE /\ d.setupEnd = FALSE
  BY InTransferIs
<1>3. /\ d.cep = "rx" /\ d.cepState = "rx" /\ d.tx = NoPkt /\ ~d.dataEnd /\ ~d.sendStall
      /\ ~d.delay /\ ~req.in /\ req.len > 0 /\ d.cnt = 0
      /\ host.n <= req.len
      /\ host.phase = IF host.n = req.len THEN "status" ELSE "out"
      /\ d.rx # NoPkt
      /\ IF d.buf = "class"
         THEN /\ \/ d.got = 0 /\ d.len = req.len
                 \/ d.got = MaxPkt /\ req.len > MaxPkt
                    /\ d.len = Least(req.len - MaxPkt, MaxPkt)
              /\ d.rx.n = Least(req.len - d.got, MaxPkt) /\ host.n = d.got + d.rx.n
         ELSE d.buf = "none" /\ d.len = 0 /\ req.k # "class"
  BY <1>1 DEF Receiving
<1>4. /\ d.cnt \in Nat /\ d.len \in Nat /\ d.got \in Nat /\ d.rx.n \in Nat
      /\ DOMAIN d = Fields /\ req.len \in Nat /\ host.n \in Nat
  BY <1>1, <1>2, TypesOfHost DEF DriverTyped, Packet, Core
<1>5. req.k \notin {"address", "setConfig"} BY <1>2, <1>3, <1>4 DEF Regular
<1>6. ~AddressTaken /\ ~ConfigTaken /\ ~AddressTaken' /\ ~ConfigTaken'
  BY <1>1, <1>5 DEF AddressTaken, ConfigTaken
<1> DEFINE p == ReadPkt(d)
           g == [p EXCEPT !.classGot = p.got, !.got = 0]
           e == [g EXCEPT !.dataEnd = TRUE, !.rx = NoPkt]
           s == [p EXCEPT !.rx = NoPkt]
<1>7. /\ Keeps(d, p, {"cnt", "setup", "got"})
      /\ d.buf = "none" => p.cnt = 0
      /\ d.buf = "class" => p.cnt = d.rx.n /\ p.got = d.got + d.rx.n
      /\ p.cnt \in Nat /\ p.got \in Nat
  BY <1>3, <1>4, ReadPktDoes
<1>8. EpIrq(d) = RxCb(d) BY <1>2, <1>3 DEF EpIrq
<1>9. /\ p.cep = "rx" /\ p.cnt = p.len => RxCb(d) = Rearm(e)
      /\ p.cep = "rx" /\ p.cnt < p.len =>
           RxCb(d) = ReadPrepare(s, p.buf, Least(p.len - p.cnt, MaxPkt))
  BY <1>4, <1>7 DEF RxCb, EndTransfer, Keeps
<1> HIDE DEF p
<1>10. p.cep = "rx" /\ p.len = d.len /\ p.buf = d.buf /\ DOMAIN p = Fields
  BY <1>3, <1>7 DEF Keeps
<1>11. CASE p.cnt = p.len
  <2>1. Keeps(p, g, {"classGot", "got"}) /\ g.classGot = p.got BY <1>10 DEF Keeps
  <2> HIDE DEF g
  <2>2. Keeps(g, e, {"dataEnd", "rx"}) /\ e.dataEnd = TRUE /\ e.rx = NoPkt BY <2>1 DEF Keeps
  <2> HIDE DEF e
  <2>3. d' = Rearm(e) BY <1>1, <1>8, <1>9, <1>10, <1>11
  <2>4. DOMAIN e = Fields BY <2>2 DEF Keeps
  <2>5. Keeps(e, d', RearmChanges) /\ IsWaiting(d') BY <2>3, <2>4, RearmDoes
  <2>6. /\ d'.setupEnd = d.setupEnd /\ d'.sentStall = d.sentStall /\ d'.sendStall = d.sendStall
        /\ d'.delay = d.delay /\ d'.tx = d.tx /\ d'.rx = NoPkt /\ d'.dataEnd = TRUE
        /\ d'.classGot = p.got
        /\ Keeps(d, d', TransferChanges)
    BY <1>7, <2>1, <2>2, <2>5 DEF Keeps, RearmChanges, TransferChanges
  <2>7. Waiting' BY <2>5 DEF Waiting
  <2>8. host.phase = "status" /\ req.len > 0 /\ req.k = "class" => d'.classGot = req.len
    <3>1. SUFFICES ASSUME host.phase = "status", req.k = "class" PROVE d'.classGot = req.len
      OBVIOUS
    <3>2. d.buf = "class" /\ host.n = req.len BY <1>3, <3>1
    <3> QED BY <1>3, <1>7, <2>6, <3>2
  <2>9. Ended' BY <1>1, <1>3, <1>5, <2>6, <2>7, <2>8 DEF Ended
  <2>10. d'.delay = FALSE /\ d'.sentStall = FALSE /\ d'.setupEnd = FALSE
    BY <1>1, <1>2, <1>3, <2>6 DEF DriverTyped
  <2> QED BY <1>6, <2>6, <2>9, <2>10, IsrTransferStep
<1>12. CASE p.cnt # p.len
  <2>1. d.buf = "class" BY <1>3, <1>7, <1>10, <1>12
  <2>2. p.cnt = d.rx.n /\ p.got = d.got + d.rx.n BY <1>7, <2>1
  <2>3. d.got = 0 /\ d.len = req.len /\ req.len > MaxPkt /\ d.rx.n = MaxPkt /\ host.n = MaxPkt
    BY <1>3, <1>4, <1>10, <1>12, <2>1, <2>2 DEF Least
  <2>4. p.cnt < p.len /\ p.cnt = MaxPkt /\ p.got = MaxPkt /\ p.len = req.len
    BY <1>10, <2>2, <2>3
  <2> DEFINE n == Least(req.len - MaxPkt, MaxPkt)
  <2>5. Keeps(p, s, {"rx"}) /\ s.rx = NoPkt BY <1>10 DEF Keeps
  <2>6. d' = ReadPrepare(s, "class", n) BY <1>1, <1>8, <1>9, <1>10, <2>1, <2>4
  <2> HIDE DEF s, n
  <2>7. DOMAIN s = Fields /\ s.cep = "rx" BY <1>10, <2>5 DEF Keeps
  <2>8. /\ Keeps(s, d', {"buf", "len", "cnt", "txn", "cepState"})
        /\ d'.buf = "class" /\ d'.len = n /\ d'.cnt = 0 /\ d'.cepState = "rx"
    BY <2>6, <2>7, ReadPrepareDoes
  <2>9. /\ d'.setupEnd = d.setupEnd /\ d'.sentStall = d.sentStall /\ d'.sendStall = d.sendStall
        /\ d'.delay = d.delay /\ d'.tx = d.tx /\ d'.rx = NoPkt /\ d'.dataEnd = d.dataEnd
        /\ d'.got = p.got /\ d'.cep = "rx"
        /\ Keeps(d, d', TransferChanges)
    BY <1>7, <1>10, <2>5, <2>8 DEF Keeps, TransferChanges
  <2>10. Receiving' BY <1>1, <1>3, <2>3, <2>4, <2>8, <2>9 DEF Receiving, n
  <2>11. d'.delay = FALSE /\ d'.sentStall = FALSE /\ d'.setupEnd = FALSE
    BY <1>1, <1>2, <1>3, <2>9 DEF DriverTyped
  <2> QED BY <1>6, <2>9, <2>10, <2>11, IsrTransferStep
<1> QED BY <1>11, <1>12

\* A request is read from the FIFO and answered.
LEMMA IsrAnswers ==
  ASSUME Regular, Core, Isr, InTransfer, ToAnswer
  PROVE  LET m == SetupRead(d)
             a == Answer(m)
         IN /\ Keeps(d, m, {"cnt", "setup", "got", "cep"})
            /\ m.setup = host.req /\ m.got = 0 /\ m.cep = "setup" /\ DriverTyped(m)
            /\ a.ok \in BOOLEAN /\ a.len \in Nat
            /\ Keeps(m, a.d, AnswerChanges) /\ DriverTyped(a.d) /\ a.d.setup = host.req
            /\ ~a.ok => d' = Refuse(a.d)
            /\ a.ok /\ host.req.len = 0 => d' = NoDataStage(a.d)
            /\ a.ok /\ host.req.len # 0 => d' = DataStage(a)
<1> DEFINE p == ReadPkt(d)
           m == SetupRead(d)
           a == Answer(m)
<1>1. d' = EpIrq(d) /\ DriverTyped(d) BY IsrInTransfer
<1>2. d.sentStall = FALSE /\ d.setupEnd = FALSE BY InTransferIs
<1>3. /\ d.cepState = "idle" /\ d.buf = "setup" /\ d.txn = SetupSize
      /\ d.rx = [of |-> "host", n |-> SetupSize, req |-> host.req]
  BY DEF ToAnswer, Waiting, IsWaiting
<1>4. d.rx # NoPkt /\ d.rx.req = host.req BY <1>3, NoPktIs
<1>5. d' = SetupCb(d, FALSE) BY <1>1, <1>2, <1>3, <1>4 DEF EpIrq
<1>6. /\ d.cnt \in Nat /\ d.got \in Nat /\ d.rx.n \in Nat /\ DOMAIN d = Fields
  BY <1>1 DEF DriverTyped, Packet
<1>7. Keeps(d, p, {"cnt", "setup", "got"}) /\ p.setup = host.req /\ p.got = 0
  BY <1>3, <1>4, <1>6, ReadPktDoes
<1>8. p.txn = SetupSize BY <1>3, <1>7 DEF Keeps
<1>9. m = [p EXCEPT !.cep = "setup"] BY DEF SetupRead
<1>10. DriverTyped(m) BY <1>1, SetupReadFollows
<1>11. /\ ~a.ok => d' = Refuse(a.d)
       /\ a.ok /\ a.d.setup.len = 0 => d' = NoDataStage(a.d)
       /\ a.ok /\ a.d.setup.len # 0 => d' = DataStage(a)
  BY <1>5, <1>8, SetupCbIs
<1> HIDE DEF p, m
<1>12. /\ Keeps(d, m, {"cnt", "setup", "got", "cep"})
       /\ m.setup = host.req /\ m.got = 0 /\ m.cep = "setup"
  BY <1>7, <1>9 DEF Keeps
<1>13. /\ a.ok \in BOOLEAN /\ a.len \in Nat /\ Keeps(m, a.d, AnswerChanges) /\ DriverTyped(a.d)
  BY <1>10, AnswerDoes
<1> HIDE DEF a
<1>14. a.d.setup = host.req
  BY <1>12, <1>13 DEF Keeps, AnswerChanges, SetConfigChanges, EpChanges
<1> QED BY <1>10, <1>11, <1>12, <1>13, <1>14 DEF a, m

\* What a request leaves of the transfer, and the address it asks for.
LEMMA AnswerKeepsTransfer ==
  ASSUME Regular, Core, Isr, InTransfer, ToAnswer
  PROVE  LET b == Answer(SetupRead(d)).d
         IN /\ b.rx = d.rx /\ b.tx = NoPkt /\ b.dataEnd = FALSE /\ b.sendStall = FALSE
            /\ b.delay = FALSE /\ b.sentStall = FALSE /\ b.setupEnd = FALSE
            /\ b.cepState = "idle" /\ b.got = 0 /\ b.faddr = d.faddr
            /\ b.class = d.class /\ b.user = d.user /\ b.bus = d.bus /\ b.speed = d.speed
            /\ b.saved = d.saved
            /\ SetupRead(d).class = d.class /\ SetupRead(d).user = d.user
            /\ SetupRead(d).speed = d.speed /\ SetupRead(d).cfg = d.cfg
            /\ SetupRead(d).state = d.state /\ SetupRead(d).eps = d.eps
            /\ SetupRead(d).cls = d.cls
            /\ SetupRead(d).haltTx = d.haltTx /\ SetupRead(d).haltRx = d.haltRx
            /\ SetupRead(d).stallTx = d.stallTx /\ SetupRead(d).stallRx = d.stallRx
<1> DEFINE m == SetupRead(d)
           b == Answer(m).d
<1>1. Keeps(d, m, {"cnt", "setup", "got", "cep"}) /\ m.got = 0 /\ Keeps(m, b, AnswerChanges)
  BY IsrAnswers
<1>2. /\ d.sentStall = FALSE /\ d.setupEnd = FALSE /\ d.tx = NoPkt /\ d.cepState = "idle"
      /\ ~d.delay /\ ~d.dataEnd /\ ~d.sendStall /\ DriverTyped(d)
  BY InTransferIs, IsrInTransfer DEF ToAnswer, Waiting, IsWaiting
<1>3. d.delay = FALSE /\ d.dataEnd = FALSE /\ d.sendStall = FALSE BY <1>2 DEF DriverTyped
<1> HIDE DEF m, b
<1>4. /\ m.class = d.class /\ m.user = d.user /\ m.speed = d.speed /\ m.cfg = d.cfg
      /\ m.state = d.state /\ m.eps = d.eps /\ m.cls = d.cls
      /\ m.haltTx = d.haltTx /\ m.haltRx = d.haltRx /\ m.stallTx = d.stallTx
      /\ m.stallRx = d.stallRx
  BY <1>1 DEF Keeps
<1>5. /\ b.rx = d.rx /\ b.tx = d.tx /\ b.dataEnd = d.dataEnd /\ b.sendStall = d.sendStall
      /\ b.delay = d.delay /\ b.sentStall = d.sentStall /\ b.setupEnd = d.setupEnd
      /\ b.cepState = d.cepState /\ b.got = m.got /\ b.faddr = d.faddr
      /\ b.class = d.class /\ b.user = d.user /\ b.bus = d.bus /\ b.speed = d.speed
      /\ b.saved = d.saved
  BY <1>1 DEF Keeps, AnswerChanges, SetConfigChanges, EpChanges
<1> QED BY <1>1, <1>2, <1>3, <1>4, <1>5 DEF m, b

\* The transfer is refused, ended, or its data stage begun.
LEMMA AnswerRefused ==
  ASSUME Regular, Core, Isr, InTransfer, ToAnswer, ~Answer(SetupRead(d)).ok
  PROVE  /\ Refused' /\ Keeps(Answer(SetupRead(d)).d, d', TransferChanges)
         /\ d'.delay = FALSE /\ d'.sentStall = FALSE /\ d'.setupEnd = FALSE /\ d'.dataEnd = FALSE
<1> DEFINE b == Answer(SetupRead(d)).d
<1>1. d' = Refuse(b) /\ DOMAIN b = Fields BY IsrAnswers, TypesOfTransfer
<1>2. /\ b.tx = NoPkt /\ b.dataEnd = FALSE /\ b.delay = FALSE /\ b.sentStall = FALSE
      /\ b.setupEnd = FALSE
  BY AnswerKeepsTransfer
<1>3. irq'.ep0 = FALSE BY IsrInTransfer
<1> HIDE DEF b
<1>4. /\ Keeps(b, d', {"cep", "setup", "sendStall", "rx"}) /\ d'.sendStall = TRUE
      /\ d'.rx = NoPkt
  BY <1>1, RefuseDoes
<1>5. /\ d'.tx = b.tx /\ d'.dataEnd = b.dataEnd /\ d'.delay = b.delay
      /\ d'.sentStall = b.sentStall /\ d'.setupEnd = b.setupEnd
      /\ Keeps(b, d', TransferChanges)
  BY <1>4 DEF Keeps, TransferChanges
<1>6. Refused' BY <1>2, <1>3, <1>4, <1>5 DEF Refused
<1> QED BY <1>2, <1>5, <1>6 DEF b

LEMMA AnswerEnded ==
  ASSUME Regular, Core, Isr, InTransfer, ToAnswer, Answer(SetupRead(d)).ok, host.req.len = 0
  PROVE  /\ Ended' /\ Keeps(Answer(SetupRead(d)).d, d', TransferChanges)
         /\ d'.sentStall = FALSE /\ d'.setupEnd = FALSE /\ d'.dataEnd = TRUE
         /\ d'.delay = (host.req.k = "address") /\ host.phase = "status"
<1> DEFINE b == Answer(SetupRead(d)).d
           req == host.req
<1>1. d' = NoDataStage(b) /\ DOMAIN b = Fields /\ b.setup = req BY IsrAnswers, TypesOfTransfer
<1>2. /\ b.tx = NoPkt /\ b.delay = FALSE /\ b.sentStall = FALSE /\ b.sendStall = FALSE
      /\ b.setupEnd = FALSE /\ b.cepState = "idle"
  BY AnswerKeepsTransfer
<1>3. irq'.ep0 = FALSE /\ host' = host BY IsrInTransfer
<1>4. host.phase = "status" BY DEF ToAnswer, FirstStage
<1>5. ~req.in BY InTransferIs DEF Regular
<1>6. req.k = "address" => b.addr = req.v
  <2>1. ASSUME req.k = "address" PROVE b.addr = req.v
    <3>1. /\ DOMAIN SetupRead(d) = Fields /\ SetupRead(d).setup = req
      BY IsrAnswers DEF Keeps
    <3> QED BY <2>1, <3>1, SetAddressDoes
  <2> QED BY <2>1
<1> HIDE DEF b
<1>7. /\ d'.dataEnd = TRUE /\ d'.rx = NoPkt
      /\ IF req.k = "address"
         THEN Keeps(b, d', {"cep", "dataEnd", "rx", "delay"}) /\ d'.delay = TRUE
         ELSE Keeps(b, d', RearmChanges \union {"dataEnd", "rx"}) /\ IsWaiting(d')
  <2>1. CASE req.k = "address"
    <3> DEFINE r == NoDataStage(b)
    <3>1. /\ r.dataEnd = TRUE /\ r.rx = NoPkt /\ r.delay = TRUE
          /\ Keeps(b, r, {"cep", "dataEnd", "rx", "delay"})
      BY <1>1, <2>1, NoDataStageDoes
    <3> HIDE DEF r
    <3>2. d' = r BY <1>1 DEF r
    <3> QED BY <2>1, <3>1, <3>2
  <2>2. CASE req.k # "address" BY <1>1, <2>2, NoDataStageDoes
  <2> QED BY <2>1, <2>2
<1>8. /\ d'.tx = b.tx /\ d'.sentStall = b.sentStall /\ d'.setupEnd = b.setupEnd
      /\ d'.sendStall = b.sendStall /\ d'.addr = b.addr
      /\ req.k # "address" => d'.delay = b.delay
      /\ req.k = "address" => d'.cepState = b.cepState
      /\ Keeps(b, d', TransferChanges)
  BY <1>7 DEF Keeps, RearmChanges, TransferChanges
<1>9. Ended'
  <2>1. CASE req.k = "address" BY <1>2, <1>3, <1>4, <1>5, <1>6, <1>7, <1>8, <2>1 DEF Ended
  <2>2. CASE req.k # "address"
    <3>1. Waiting' BY <1>7, <2>2 DEF Waiting
    <3> QED BY <1>2, <1>3, <1>4, <1>5, <1>7, <1>8, <2>2, <3>1 DEF Ended
  <2> QED BY <2>1, <2>2
<1>10. d'.delay = (req.k = "address") BY <1>2, <1>7, <1>8
<1> QED BY <1>2, <1>4, <1>7, <1>8, <1>9, <1>10 DEF b

LEMMA AnswerReceiving ==
  ASSUME Regular, Core, Isr, InTransfer, ToAnswer, Answer(SetupRead(d)).ok, host.req.len # 0,
         ~host.req.in
  PROVE  /\ Receiving' /\ Keeps(Answer(SetupRead(d)).d, d', TransferChanges)
         /\ d'.delay = FALSE /\ d'.sentStall = FALSE /\ d'.setupEnd = FALSE
<1> DEFINE m == SetupRead(d)
           a == Answer(m)
           b == a.d
           req == host.req
<1>1. d' = DataStage(a) /\ DOMAIN b = Fields /\ b.setup = req BY IsrAnswers, TypesOfTransfer
<1>2. /\ b.tx = NoPkt /\ b.dataEnd = FALSE /\ b.delay = FALSE /\ b.sentStall = FALSE
      /\ b.sendStall = FALSE /\ b.setupEnd = FALSE /\ b.got = 0
  BY AnswerKeepsTransfer
<1>3. irq'.ep0 = FALSE /\ host' = host BY IsrInTransfer
<1>4. req \in Requests /\ req.len \in Nat /\ req.len > 0 BY InTransferIs
<1>5. host.phase = "out" /\ host.n = 0 BY DEF ToAnswer, FirstStage
<1>6. \/ req.k # "class" /\ a.buf = "none" /\ a.len = 0
      \/ req.k = "class" /\ a.buf = "class" /\ a.len = req.len
  <2>1. m.setup = req /\ DriverTyped(m) BY IsrAnswers
  <2>2. /\ DOMAIN m = Fields /\ m.class \in AllClasses /\ m.user \in Speeds /\ m.speed \in Speeds
    BY <2>1 DEF DriverTyped
  <2> HIDE DEF m
  <2>3. m.setup \in Requests /\ ~m.setup.in /\ m.setup.len > 0 /\ Answer(m).ok BY <1>4, <2>1 DEF m
  <2>4. \/ m.setup.k # "class" /\ Answer(m).buf = "none" /\ Answer(m).len = 0
        \/ m.setup.k = "class" /\ Answer(m).buf = "class" /\ Answer(m).len = m.setup.len
    BY <2>2, <2>3, AnswerIs
  <2> QED BY <2>1, <2>4
<1>7. /\ Keeps(b, d', OutChanges)
      /\ d'.rx = NoPkt /\ d'.cep = "rx" /\ d'.cepState = "rx" /\ d'.buf = a.buf /\ d'.len = a.len
      /\ d'.cnt = 0
  BY <1>1, OutStageDoes
<1> HIDE DEF a
<1>8. /\ d'.tx = b.tx /\ d'.dataEnd = b.dataEnd /\ d'.delay = b.delay /\ d'.got = b.got
      /\ d'.sentStall = b.sentStall /\ d'.setupEnd = b.setupEnd /\ d'.sendStall = b.sendStall
      /\ Keeps(b, d', TransferChanges)
  BY <1>7 DEF Keeps, OutChanges, TransferChanges
<1>9. Receiving' BY <1>2, <1>3, <1>4, <1>5, <1>6, <1>7, <1>8 DEF Receiving
<1> QED BY <1>2, <1>8, <1>9 DEF a

\* The configuration the host reads is the one it has set.
LEMMA ConfigIsKnown ==
  ASSUME Core, InTransfer, host.req.k = "getConfig"
  PROVE  d.cfg # 0
<1>1. Legal(host.req) /\ host.addr # Unknown /\ host.phase # "gone"
  BY InTransferIs DEF InTransfer
<1>2. host.addr # 0 /\ host.cfg \notin {0, Unknown} BY <1>1 DEF Legal
<1>3. ~ConfigTaken BY DEF ConfigTaken
<1> QED BY <1>1, <1>2, <1>3 DEF Core, LevelInv

\* GET_STATUS comes in a state it is answered in.
LEMMA StatusIsAnswered ==
  ASSUME Core, InTransfer, host.req.k = "status"
  PROVE  d.state \in {"address", "configured"}
<1>1. /\ Legal(host.req) /\ host.addr # Unknown /\ host.phase # "gone" /\ ~host.susp
      /\ irq.usb = {}
  BY InTransferIs DEF InTransfer
<1>2. host.addr # 0 BY <1>1 DEF Legal
<1>3. ~ConfigTaken /\ ~AddressTaken BY DEF ConfigTaken, AddressTaken
<1>4. Level = d.state BY <1>1 DEF Level, Served, BusIrq
<1>5. d.state \in {"address", "configured"}
  BY <1>1, <1>2, <1>3, <1>4 DEF Core, LevelInv
<1> QED BY <1>5

LEMMA AnswerSending ==
  ASSUME Regular, Core, Isr, InTransfer, ToAnswer, Answer(SetupRead(d)).ok, host.req.len # 0,
         host.req.in
  PROVE  /\ Sending' /\ Keeps(Answer(SetupRead(d)).d, d', TransferChanges)
         /\ d'.delay = FALSE /\ d'.sentStall = FALSE /\ d'.setupEnd = FALSE
<1> DEFINE m == SetupRead(d)
           a == Answer(m)
           b == a.d
           req == host.req
           len == Least(a.len, req.len)
           n == IF a.buf = "none" THEN 0 ELSE Least(len, MaxPkt)
<1>1. d' = DataStage(a) /\ DOMAIN b = Fields /\ b.setup = req /\ a.len \in Nat
  BY IsrAnswers, TypesOfTransfer
<1>2. /\ b.delay = FALSE /\ b.sentStall = FALSE /\ b.sendStall = FALSE /\ b.setupEnd = FALSE
      /\ b.class = d.class /\ b.user = d.user /\ b.speed = d.speed
      /\ m.class = d.class /\ m.user = d.user /\ m.speed = d.speed /\ m.cfg = d.cfg
  BY AnswerKeepsTransfer
<1>3. irq'.ep0 = FALSE /\ host' = host BY IsrInTransfer
<1>4. req \in Requests /\ req.len \in Nat /\ req.len > 0 BY InTransferIs
<1>5. host.phase = "in" /\ host.n = 0 BY DEF ToAnswer, FirstStage
<1>6. \A v : DescriptorBuffer(m, v) = "none" => DescriptorLength(m, v) = 0
  BY DEF DescriptorBuffer, DescriptorLength, StringDescriptor
<1>7. /\ a.buf = "none" => a.len = 0
      /\ a.len = WantedN(m, req)
      /\ DataOf(a.buf) = WantedOf(m, host.of, req) \/ (req.k = "status" /\ req.v # "device")
  <2>1. m.setup = req /\ DriverTyped(m) BY IsrAnswers
  <2>2. /\ DOMAIN m = Fields /\ m.class \in AllClasses /\ m.user \in Speeds /\ m.speed \in Speeds
    BY <2>1 DEF DriverTyped
  <2>3. /\ req.k = "getConfig" => m.cfg # 0
        /\ req.k = "status" => m.state \in {"address", "configured"}
    BY <1>2, ConfigIsKnown, StatusIsAnswered, AnswerKeepsTransfer
  <2> HIDE DEF m
  <2>4. \/ /\ req.k = "descriptor" /\ a.buf = DescriptorBuffer(m, req.v)
           /\ a.len = DescriptorLength(m, req.v)
        \/ req.k = "getConfig" /\ a.len = 1 /\ a.buf = "cfg1"
        \/ req.k = "getInterface" /\ a.buf = "iface" /\ a.len = 1
        \/ req.k = "status" /\ req.v = "device" /\ a.buf = "self" /\ a.len = 2
        \/ req.k = "status" /\ req.v # "device" /\ a.len = 2 /\ a.buf # "none"
        \/ req.k = "class" /\ a.buf = "class" /\ a.len = IF m.class = "msc" THEN 1 ELSE req.len
    <3>1. m.setup \in Requests /\ m.setup.in /\ Answer(m).ok BY <1>4, <2>1 DEF m
    <3> DEFINE r == m.setup
    <3>2. \/ r.k = "status" /\ m.state \notin {"address", "configured"}
          \/ /\ r.k = "descriptor" /\ a.buf = DescriptorBuffer(m, r.v)
             /\ a.len = DescriptorLength(m, r.v)
          \/ r.k = "getConfig" /\ a.len = 1 /\ a.buf = IF m.cfg = 0 THEN "cfg0" ELSE "cfg1"
          \/ r.k = "getInterface" /\ a.buf = "iface" /\ a.len = 1
          \/ r.k = "status" /\ r.v = "device" /\ a.buf = "self" /\ a.len = 2
          \/ r.k = "status" /\ r.v # "device" /\ a.len = 2 /\ a.buf # "none"
          \/ r.k = "class" /\ a.buf = "class" /\ a.len = IF m.class = "msc" THEN 1 ELSE r.len
      BY <2>2, <3>1, AnswerIs
    <3> HIDE DEF a
    <3> QED BY <2>1, <2>3, <3>2
  <2> HIDE DEF a
  <2>5. CASE /\ req.k = "descriptor" /\ a.buf = DescriptorBuffer(m, req.v)
             /\ a.len = DescriptorLength(m, req.v)
    BY <1>6, <2>5 DEF WantedN, WantedOf
  <2>6. ASSUME req.k # "descriptor", a.buf # "none"
        PROVE  DataOf(a.buf) = a.buf
    BY <2>6, DataOfIs
  <2> QED BY <2>4, <2>5, <2>6 DEF WantedN, WantedOf
<1>8. len \in Nat /\ n \in Nat /\ n <= len /\ n <= MaxPkt
      /\ (a.buf # "none" => n = len \/ n = MaxPkt) /\ (a.buf = "none" => len = 0)
  BY <1>1, <1>4, <1>7 DEF Least
<1>9. /\ Keeps(b, d', InChanges)
      /\ d'.rx = NoPkt /\ d'.cep = "tx" /\ d'.cepState = "tx" /\ d'.buf = a.buf /\ d'.len = len
      /\ d'.cnt = n
      /\ d'.tx = [of |-> DataOf(a.buf), n |-> n, req |-> NoReq] /\ d'.dataEnd = (n >= len)
  BY <1>1, <1>4, InStageDoes
<1> HIDE DEF a, n, len
<1>10. /\ d'.delay = b.delay /\ d'.sentStall = b.sentStall /\ d'.setupEnd = b.setupEnd
       /\ d'.sendStall = b.sendStall
       /\ d'.class = b.class /\ d'.user = b.user /\ d'.speed = b.speed
       /\ Keeps(b, d', TransferChanges)
  BY <1>9 DEF Keeps, InChanges, TransferChanges
<1>11. d'.cnt <= d'.len /\ (d'.dataEnd <=> d'.cnt = d'.len)
  <2>1. n >= len <=> n = len BY <1>8
  <2>2. d'.dataEnd <=> n = len BY <1>9, <2>1
  <2> QED BY <1>8, <1>9, <2>2
<1>12. Sending'
  <2>1. /\ WantedN(d', req) = WantedN(m, req)
        /\ WantedOf(d', host.of, req) = WantedOf(m, host.of, req)
    BY <1>2, <1>10, SameWanted
  <2>2. d'.len = Least(Wanted(host.req)'.n, host'.req.len)
    BY <1>3, <1>7, <1>9, <2>1, WantedIsNext DEF len
  <2>3. \/ DataOf(d'.buf) = Wanted(host.req)'.of
        \/ host'.req.k = "status" /\ host'.req.v # "device"
    BY <1>3, <1>7, <1>9, <2>1, WantedIsNext
  <2>4. d'.tx.of = DataOf(a.buf) /\ d'.tx.n = n BY <1>9
  <2>5. d'.tx # NoPkt BY <2>4, NoPktIs, DataOfIs
  <2>6. host'.n + d'.tx.n = d'.cnt /\ d'.tx.n <= MaxPkt BY <1>3, <1>5, <1>8, <1>9, <2>4
  <2>7. d'.dataEnd \/ d'.tx.n = MaxPkt
    <3>1. n = len \/ n = MaxPkt BY <1>8
    <3> QED BY <1>9, <1>11, <2>4, <3>1
  <2>8. d'.buf = "none" => d'.len = 0 BY <1>8, <1>9
  <2> QED
    BY <1>2, <1>3, <1>5, <1>9, <1>10, <1>11, <2>2, <2>3, <2>4, <2>5, <2>6, <2>7, <2>8 DEF Sending
<1> QED BY <1>2, <1>10, <1>12 DEF a

LEMMA AnswerComes ==
  ASSUME Regular, Core, Isr, InTransfer, ToAnswer
  PROVE  LET b == Answer(SetupRead(d)).d
         IN /\ CepInv' /\ AddressInv'
            /\ d'.state = b.state /\ d'.cfg = b.cfg /\ d'.eps = b.eps /\ d'.cls = b.cls
            /\ d'.haltTx = b.haltTx /\ d'.haltRx = b.haltRx
            /\ d'.stallTx = b.stallTx /\ d'.stallRx = b.stallRx
            /\ d'.class = d.class /\ d'.bus = d.bus /\ d'.speed = d.speed
            /\ Answer(SetupRead(d)).ok /\ host.req.len = 0 => d'.dataEnd
<1> DEFINE a == Answer(SetupRead(d))
           b == a.d
<1>1. /\ host.req \in Requests /\ host.addr = d.faddr BY InTransferIs
<1>2. a.ok \in BOOLEAN /\ host.req.in \in BOOLEAN BY <1>1, IsrAnswers
<1>3. /\ Refused' \/ Ended' \/ Sending' \/ Receiving'
      /\ Keeps(b, d', TransferChanges) /\ d'.sentStall = FALSE /\ d'.setupEnd = FALSE
      /\ d'.delay => host.phase = "status"
      /\ a.ok /\ host.req.len = 0 => d'.dataEnd
  <2>1. CASE ~a.ok BY <2>1, AnswerRefused
  <2>2. CASE a.ok /\ host.req.len = 0 BY <2>2, AnswerEnded
  <2>3. CASE a.ok /\ host.req.len # 0 /\ ~host.req.in BY <2>3, AnswerReceiving
  <2>4. CASE a.ok /\ host.req.len # 0 /\ host.req.in BY <2>4, AnswerSending
  <2> QED BY <1>2, <2>1, <2>2, <2>3, <2>4
<1>4. b.faddr = d.faddr /\ b.class = d.class /\ b.bus = d.bus /\ b.speed = d.speed
  BY AnswerKeepsTransfer
<1> HIDE DEF a
<1>5. /\ d'.state = b.state /\ d'.cfg = b.cfg /\ d'.eps = b.eps /\ d'.cls = b.cls
      /\ d'.haltTx = b.haltTx /\ d'.haltRx = b.haltRx
      /\ d'.stallTx = b.stallTx /\ d'.stallRx = b.stallRx
      /\ d'.class = b.class /\ d'.bus = b.bus /\ d'.speed = b.speed /\ d'.faddr = b.faddr
  BY <1>3 DEF Keeps, TransferChanges
<1>6. CepInv' BY <1>3, IsrCepInv
<1>7. AddressInv'
  <2>1. host' = host /\ host.phase \in {"in", "out", "status"} BY IsrInTransfer DEF InTransfer
  <2> QED BY <1>1, <1>3, <1>4, <1>5, <2>1 DEF AddressInv
<1> QED BY <1>3, <1>4, <1>5, <1>6, <1>7 DEF a

\* A request that changes neither the address nor the configuration.
LEMMA IsrOtherKeeps ==
  ASSUME Regular, Core, Isr, InTransfer, ToAnswer, host.req.k \notin {"address", "setConfig"}
  PROVE  Core' /\ ConfigKept
<1> DEFINE m == SetupRead(d)
           b == Answer(m).d
<1>1. /\ irq'.usb = {} /\ host' = host /\ Typed' /\ Served = d /\ Served' = d'
      /\ Level = d.state /\ Level' = d'.state /\ host.phase # "gone"
  BY IsrInTransfer DEF InTransfer
<1>2. /\ CepInv' /\ AddressInv'
      /\ d'.state = b.state /\ d'.cfg = b.cfg /\ d'.eps = b.eps /\ d'.cls = b.cls
      /\ d'.haltTx = b.haltTx /\ d'.haltRx = b.haltRx
      /\ d'.stallTx = b.stallTx /\ d'.stallRx = b.stallRx
      /\ d'.class = d.class /\ d'.bus = d.bus /\ d'.speed = d.speed
  BY AnswerComes
<1>3. /\ m.state = d.state /\ m.cfg = d.cfg /\ m.eps = d.eps /\ m.cls = d.cls
      /\ m.haltTx = d.haltTx /\ m.haltRx = d.haltRx
      /\ m.stallTx = d.stallTx /\ m.stallRx = d.stallRx
  BY AnswerKeepsTransfer
<1>4. /\ DriverTyped(m) /\ m.setup = host.req BY IsrAnswers
<1>5. /\ DOMAIN m = Fields /\ m.class \in AllClasses /\ m.user \in Speeds /\ m.speed \in Speeds
      /\ m.setup.len \in Nat
  BY <1>4, InTransferIs DEF DriverTyped
<1> HIDE DEF m
<1>6. Keeps(m, b, HaltChanges) /\ (Alike(m) => Alike(b)) BY <1>4, <1>5, OtherRequestDoes
<1> HIDE DEF b
<1>7. b.state = m.state /\ b.cfg = m.cfg /\ b.eps = m.eps /\ b.cls = m.cls
  BY <1>6 DEF Keeps, HaltChanges
<1>8. Level' = Level /\ d'.cfg = d.cfg /\ d'.eps = d.eps /\ d'.cls = d.cls
  BY <1>1, <1>2, <1>3, <1>7
<1>9. LevelInv'
  <2>1. ~AddressTaken /\ ~ConfigTaken /\ ~AddressTaken' /\ ~ConfigTaken'
    BY <1>1 DEF AddressTaken, ConfigTaken
  <2>2. Served'.speed = Served'.bus BY <1>1, <1>2 DEF Core, LevelInv
  <2> QED BY <1>1, <1>8, <2>1, <2>2, LevelKept DEF Core
<1>10. ConfigKept
  <2>1. Alike(d) => Alike(d') BY <1>2, <1>3, <1>6 DEF Alike
  <2> QED BY <1>1, <1>2, <1>8, <2>1 DEF ConfigKept
<1> QED BY <1>1, <1>2, <1>9, <1>10, IsrEvents DEF Core

LEMMA IsrAddressKeeps ==
  ASSUME Regular, Core, Isr, InTransfer, ToAnswer, host.req.k = "address"
  PROVE  Core' /\ ConfigKept
<1> DEFINE m == SetupRead(d)
           b == Answer(m).d
           v == host.req.v
<1>1. /\ irq'.usb = {} /\ host' = host /\ Typed' /\ Served = d /\ Served' = d'
      /\ Level = d.state /\ Level' = d'.state /\ host.phase # "gone"
  BY IsrInTransfer DEF InTransfer
<1>2. /\ CepInv' /\ AddressInv'
      /\ d'.state = b.state /\ d'.eps = b.eps
      /\ d'.class = d.class /\ d'.bus = d.bus /\ d'.speed = d.speed
      /\ Answer(m).ok /\ host.req.len = 0 => d'.dataEnd
  BY AnswerComes
<1>3. m.state = d.state /\ m.eps = d.eps BY AnswerKeepsTransfer
<1>4. m.setup = host.req /\ DOMAIN m = Fields BY IsrAnswers DEF Keeps
<1> HIDE DEF m
<1>5. /\ Answer(m).ok /\ Keeps(m, b, {"addr", "state"})
      /\ b.state = IF m.state = "default" /\ v # 0 THEN "address"
                   ELSE IF m.state = "address" /\ v = 0 THEN "default" ELSE m.state
  BY <1>4, SetAddressDoes
<1> HIDE DEF b
<1>6. b.eps = m.eps BY <1>5 DEF Keeps
<1>7. /\ Legal(host.req) /\ host.addr # Unknown /\ host.req \in Requests BY InTransferIs
<1>8. host.req.len = 0 /\ host.phase = "status" BY <1>7 DEF Regular, ToAnswer, FirstStage
<1>9. AddressTaken' /\ ~ConfigTaken' BY <1>1, <1>2, <1>5, <1>8 DEF AddressTaken, ConfigTaken
<1>10. ~AddressTaken /\ ~ConfigTaken BY DEF ToAnswer, AddressTaken, ConfigTaken
<1>11. CASE host.addr = 0
  <2>1. d.state = "default" /\ host.cfg = 0 BY <1>1, <1>10, <1>11 DEF Core, LevelInv
  <2>2. Level' = IF v # 0 THEN "address" ELSE "default" BY <1>1, <1>2, <1>3, <1>5, <2>1
  <2>3. Served'.speed = Served'.bus BY <1>1, <1>2 DEF Core, LevelInv
  <2>4. LevelInv' BY <1>1, <1>7, <1>9, <1>11, <2>1, <2>2, <2>3 DEF LevelInv, Unknown
  <2>5. ConfigKept BY <1>1, <1>2, <1>3, <1>6, <2>2 DEF ConfigKept
  <2> QED BY <1>1, <1>2, <2>4, <2>5, IsrEvents DEF Core
<1>12. CASE host.addr # 0
  <2>1. host.cfg = 0 BY <1>7, <1>12 DEF Legal
  <2>2. d.state = "address"
    BY <1>1, <1>7, <1>10, <1>12, <2>1 DEF Core, LevelInv, Unknown
  <2>3. Level' = IF v = 0 THEN "default" ELSE "address" BY <1>1, <1>2, <1>3, <1>5, <2>2
  <2>4. Served'.speed = Served'.bus BY <1>1, <1>2 DEF Core, LevelInv
  <2>5. LevelInv' BY <1>1, <1>7, <1>9, <1>12, <2>1, <2>3, <2>4 DEF LevelInv, Unknown
  <2>6. ConfigKept BY <1>1, <1>2, <1>3, <1>6, <2>3 DEF ConfigKept
  <2> QED BY <1>1, <1>2, <2>5, <2>6, IsrEvents DEF Core
<1> QED BY <1>11, <1>12

---------------------------------------------------------------------------
(* SET_CONFIGURATION: what a build's endpoints come to.                     *)

\* Configuring what is configured already changes nothing.
LEMMA GivenIs ==
  ASSUME NEW b \in Builds, Fits(b), NEW eps \in {AppConfigs(b.class), Given(b.class, b.bus)}
  PROVE  LET configs == ClassConfigs(b.class, b.bus)
             tx == TxNew(configs, b.bus)
             rx == RxNew(configs, b.bus)
         IN /\ Replaces(Replaces(eps, tx), rx) = Given(b.class, b.bus)
            /\ b.class # "hid" => ~Spares(tx) /\ ~Spares(rx)
<1> DEFINE configs == ClassConfigs(b.class, b.bus)
           app == AppConfigs(b.class)
           tx == TxNew(configs, b.bus)
           rx == RxNew(configs, b.bus)
<1>1. b.class # "hid" =>
        /\ \E e \in configs : e.num = 1 /\ e.dir = "tx" /\ TxAccepted(b.bus, e)
        /\ \E e \in configs : e.num = 1 /\ e.dir = "rx" /\ RxAccepted(b.bus, e)
  BY DEF Fits
<1> HIDE DEF configs
<1>2. /\ tx = {e \in configs : e.dir = "tx" /\ TxAccepted(b.bus, e)}
      /\ rx = {e \in configs : e.dir = "rx" /\ RxAccepted(b.bus, e)}
  BY DEF TxNew, RxNew
<1>3. Given(b.class, b.bus) = Replaces(Replaces(app, tx), rx) BY <1>2 DEF Given, configs
<1>4. b.class # "hid" => ~Spares(tx) /\ ~Spares(rx) BY <1>1, <1>2 DEF Spares
<1>5. \A e \in tx, x \in rx : <<x.num, x.dir>> # <<e.num, e.dir>> BY <1>2
<1> HIDE DEF tx, rx, app
<1>6. Replaces(Replaces(Replaces(Replaces(app, tx), rx), tx), rx) = Replaces(Replaces(app, tx), rx)
  <2> DEFINE Free(x, es) == \A e \in es : <<x.num, x.dir>> # <<e.num, e.dir>>
             g == Replaces(Replaces(app, tx), rx)
  <2>1. \A x : x \in g <=> x \in rx \/ (Free(x, rx) /\ (x \in tx \/ (x \in app /\ Free(x, tx))))
    BY DEF Replaces
  <2>2. \A x : x \in Replaces(Replaces(g, tx), rx)
                 <=> x \in rx \/ (Free(x, rx) /\ (x \in tx \/ (x \in g /\ Free(x, tx))))
    BY DEF Replaces
  <2> HIDE DEF Free, g
  <2>3. \A x : x \in Replaces(Replaces(g, tx), rx) <=> x \in g BY <2>1, <2>2
  <2>4. Replaces(Replaces(g, tx), rx) = g BY <2>3
  <2> QED BY <2>4 DEF g
<1>7. Replaces(Replaces(eps, tx), rx) = Given(b.class, b.bus)
  <2>1. CASE eps = app BY <1>3, <2>1
  <2>2. CASE eps = Given(b.class, b.bus) BY <1>3, <1>6, <2>2
  <2> QED BY <2>1, <2>2 DEF app
<1> QED BY <1>4, <1>7 DEF tx, rx, configs

LEMMA IsrSetConfigKeeps ==
  ASSUME Regular, Core, Isr, InTransfer, ToAnswer, host.req.k = "setConfig"
  PROVE  Core' /\ (AllFit /\ ConfigInv => ConfigInv')
<1> DEFINE m == SetupRead(d)
           b == Answer(m).d
           v == host.req.v
           tx == TxNew(ClassConfigs(d.class, d.speed), d.speed)
           rx == RxNew(ClassConfigs(d.class, d.speed), d.speed)
<1>1. /\ irq'.usb = {} /\ host' = host /\ Typed' /\ Served = d /\ Served' = d'
      /\ Level = d.state /\ Level' = d'.state /\ host.phase # "gone" /\ DriverTyped(d)
  BY IsrInTransfer DEF InTransfer
<1>2. /\ CepInv' /\ AddressInv'
      /\ d'.state = b.state /\ d'.cfg = b.cfg /\ d'.eps = b.eps /\ d'.cls = b.cls
      /\ d'.haltTx = b.haltTx /\ d'.haltRx = b.haltRx
      /\ d'.stallTx = b.stallTx /\ d'.stallRx = b.stallRx
      /\ d'.class = d.class /\ d'.bus = d.bus /\ d'.speed = d.speed
      /\ Answer(m).ok /\ host.req.len = 0 => d'.dataEnd
  BY AnswerComes
<1>3. /\ m.state = d.state /\ m.eps = d.eps /\ m.class = d.class /\ m.speed = d.speed
      /\ m.haltTx = d.haltTx /\ m.haltRx = d.haltRx
      /\ m.stallTx = d.stallTx /\ m.stallRx = d.stallRx
  BY AnswerKeepsTransfer
<1>4. m.setup = host.req /\ DOMAIN m = Fields BY IsrAnswers DEF Keeps
<1>5. d.class \in AllClasses BY <1>1 DEF DriverTyped
<1>6. /\ Legal(host.req) /\ host.addr # Unknown /\ host.req \in Requests BY InTransferIs
<1>7. host.req.len = 0 /\ host.phase = "status" BY <1>6 DEF Regular, ToAnswer, FirstStage
<1>8. ~AddressTaken /\ ~ConfigTaken BY DEF ToAnswer, AddressTaken, ConfigTaken
<1>9. host.addr # 0 BY <1>6 DEF Legal
<1>10. d.state \in {"address", "configured"}
  BY <1>1, <1>6, <1>8, <1>9 DEF Core, LevelInv
<1> HIDE DEF m
<1>11. /\ Answer(m).ok /\ b.cfg = v
       /\ v # 0 =>
            /\ b.state = "configured" /\ b.cls = "configured"
            /\ b.eps = Replaces(Replaces(d.eps, tx), rx)
            /\ b.haltTx = (d.haltTx /\ Spares(tx)) /\ b.stallTx = (d.stallTx /\ Spares(tx))
            /\ b.haltRx = (d.haltRx /\ Spares(rx)) /\ b.stallRx = (d.stallRx /\ Spares(rx))
       /\ v = 0 => b.state = "address" /\ b.eps = d.eps
  <2>1. m.class \in AllClasses /\ m.setup.k = "setConfig" /\ m.setup.v = v BY <1>3, <1>4, <1>5
  <2>2. m.state \in {"address", "configured"} BY <1>3, <1>10
  <2>3. Answer(m).ok /\ b.cfg = v BY <1>4, <2>1, <2>2, SetConfigDoes
  <2>4. CASE v # 0
    <3> DEFINE ntx == TxNew(ClassConfigs(m.class, m.speed), m.speed)
               nrx == RxNew(ClassConfigs(m.class, m.speed), m.speed)
    <3>1. /\ b.state = "configured" /\ b.cls = "configured"
          /\ b.eps = Replaces(Replaces(m.eps, ntx), nrx)
          /\ b.haltTx = (m.haltTx /\ Spares(ntx)) /\ b.stallTx = (m.stallTx /\ Spares(ntx))
          /\ b.haltRx = (m.haltRx /\ Spares(nrx)) /\ b.stallRx = (m.stallRx /\ Spares(nrx))
      BY <1>4, <2>1, <2>2, <2>4, SetConfigDoes
    <3>2. ntx = tx /\ nrx = rx BY <1>3
    <3> HIDE DEF b, ntx, nrx, tx, rx
    <3> QED BY <1>3, <2>3, <2>4, <3>1, <3>2
  <2>5. CASE v = 0
    <3>1. b.state = "address" /\ b.eps = m.eps BY <1>4, <2>1, <2>2, <2>5, SetConfigDoes
    <3> QED BY <1>3, <2>3, <2>5, <3>1
  <2> QED BY <2>4, <2>5
<1> HIDE DEF b
<1>12. ~AddressTaken' /\ ConfigTaken' BY <1>1, <1>2, <1>7, <1>11 DEF AddressTaken, ConfigTaken
<1>13. Level' = (IF v = 0 THEN "address" ELSE "configured") /\ d'.cfg = v
  BY <1>1, <1>2, <1>11
<1>14. Served'.speed = Served'.bus BY <1>1, <1>2 DEF Core, LevelInv
<1>15. LevelInv' BY <1>1, <1>6, <1>9, <1>12, <1>13, <1>14 DEF LevelInv
<1>16. ASSUME AllFit, ConfigInv
       PROVE  ConfigInv'
  <2> DEFINE built == [class |-> d.class, user |-> d.user, bus |-> d.bus]
  <2>1. built \in Builds /\ Fits(built) BY <1>1, <1>16 DEF DriverTyped, AllFit
  <2>2. d.eps \in {AppConfigs(d.class), Given(d.class, d.bus)} BY <1>16 DEF ConfigInv
  <2>3. d.speed = d.bus BY <1>1 DEF Core, LevelInv
  <2>4. /\ Replaces(Replaces(d.eps, tx), rx) = Given(d.class, d.bus)
        /\ d.class # "hid" => ~Spares(tx) /\ ~Spares(rx)
    <3>1. built.class = d.class /\ built.bus = d.bus OBVIOUS
    <3> HIDE DEF built
    <3> QED BY <2>1, <2>2, <2>3, <3>1, GivenIs
  <2> HIDE DEF tx, rx
  <2>5. CASE v = 0 BY <1>1, <1>2, <1>11, <1>13, <2>2, <2>5 DEF ConfigInv
  <2>6. CASE v # 0
    <3>1. d'.eps = Given(d.class, d.bus) /\ d'.cls = "configured" BY <1>2, <1>11, <2>4, <2>6
    <3>2. d.class # "hid" => d'.haltTx = d'.stallTx /\ d'.haltRx = d'.stallRx
      BY <1>2, <1>11, <2>4, <2>6
    <3> QED BY <1>1, <1>2, <3>1, <3>2 DEF ConfigInv
  <2> QED BY <2>5, <2>6
<1> QED BY <1>1, <1>2, <1>15, <1>16, IsrEvents DEF Core

LEMMA IsrKeeps ==
  ASSUME Regular, Core, Isr
  PROVE  Core' /\ (AllFit /\ ConfigInv => ConfigInv')
<1>1. host.phase \in {"gone", "idle", "in", "out", "status"} BY DEF Core, Typed
<1>2. CASE host.phase = "gone" BY <1>2, IsrGoneKeeps, ConfigInvKept
<1>3. CASE host.phase = "idle"
  <2>1. CASE "reset" \in irq.usb BY <2>1, IsrResetKeeps, ConfigInvKept
  <2>2. CASE "reset" \notin irq.usb BY <1>3, <2>2, IsrIdleKeeps, ConfigInvKept
  <2> QED BY <2>1, <2>2
<1>4. CASE InTransfer
  <2>1. CASE ToAnswer
    <3>1. CASE host.req.k = "setConfig" BY <1>4, <2>1, <3>1, IsrSetConfigKeeps
    <3>2. CASE host.req.k = "address" BY <1>4, <2>1, <3>2, IsrAddressKeeps, ConfigInvKept
    <3>3. CASE host.req.k \notin {"address", "setConfig"}
      BY <1>4, <2>1, <3>3, IsrOtherKeeps, ConfigInvKept
    <3> QED BY <3>1, <3>2, <3>3
  <2>2. CASE Sending BY <1>4, <2>2, IsrSendingKeeps, ConfigInvKept
  <2>3. CASE Receiving BY <1>4, <2>3, IsrReceivingKeeps, ConfigInvKept
  <2>4. irq.ep0 = TRUE BY <1>4, IsrInTransfer
  <2>5. ~Refused /\ ~Ended BY <2>4 DEF Refused, Ended
  <2> QED BY <1>4, <2>1, <2>2, <2>3, <2>5, InTransferIs
<1> QED BY <1>1, <1>2, <1>3, <1>4 DEF InTransfer

---------------------------------------------------------------------------
(* The invariant holds.                                                     *)

LEMMA InitHolds ==
  ASSUME Init
  PROVE  Core /\ ConfigInv
<1>1. PICK b \in Builds :
        d = [state |-> "notAttached", saved |-> "notAttached", addr |-> 0, cfg |-> 0,
             iface |-> 0, haltTx |-> FALSE, haltRx |-> FALSE, class |-> b.class,
             user |-> b.user, bus |-> b.bus, speed |-> b.user, eps |-> AppConfigs(b.class),
             cls |-> "none", classGot |-> 0, delay |-> FALSE,
             cep |-> "idle", buf |-> "setup", len |-> SetupSize, cnt |-> 0,
             txn |-> SetupSize, got |-> 0, setup |-> NoReq, cepState |-> "idle",
             rx |-> NoPkt, tx |-> NoPkt, dataEnd |-> FALSE,
             setupEnd |-> FALSE, sendStall |-> FALSE, sentStall |-> FALSE,
             stallTx |-> FALSE, stallRx |-> FALSE, faddr |-> 0]
  BY DEF Init
<1>2. /\ irq = [ep0 |-> FALSE, usb |-> {}]
      /\ host = [phase |-> "gone", req |-> NoReq, n |-> 0, of |-> "none",
                 addr |-> 0, cfg |-> 0, susp |-> FALSE]
      /\ count = [bus |-> 0, aborts |-> 0]
  BY DEF Init
<1>3. /\ b.class \in AllClasses /\ b.user \in Speeds /\ b.bus \in Speeds
      /\ b = [class |-> b.class, user |-> b.user, bus |-> b.bus]
  OBVIOUS
<1>4. /\ DOMAIN d = Fields
      /\ d.state = "notAttached" /\ d.saved = "notAttached" /\ d.addr = 0 /\ d.faddr = 0
      /\ d.class = b.class /\ d.user = b.user /\ d.bus = b.bus /\ d.speed = b.user
      /\ d.cep = "idle" /\ d.cepState = "idle" /\ d.len = SetupSize /\ d.cnt = 0
      /\ d.txn = SetupSize /\ d.got = 0 /\ d.classGot = 0 /\ d.rx = NoPkt /\ d.tx = NoPkt
      /\ d.setup = NoReq /\ d.eps = AppConfigs(b.class)
  BY <1>1
<1>5. /\ d.dataEnd = FALSE /\ d.setupEnd = FALSE /\ d.sendStall = FALSE /\ d.sentStall = FALSE
      /\ d.delay = FALSE /\ d.haltTx = FALSE /\ d.haltRx = FALSE
      /\ d.stallTx = FALSE /\ d.stallRx = FALSE
  BY <1>1
<1>6. DriverTyped(d)
  <2>1. d.state \in States /\ d.saved \in States /\ d.addr \in 0..127 /\ d.faddr \in 0..127
    BY <1>4 DEF States
  <2>2. /\ d.class \in AllClasses /\ d.user \in Speeds /\ d.bus \in Speeds /\ d.speed \in Speeds
        /\ [class |-> d.class, user |-> d.user, bus |-> d.bus] \in Builds
    BY <1>3, <1>4
  <2>3. /\ d.cep \in CepStates /\ d.cepState \in {"idle", "rx", "tx"}
        /\ d.len \in Nat /\ d.cnt \in Nat /\ d.txn \in Nat /\ d.got \in Nat /\ d.classGot \in Nat
        /\ Packet(d.rx) /\ Packet(d.tx) /\ d.setup \in Requests \union {NoReq}
    BY <1>4, NoPktIs DEF CepStates, SetupSize
  <2>4. /\ d.dataEnd \in BOOLEAN /\ d.setupEnd \in BOOLEAN /\ d.sendStall \in BOOLEAN
        /\ d.sentStall \in BOOLEAN /\ d.delay \in BOOLEAN
        /\ d.haltTx \in BOOLEAN /\ d.haltRx \in BOOLEAN
        /\ d.stallTx \in BOOLEAN /\ d.stallRx \in BOOLEAN
    BY <1>5
  <2> QED BY <1>4, <2>1, <2>2, <2>3, <2>4 DEF DriverTyped
<1>7. Typed
  <2>1. \E e \in UsbEvents : irq.usb \subseteq {e, "reset"} BY <1>2 DEF UsbEvents
  <2>2. DOMAIN irq = {"ep0", "usb"} /\ DOMAIN count = {"bus", "aborts"}
    BY <1>2
  <2>3. /\ DOMAIN host = {"phase", "req", "n", "of", "addr", "cfg", "susp"}
        /\ host.phase = "gone" /\ host.n = 0 /\ host.addr = 0 /\ host.cfg = 0
    BY <1>2
  <2>4. irq.ep0 \in BOOLEAN /\ host.susp \in BOOLEAN BY <1>2
  <2> QED BY <1>6, <2>1, <2>2, <2>3, <2>4 DEF Typed
<1>8. irq.usb = {} /\ host.phase = "gone" /\ ~host.susp BY <1>2
<1>9. Served = d BY <1>8, ServedNow
<1>10. CepInv BY <1>8 DEF CepInv, InTransfer
<1>11. EventInv BY <1>4, <1>8, <1>9 DEF EventInv
<1>12. AddressInv /\ LevelInv BY <1>8 DEF AddressInv, LevelInv
<1>13. ConfigInv BY <1>4, <1>8 DEF ConfigInv
<1> QED BY <1>7, <1>10, <1>11, <1>12, <1>13 DEF Core

LEMMA StutterKeeps ==
  ASSUME Core, UNCHANGED vars
  PROVE  Core' /\ (ConfigInv => ConfigInv')
<1>1. d' = d /\ irq' = irq /\ host' = host /\ count' = count BY DEF vars
<1>2. Typed' BY <1>1 DEF Core, Typed
<1>3. Served' = Served BY <1>1 DEF Served
<1>4. EventInv' BY <1>1, <1>3 DEF Core, EventInv
<1>5. AddressInv' BY <1>1 DEF Core, AddressInv, InTransfer
<1>6. LevelInv' BY <1>1, <1>3 DEF Core, LevelInv, Level, AddressTaken, ConfigTaken
<1>7. CepInv'
  <2>1. Legal(host.req)' = Legal(host.req) BY <1>1 DEF Legal
  <2>2. /\ Wanted(host.req)'.n = Wanted(host.req).n /\ Wanted(host.req)'.of = Wanted(host.req).of
    BY <1>1, WantedIs, WantedIsNext
  <2>3. IdleInv => IdleInv' BY <1>1 DEF IdleInv, Waiting
  <2>4. ToAnswer => ToAnswer' BY <1>1 DEF ToAnswer, Waiting
  <2>5. Refused => Refused' BY <1>1 DEF Refused
  <2>6. Ended => Ended' BY <1>1 DEF Ended, Waiting
  <2>7. Receiving => Receiving' BY <1>1 DEF Receiving
  <2>8. Sending => Sending' BY <1>1, <2>2 DEF Sending
  <2>9. Cleared => Cleared' BY <1>1 DEF Cleared
  <2>10. InTransfer' = InTransfer BY <1>1 DEF InTransfer
  <2> QED BY <1>1, <2>1, <2>3, <2>4, <2>5, <2>6, <2>7, <2>8, <2>9, <2>10 DEF Core, CepInv
<1>8. ConfigInv => ConfigInv' BY <1>1, <1>3 DEF ConfigInv, Level
<1> QED BY <1>2, <1>4, <1>5, <1>6, <1>7, <1>8 DEF Core

LEMMA NextKeeps ==
  ASSUME Regular, Overlap = {}, Core, [Next]_vars
  PROVE  Core' /\ (AllFit /\ ConfigInv => ConfigInv')
<1>1. CASE Isr BY <1>1, IsrKeeps
<1>2. CASE IsrAfterDelay BY <1>2, IsrAfterDelayKeeps, ConfigInvKept
<1>3. ASSUME NEW r \in Requests, HostSetup(r)
      PROVE  Core' /\ (AllFit /\ ConfigInv => ConfigInv')
  BY <1>3, HostSetupKeeps, ConfigInvKept
<1>4. CASE HostIn BY <1>4, HostInKeeps, ConfigInvKept
<1>5. CASE HostOut BY <1>5, HostOutKeeps, ConfigInvKept
<1>6. CASE HostStatus BY <1>6, HostStatusKeeps, ConfigInvKept
<1>7. CASE HostStalled BY <1>7, HostStalledKeeps, ConfigInvKept
<1>8. CASE HostAbort BY <1>8, HostAbortKeeps, ConfigInvKept
<1>9. CASE BusReset BY <1>9, BusResetKeeps, ConfigInvKept
<1>10. CASE BusSuspend BY <1>10, BusSuspendKeeps, ConfigInvKept
<1>11. CASE BusResume BY <1>11, BusResumeKeeps, ConfigInvKept
<1>12. CASE Unplug BY <1>12, UnplugKeeps, ConfigInvKept
<1>13. CASE UNCHANGED vars BY <1>13, StutterKeeps
<1> QED
  BY <1>1, <1>2, <1>3, <1>4, <1>5, <1>6, <1>7, <1>8, <1>9, <1>10, <1>11, <1>12, <1>13
  DEF Next, HostNext, HostGoesOn

---------------------------------------------------------------------------
(* What follows from it.                                                    *)

LEMMA AnswerFollowsCore ==
  ASSUME Regular, Core
  PROVE  AnswerIsRight
<1> DEFINE r == host.req
<1>1. SUFFICES ASSUME AboutToEndWell
               PROVE  /\ r.in => host.of = Wanted(r).of /\ host.n = Least(Wanted(r).n, r.len)
                      /\ ~r.in /\ r.len > 0 /\ r.k = "class" => d.classGot = r.len
  BY DEF AnswerIsRight
<1>2. host.phase = "status" /\ d.dataEnd /\ d.tx = NoPkt BY <1>1 DEF AboutToEndWell
<1>3. InTransfer BY <1>2 DEF InTransfer
<1>4. Ended \/ Sending
  BY <1>2, <1>3, InTransferIs DEF ToAnswer, Refused, Receiving
<1>5. CASE Ended BY <1>2, <1>5 DEF Ended
<1>6. CASE Sending
  <2>1. /\ r.in /\ d.len = Least(Wanted(r).n, r.len)
        /\ DataOf(d.buf) = Wanted(r).of \/ (r.k = "status" /\ r.v # "device")
        /\ host.of = DataOf(d.buf) /\ host.n = d.cnt /\ d.cnt = d.len
    BY <1>2, <1>6 DEF Sending
  <2>2. r.k = "status" /\ r.v # "device" => Wanted(r).of = host.of BY WantedIs DEF WantedOf
  <2> QED BY <2>1, <2>2
<1> QED BY <1>4, <1>5, <1>6

LEMMA ReadyFollowsCore ==
  ASSUME Core
  PROVE  ReadyForSetup
<1>1. SUFFICES ASSUME host.phase = "idle", ~Pending
               PROVE  /\ IsWaiting(d) /\ host.addr \in {d.faddr, Unknown}
  BY DEF ReadyForSetup, IsWaiting
<1>2. ~irq.ep0 /\ irq.usb = {} /\ ~d.delay BY <1>1 DEF Pending
<1>3. IdleInv BY <1>1, <1>2 DEF Core, CepInv
<1>4. Waiting BY <1>2, <1>3 DEF IdleInv
<1> QED BY <1>1, <1>2, <1>4 DEF Core, AddressInv, Waiting

LEMMA StateFollowsCore ==
  ASSUME Core, ConfigInv, AllFit
  PROVE  StateInStep
<1>1. CASE Pending BY <1>1 DEF StateInStep, HaltReported, EndpointsInStep
<1>2. CASE ~Pending
  <2>1. irq.usb = {} /\ Served = d BY <1>2, ServedNow DEF Pending
  <2>2. host.susp => d.state = "suspended" BY <2>1 DEF Core, EventInv
  <2>3. host.phase = "gone" => d.state = "notAttached" BY <2>1 DEF Core, EventInv
  <2>4. d.state = "configured" => Level = "configured" /\ host.phase # "gone"
    BY <2>1, <2>2, <2>3 DEF Level
  <2>5. ASSUME Unknown \notin {host.addr, host.cfg}, host.phase = "idle", ~host.susp
        PROVE  d.state = IF host.addr = 0 THEN "default"
                         ELSE IF host.cfg = 0 THEN "address" ELSE "configured"
    <3>1. ~AddressTaken /\ ~ConfigTaken BY <2>5 DEF AddressTaken, ConfigTaken
    <3>2. Level = d.state BY <2>1, <2>5 DEF Level
    <3> QED BY <2>5, <3>1, <3>2 DEF Core, LevelInv
  <2>6. d.state = "configured" =>
          /\ d.cls = "configured" /\ d.eps = Given(d.class, d.bus) /\ d.speed = d.bus
          /\ d.class # "hid" => d.haltTx = d.stallTx /\ d.haltRx = d.stallRx
    BY <2>1, <2>4 DEF ConfigInv, Core, LevelInv
  <2>7. HaltReported BY <2>6 DEF HaltReported
  <2>8. EndpointsInStep
    <3>1. SUFFICES ASSUME d.state = "configured"
                   PROVE  LET conf == ConfDescriptor(d.class, d.user, d.speed)
                          IN /\ Cardinality(d.eps) = Cardinality(EpsOf(conf))
                             /\ d.class # "vendor" \/ d.speed = "fs" => AsDescribed(d.eps, conf)
                             /\ d.class \notin {"hid", "printer"} => Apart(d.eps)
      BY DEF EndpointsInStep
    <3> DEFINE b == [class |-> d.class, user |-> d.user, bus |-> d.bus]
    <3>2. b \in Builds BY DEF Core, Typed, DriverTyped
    <3>3. Fits(b) BY <3>2 DEF AllFit
    <3>4. b.class = d.class /\ b.user = d.user /\ b.bus = d.bus OBVIOUS
    <3> HIDE DEF b
    <3> QED BY <2>6, <3>1, <3>3, <3>4 DEF Fits
  <2> QED BY <2>2, <2>3, <2>5, <2>6, <2>7, <2>8 DEF StateInStep
<1> QED BY <1>1, <1>2

---------------------------------------------------------------------------
(* What the host may rely on.                                               *)

\* Whatever requests a host makes in the form of chapter 9, whatever it gives up and whenever
\* the bus is reset, suspended or unplugged, what mss_usbd_cep_setup_cb, cep_tx_complete_cb
\* and cep_rx_cb (mss_usb_device.c) hold of a transfer is a stage of the transfer the host
\* is in; and once the pending events are served (mss_usb_common_cif.c), the device is in
\* the state that the host has put it in.  For every build, packet size and set of requests.
THEOREM CoreHolds ==
  ASSUME Regular, Overlap = {}
  PROVE  Spec => []Core
<1>1. Init => Core BY InitHolds
<1>2. Core /\ [Next]_vars => Core' BY NextKeeps
<1> QED BY <1>1, <1>2, PTL DEF Spec

\* A transfer that the host sees end well carried the data it asked for, as much of it, over
\* any number of packets; and the class was handed every byte of an OUT data stage.  The
\* counts that mss_usbd_cep_tx_complete_cb and mss_usbd_cep_rx_cb keep in txn_length,
\* xfr_count and xfr_length neither lose nor repeat a packet, whatever came before.  (An OUT
\* data stage of more than two packets is cut short, mss_usb_device.c:1097: it does not end
\* well.)
THEOREM AnswerIsRightHolds ==
  ASSUME Regular, Overlap = {}
  PROVE  Spec => []AnswerIsRight
<1>1. Core => AnswerIsRight BY AnswerFollowsCore
<1> QED BY <1>1, CoreHolds, PTL

\* Between transfers, with every interrupt served, endpoint 0 waits for a SETUP packet in
\* g_setup_pkt at the address the host uses: no path through a stall, an early status stage,
\* a new SETUP or a reset leaves mss_usbd_cep_rx_prepare out, or the address behind.
THEOREM ReadyForSetupHolds ==
  ASSUME Regular, Overlap = {}
  PROVE  Spec => []ReadyForSetup
<1>1. Core => ReadyForSetup BY ReadyFollowsCore
<1> QED BY <1>1, CoreHolds, PTL

\* device_state, the configuration, the class, its endpoints and its halts are those of the
\* host, over any sequence of requests, resets, suspends, resumes and unplugs, for every
\* build whose endpoints fit its descriptors.
THEOREM StateInStepHolds ==
  ASSUME Regular, Overlap = {}, AllFit
  PROVE  Spec => []StateInStep
<1>1. Init => Core /\ ConfigInv BY InitHolds
<1>2. Core /\ ConfigInv /\ [Next]_vars => Core' /\ ConfigInv' BY NextKeeps
<1>3. Core /\ ConfigInv => StateInStep BY StateFollowsCore
<1> QED BY <1>1, <1>2, <1>3, PTL DEF Spec
===========================================================================
