-------------------------- MODULE UsbHostMscProofs --------------------------
(***************************************************************************)
(* The host stack and its mass storage class, for every set of devices, any  *)
(* number of them plugged in and out, and every length of the waits: the     *)
(* class asks a device only for what it has to send, and refuses no disk.    *)
(*                                                                          *)
(* First the inductive invariant; then, for each action, a lemma that it     *)
(* keeps it, with a step for each part.                                      *)
(***************************************************************************)
EXTENDS UsbHostMsc, TLAPS

---------------------------------------------------------------------------
(* The types.                                                               *)

Punctual == Env \subseteq {"nak"}

Devs == AllKinds \union {"none"}
HostStates ==
  {"IDLE", "DETECTED", "RESETING", "ENUMERATING", "ALLOCATE_CLASSD", "SERVICING", "ERROR"}
Asking == {"GET_DEF_DEV_DESC", "SET_TDEV_ADDR", "GET_FUL_DEV_DESC", "GET_DEF_CONFG_DESC",
           "GET_FUL_CONFG_DESC", "PET_SET_CONFIG"}
Waits == {"WAIT_GET_DEF_DEV_DESC", "WAIT_SET_TDEV_ADDR", "WAIT_GET_FUL_DEV_DESC",
          "WAIT_GET_DEF_CONFG_DESC", "WAIT_GET_FUL_CONFG_DESC", "PET_WAIT_SET_CONFIG"}
EnumStates == {"IDLE", "RESET_TDEV", "CLR_RESET_TDEV", "CHECK_CLASS", "SUCCESS", "ERROR"}
              \union Asking \union Waits
InTransfer == {"SETUP", "RX", "STATUS_AFTER_IN", "STATUS_AFTER_OUT"}
Events == {"none", "ok"} \union Errors

EvTyped ==
  /\ DOMAIN ev = {"connect", "discon", "cep"}
  /\ ev.connect \in BOOLEAN /\ ev.discon \in BOOLEAN /\ ev.cep \in Events
TdevTyped ==
  /\ DOMAIN tdev = {"addr", "speed", "state", "owned", "alloc", "desc", "num", "told"}
  /\ tdev.addr \in {0, 1} /\ tdev.speed \in {"FS", "HS"}
  /\ tdev.owned \in BOOLEAN /\ tdev.alloc \in BOOLEAN
  /\ DOMAIN tdev.desc = {"dev", "conf"}
  /\ tdev.num \in Nat /\ tdev.told \in Nat
CepTyped ==
  /\ DOMAIN cep = {"state", "req", "data", "result", "addr", "token", "fifo"}
  /\ cep.state \in {"IDLE"} \union InTransfer \union Errors
  /\ cep.data \in BOOLEAN /\ cep.result \in Events /\ cep.addr \in {0, 1}
  /\ cep.token \in {"none", "setup", "in", "status"}
DevTyped ==
  /\ DOMAIN dev = {"kind", "addr", "plugs", "ready", "nak"}
  /\ dev.kind \in Devs /\ dev.addr \in {0, 1, NoAddr} /\ dev.plugs \in Nat
  /\ dev.ready \in BOOLEAN /\ dev.nak \in BOOLEAN
BusTyped ==
  /\ DOMAIN bus = {"reset", "suspended"}
  /\ bus.reset \in BOOLEAN /\ bus.suspended \in BOOLEAN
WaitTyped == /\ DOMAIN wait = Waiters
             /\ wait["host"] \in Nat /\ wait["enum"] \in Nat
             /\ wait["settle"] \in Nat /\ wait["retry"] \in Nat
MscTyped ==
  /\ DOMAIN msc = {"state", "cmd", "phase", "bot", "st", "addr", "conf", "alloc", "cep_event",
                   "tx_event", "rx_event", "csw", "cap", "retrying", "out", "in", "target"}
  /\ msc.state \in MscStates /\ msc.cmd \in Cmds /\ msc.phase \in {"C", "D", "S", "W"}
  /\ msc.bot \in {"IDLE", "COMMAND", "DATA", "STATUS"} /\ msc.st \in BOOLEAN
  /\ msc.addr \in {0, 1} /\ msc.alloc \in BOOLEAN /\ msc.cep_event \in Events
  /\ msc.tx_event \in BOOLEAN /\ msc.rx_event \in BOOLEAN /\ msc.retrying \in BOOLEAN
  /\ msc.out \in {"off", "idle", "cbw", "data"} /\ msc.in \in {"off", "idle", "data", "csw"}
  /\ msc.target \in {"cbw", "csw", "data_in", "data_out"}

Typed ==
  /\ at \in {"cep", "enum", "host", "msc", "rest"}
  /\ host \in HostStates /\ enum \in EnumStates
  /\ EvTyped /\ TdevTyped /\ CepTyped /\ DevTyped /\ BusTyped /\ WaitTyped /\ MscTyped

---------------------------------------------------------------------------
(* The inductive invariant, checked by TLC on the instance of the run.      *)

Busy == cep.state \in InTransfer     \* a control transfer is under way
Here == dev.kind # "none"            \* a device is plugged in
Present == Here /\ dev.addr # NoAddr \* and has been reset, so that it answers

\* The states of the class with its bulk pipes open.
Piping == {"SCSI", "DEVICE_READY", "BOT_RETRY", "ERROR"}

\* Who is told of the end of the transfer still waits for it.
Asked == IF tdev.owned THEN msc.state \in ControlWaits /\ msc.cep_event = "none"
         ELSE enum \in Waits /\ cep.result = "none"

\* A transfer under way has a transaction on the bus or the event of its end, never both,
\* and somebody who asked for it; only a disconnection leaves an event behind, and the
\* next run of the control pipe's state machine takes it.
PipeInv ==
  /\ Busy => ((cep.token = "none") <=> (ev.cep # "none")) /\ Asked
  /\ cep.state \in Errors /\ tdev.owned => Asked
  /\ cep.state \in Errors /\ ~tdev.owned => cep.result # "ok" /\ enum # "CHECK_CLASS"
  /\ ~Busy => cep.token = "none"
  /\ ~Busy /\ ev.cep # "none" =>
       host \in {"IDLE", "DETECTED"} /\ msc.state = "IDLE" /\ at \in {"msc", "rest", "cep"}
  /\ cep.state = "SETUP" => cep.token \in {"setup", "none"}
  /\ cep.state = "RX" => cep.token \in {"in", "none"} /\ cep.data
  /\ cep.state = "STATUS_AFTER_IN" => cep.token \in {"status", "none"} /\ cep.data
  /\ cep.state = "STATUS_AFTER_OUT" => cep.token \in {"status", "none"} /\ ~cep.data

\* The reset that waiter w times has not been ended: its tick has not come, or the state
\* machine that looks for it has not run in that tick.
Held(w, before) == wait[w] < Short \/ (wait[w] = Short /\ at \in before)

\* The state machines agree on whose the device is; the bus is in reset only while the
\* state machine that will end the reset can still see its tick, and suspended only
\* while nothing is timed.
HostInv ==
  /\ host # "ENUMERATING" => enum = "IDLE"
  /\ tdev.alloc = tdev.owned
  /\ tdev.owned <=> host \in {"ALLOCATE_CLASSD", "SERVICING"} \/ enum = "SUCCESS"
  /\ msc.state # "IDLE" => host = "SERVICING"
  /\ host = "SERVICING" /\ msc.state = "IDLE" => msc.alloc
  /\ msc.alloc => at = "msc" /\ host = "SERVICING" /\ msc.state = "IDLE"
  /\ msc.state \notin Piping => msc.out = "off" /\ msc.in = "off"
  /\ msc.state = "SCSI" =>
       msc.cmd \in {"TEST_UNIT_READY", "INQUIRY", "REQSENSE", "READ_CAPACITY"}
  /\ msc.st => msc.state \in {"DEVICE_READY", "BOT_RETRY"}
  /\ bus.reset => \/ host \in {"IDLE", "DETECTED"}
                  \/ host = "RESETING" /\ Held("host", {"cep", "enum", "host"})
                  \/ enum = "CLR_RESET_TDEV" /\ Held("enum", {"cep", "enum"})
  /\ bus.suspended => ~ev.connect /\ (host = "SERVICING" \/ (host = "IDLE" /\ ~Here))

\* Devices come and go: what the host has been told of them, what the last one has left
\* in the class, and that the device of which the user was told is not a later one.
PlugInv ==
  /\ ev.discon => ~Here
  /\ ~Here /\ ~ev.discon => ~ev.connect
  /\ tdev.num <= dev.plugs /\ tdev.told <= dev.plugs
  /\ Here /\ dev.addr = NoAddr =>
       /\ ev.connect \/ host = "DETECTED"
       /\ host \in {"RESETING", "ENUMERATING", "ERROR"} => tdev.num < dev.plugs
       /\ tdev.told < dev.plugs
  /\ dev.plugs = 0 => ~Here /\ ~ev.discon
  /\ dev.plugs = 0 \/ (dev.plugs = 1 /\ Here /\ msc.state \notin Piping) => ~msc.tx_event
  /\ msc.cep_event # "none" => msc.state \in ControlWaits \/ (~Here /\ ~ev.discon)
  /\ Here /\ msc.state # "SCSI" => ~msc.rx_event
  /\ ~Here \/ msc.state = "IDLE" => msc.target = "cbw"

\* As long as nothing answers, the enumeration that may be under way gets no further than
\* its first transaction.
UnansweredInv ==
  ~Present /\ ~ev.discon =>
    /\ host \notin {"ALLOCATE_CLASSD", "SERVICING"}
    /\ enum \in {"IDLE", "GET_DEF_DEV_DESC", "WAIT_GET_DEF_DEV_DESC", "ERROR"}
    /\ cep.state \in {"IDLE", "SETUP"} \union Errors
    /\ Busy => ev.cep # "ok"
    /\ enum = "WAIT_GET_DEF_DEV_DESC" => cep.result # "ok"

\* The address the host uses is the device's, from before SET_ADDRESS to after it.
Unaddressed == {"IDLE", "GET_DEF_DEV_DESC", "WAIT_GET_DEF_DEV_DESC", "RESET_TDEV",
                "CLR_RESET_TDEV", "SET_TDEV_ADDR"}
AddressInv ==
  /\ enum \in Unaddressed => dev.addr = 0 /\ cep.addr = 0
  /\ enum = "WAIT_SET_TDEV_ADDR" =>
       /\ cep.addr = 0
       /\ dev.addr = IF cep.result = "ok" \/ (cep.state = "STATUS_AFTER_OUT" /\ ev.cep = "ok")
                     THEN 1 ELSE 0
  /\ enum \notin Unaddressed \union {"WAIT_SET_TDEV_ADDR", "ERROR"} =>
       dev.addr = 1 /\ cep.addr = 1 /\ tdev.addr = 1

\* The request whose end a state of the enumeration, or of the class, awaits; and its data
\* has been read.
EnumReq ==
  [WAIT_GET_DEF_DEV_DESC |-> "GetDef", WAIT_SET_TDEV_ADDR |-> "SetAddr",
   WAIT_GET_FUL_DEV_DESC |-> "GetFul", WAIT_GET_DEF_CONFG_DESC |-> "GetConf",
   WAIT_GET_FUL_CONFG_DESC |-> "GetFulConf", PET_WAIT_SET_CONFIG |-> "SetConf"]
ClassReq == [WAIT_GET_CLASS_DESCR |-> "GetClass", WAIT_SET_CONFIG |-> "SetConf",
             WAIT_GET_MAX_LUN |-> "GetMaxLun", WAIT_CLR_CEP_STALL |-> "ClrStall"]
DataRead == cep.state = "STATUS_AFTER_IN" \/ (~Busy /\ cep.result = "ok")

FifoInv == Present /\ cep.state = "RX" /\ ev.cep = "ok" => cep.fifo = dev.kind

\* A device that answers is enumerated without an error of the pipe, and a disk without
\* any: the descriptors that are looked at are its own.
EnumInv ==
  Present /\ host = "ENUMERATING" =>
    /\ cep.state \notin Errors /\ ev.cep \in {"none", "ok"}
    /\ AddressInv
    /\ enum \in Waits =>
         /\ cep.result \in {"none", "ok"} /\ (~Busy => cep.result = "ok")
         /\ cep.req = EnumReq[enum]
         /\ cep.data <=> enum \notin {"WAIT_SET_TDEV_ADDR", "PET_WAIT_SET_CONFIG"}
    /\ enum \in {"WAIT_GET_DEF_DEV_DESC", "WAIT_GET_FUL_DEV_DESC"} /\ DataRead =>
         tdev.desc.dev = dev.kind
    /\ dev.kind = "disk" =>
         /\ enum \notin {"ERROR", "PET_SET_CONFIG", "PET_WAIT_SET_CONFIG"}
         /\ tdev.speed = "HS"
         /\ enum \notin {"IDLE", "GET_DEF_DEV_DESC", "WAIT_GET_DEF_DEV_DESC"} =>
              tdev.desc.dev = "disk"
         /\ enum \in {"GET_FUL_CONFG_DESC", "CHECK_CLASS"} => tdev.desc.conf = "disk"
         /\ enum \in {"WAIT_GET_DEF_CONFG_DESC", "WAIT_GET_FUL_CONFG_DESC"} /\ DataRead =>
              tdev.desc.conf = "disk"

\* The control transfers of the class reach its device; only GET_MAX_LUN may be refused,
\* and what follows it by a bad device; the endpoints are those of the device.
ControlInv ==
  Present /\ host \in {"ALLOCATE_CLASSD", "SERVICING"} =>
    /\ dev.addr = 1 /\ tdev.addr = 1 /\ cep.addr = 1 /\ ~bus.reset
    /\ host = "SERVICING" => msc.addr = 1
    /\ tdev.state = "ADDRESS"
    /\ cep.state \notin {"no_response", "nak_tout"}
    /\ ev.cep \in {"none", "ok", "stall_rcvd"} /\ msc.cep_event \in {"none", "ok", "stall_rcvd"}
    /\ msc.state \in ControlWaits =>
         /\ cep.req = ClassReq[msc.state]
         /\ cep.data <=> msc.state \in {"WAIT_GET_CLASS_DESCR", "WAIT_GET_MAX_LUN"}
         /\ msc.cep_event = "none" <=> cep.state # "IDLE"
    /\ cep.state # "IDLE" => msc.state \in ControlWaits
    /\ "stall_rcvd" \in {cep.state, ev.cep, msc.cep_event} =>
         \/ msc.state = "WAIT_GET_MAX_LUN"
         \/ msc.state = "WAIT_CLR_CEP_STALL" /\ dev.kind = "odd"
    /\ msc.state = "WAIT_GET_CLASS_DESCR"
         /\ (cep.state = "STATUS_AFTER_IN" \/ msc.cep_event # "none") => msc.conf = dev.kind
    /\ msc.state \notin {"IDLE", "GET_CLASS_DESCR", "WAIT_GET_CLASS_DESCR"} =>
         msc.conf = dev.kind
    /\ dev.kind = "disk" => msc.state # "ERROR"

\* A SCSI command of the set-up is where its phase says.  With an event that the last
\* device has left, the host may ask before its command is out; the device, which has
\* not got the command, then keeps it waiting.
CapRead == msc.cmd = "READ_CAPACITY" => msc.cap = IF dev.kind = "odd" THEN 2048 ELSE 512
ScsiInv ==
  Present /\ msc.state = "SCSI" =>
    /\ msc.out \in {"cbw", "idle"}
    /\ msc.out = "cbw" => msc.target = "cbw"
    /\ msc.phase = "C" =>
         msc.out = "idle" /\ msc.in = "idle" /\ msc.target = "cbw" /\ ~msc.rx_event
    /\ msc.phase = "D" =>
         /\ HasData(msc.cmd) /\ msc.in = "idle" /\ ~msc.rx_event
         /\ msc.out = "idle" => msc.target = "data_in" /\ msc.tx_event
    /\ msc.phase = "S" /\ ~HasData(msc.cmd) =>
         /\ msc.in = "idle" /\ ~msc.rx_event
         /\ msc.out = "idle" => msc.target = "csw" /\ msc.tx_event
    /\ msc.phase = "S" /\ HasData(msc.cmd) =>
         IF msc.rx_event
         THEN msc.in = "idle" /\ msc.out = "idle" /\ msc.target = "csw" /\ CapRead
         ELSE msc.in = "data" /\ (msc.out = "idle" => msc.target = "data_in")
    /\ msc.phase = "W" =>
         /\ IF msc.rx_event THEN msc.in = "idle" /\ msc.out = "idle" /\ msc.target = "cbw"
            ELSE msc.in = "csw" /\ (msc.out = "idle" => msc.target = "csw")
         /\ HasData(msc.cmd) => msc.out = "idle"
         /\ CapRead
    /\ dev.plugs = 1 =>
         /\ msc.phase = "C" => ~msc.tx_event
         /\ msc.phase = "W" \/ (msc.phase = "S" /\ HasData(msc.cmd)) =>
              (msc.tx_event => msc.cmd = "READ_CAPACITY")
         /\ msc.out = "cbw" =>
              ~msc.tx_event /\ (msc.phase = "D" \/ (msc.phase = "S" /\ ~HasData(msc.cmd)))

\* A request of the application's is on the pipe that its stage says, and on no other.
RequestInv ==
  Present /\ msc.state \in {"DEVICE_READY", "BOT_RETRY"} =>
    /\ ~msc.st => /\ msc.state = "DEVICE_READY"
                  /\ msc.out = "idle" /\ msc.in = "idle" /\ msc.target = "cbw"
    /\ msc.st => msc.cmd \in {"READ_10", "WRITE_10"} /\ msc.bot # "IDLE"
    /\ msc.st /\ msc.state = "BOT_RETRY" =>
         msc.out = "idle" /\ msc.in = "idle" /\ (msc.bot = "STATUS" => msc.target = "csw")
    /\ msc.st /\ msc.state = "DEVICE_READY" =>
         /\ msc.bot = "COMMAND" => msc.out = "cbw" /\ msc.in = "idle" /\ msc.target = "cbw"
         /\ msc.bot = "DATA" /\ WritesData(msc.cmd) =>
              msc.out = "data" /\ msc.in = "idle" /\ msc.target = "data_out"
         /\ msc.bot = "DATA" /\ ~WritesData(msc.cmd) =>
              msc.out = "idle" /\ msc.in = "data" /\ msc.target = "data_in"
         /\ msc.bot = "STATUS" => msc.out = "idle" /\ msc.in = "csw" /\ msc.target = "csw"

\* Besides: a disk that has been reset is on its way to be served.
ServedInv ==
  Present =>
    /\ host = "RESETING" => dev.addr = 0
    /\ msc.state = "ERROR" => msc.out \in {"off", "idle"} /\ msc.in \in {"off", "idle"}
    /\ msc.state \notin Piping => msc.target = "cbw"
    /\ dev.kind = "disk" => tdev.told < dev.plugs /\ host \notin {"IDLE", "DETECTED", "ERROR"}

IInv == /\ Typed /\ PipeInv /\ HostInv /\ PlugInv /\ UnansweredInv /\ FifoInv
        /\ EnumInv /\ ControlInv /\ ScsiInv /\ RequestInv /\ ServedInv

---------------------------------------------------------------------------
(* The vocabulary of the invariant is expanded in every step.               *)

USE UsbHostAssumption
USE DEF Devs, HostStates, Asking, Waits, EnumStates, InTransfer, Events, Errors, MscStates,
        ControlWaits, Cmds, Piping, Busy, Here, Present, Asked, Held, DataRead, CapRead,
        HasData, WritesData, NoAddr, Waiters, Unaddressed, AddressInv, EnumReq, ClassReq,
        Ready, AllKinds

\* The pipe for each direction has the endpoint of its direction
\* (MSS_USBH_MSC_extract_tdev_ep_desc).
LEMMA OwnEndpoints ==
  ASSUME msc.conf \in Devs \ {"none"}, NEW dir \in {"in", "out"}
  PROVE  BulkEps(msc.conf)[TdevEps[dir]] = dir
<1>1. CASE msc.conf = "odd"
  <2>1. BulkEps(msc.conf) = <<"out", "in">> BY <1>1 DEF BulkEps
  <2>2. TdevEps = [in |-> 2, out |-> 1] BY <2>1 DEF TdevEps
  <2> QED BY <2>1, <2>2
<1>2. CASE msc.conf # "odd"
  <2>1. BulkEps(msc.conf) = <<"in", "out">> BY <1>2 DEF BulkEps
  <2>2. TdevEps = [in |-> 1, out |-> 2] BY <2>1 DEF TdevEps
  <2> QED BY <2>1, <2>2
<1> QED BY <1>1, <1>2

\* A transfer of a bulk pipe fails with no response only where there is no device, and
\* times out only for a request of the application's.
LEMMA EndsOfPresent ==
  ASSUME IInv, NEW dir \in {"in", "out"}, NEW e \in Ends(dir), msc.state \in Piping
  PROVE  /\ e \in {"ok", "no_response", "nak_tout"}
         /\ e = "nak_tout" => Ready
         /\ e = "no_response" <=> ~Present
<1>1. Present => Answers(msc.addr) /\ msc.conf = dev.kind
  BY DEF IInv, Typed, DevTyped, HostInv, ControlInv, Answers
<1>2. Present => ~(BulkEps(dev.kind)[TdevEps[dir]] # dir)
  BY <1>1, OwnEndpoints DEF IInv, Typed, DevTyped
<1>3. ~Present => ~Answers(msc.addr)
  BY DEF IInv, Typed, MscTyped, DevTyped, Answers
<1> QED BY <1>1, <1>2, <1>3 DEF Ends

\* Each request of the enumeration's says whether it has data.
LEMMA AsksData == ASSUME NEW s \in Asking PROVE Asks[s].data \in BOOLEAN
<1>1. CASE s = "SET_TDEV_ADDR" BY <1>1 DEF Asks, Sets
<1>2. CASE s = "PET_SET_CONFIG" BY <1>2 DEF Asks, Sets
<1>3. CASE s = "GET_DEF_DEV_DESC" BY <1>3 DEF Asks, GetDescr
<1>4. CASE s = "GET_FUL_DEV_DESC" BY <1>4 DEF Asks, GetDescr
<1>5. CASE s = "GET_DEF_CONFG_DESC" BY <1>5 DEF Asks, GetDescr
<1>6. CASE s = "GET_FUL_CONFG_DESC" BY <1>6 DEF Asks, GetDescr
<1> QED BY <1>1, <1>2, <1>3, <1>4, <1>5, <1>6

\* The control pipe with a request of the enumeration's.
LEMMA AsksTyped ==
  ASSUME EnumAsk, Typed
  PROVE  CepTyped'
<1>1. enum \in Asking BY DEF EnumAsk, Asks
<1>2. Asks[enum].data \in BOOLEAN BY <1>1, AsksData
<1>3. CASE enum = "SET_TDEV_ADDR"
  <2>1. cep' = [[[cep EXCEPT !.state = "IDLE", !.addr = 0] EXCEPT !.token = "none"]
                 EXCEPT !.state = "SETUP", !.req = Asks[enum].req, !.data = Asks[enum].data,
                        !.result = "none", !.token = "setup"]
    BY <1>3, Zenon DEF EnumAsk, Start, Configured, CepConfigured
  <2> QED BY <1>2, <2>1 DEF Typed, CepTyped
<1>4. CASE enum # "SET_TDEV_ADDR"
  <2>1. cep' = [cep EXCEPT !.state = "SETUP", !.req = Asks[enum].req,
                           !.data = Asks[enum].data, !.result = "none", !.token = "setup"]
    BY <1>4, Zenon DEF EnumAsk, Start
  <2> QED BY <1>2, <2>1 DEF Typed, CepTyped
<1> QED BY <1>3, <1>4

---------------------------------------------------------------------------

(* The control pipe and the enumeration.                                    *)

\* A run of the control pipe's state machine, by the state and the event that it finds.
LEMMA ControlXfrFsmStep ==
  ASSUME IInv, Punctual, ControlXfrFsm
  PROVE  IInv'
<1>1. CASE cep.state = "IDLE" \/ (cep.state = "SETUP" /\ ev.cep = "none")
  <2>1. /\ at = "cep"
        /\ at' = "enum"
        /\ ev' = [ev EXCEPT !.cep = "none"]
        /\ UNCHANGED <<host, enum, dev, bus, wait>>
        /\ UNCHANGED <<cep, tdev, msc>>
    BY <1>1 DEF ControlXfrFsm, Expected
  <2>2. Typed'
    BY <1>1, <2>1 DEF IInv, Typed, EvTyped, TdevTyped, CepTyped, DevTyped, BusTyped, WaitTyped,
       MscTyped
  <2>3. PipeInv' /\ HostInv' /\ PlugInv' /\ UnansweredInv' /\ FifoInv' /\ EnumInv' /\ ControlInv'
        /\ ScsiInv' /\ RequestInv' /\ ServedInv'
    BY <1>1, <2>1 DEF IInv, PipeInv, HostInv, PlugInv, UnansweredInv, FifoInv, EnumInv,
       ControlInv, ScsiInv, RequestInv, ServedInv
  <2> QED BY <2>2, <2>3 DEF IInv
<1>2. CASE cep.state = "SETUP" /\ ev.cep = "ok" /\ cep.data = TRUE
  <2>1. /\ at = "cep"
        /\ at' = "enum"
        /\ ev' = [ev EXCEPT !.cep = "none"]
        /\ UNCHANGED <<host, enum, dev, bus, wait>>
        /\ cep' = [cep EXCEPT !.state = "RX", !.token = "in"]
        /\ UNCHANGED <<tdev, msc>>
    BY <1>2 DEF ControlXfrFsm, Expected
  <2>2. Typed'
    BY <1>2, <2>1 DEF IInv, Typed, EvTyped, TdevTyped, CepTyped, DevTyped, BusTyped, WaitTyped,
       MscTyped
  <2>3. HostInv' BY <1>2, <2>1 DEF IInv, PipeInv, HostInv
  <2>4. PipeInv' /\ PlugInv' /\ UnansweredInv' /\ FifoInv' /\ EnumInv' /\ ControlInv' /\ ScsiInv'
        /\ RequestInv' /\ ServedInv'
    BY <1>2, <2>1 DEF IInv, PipeInv, PlugInv, UnansweredInv, FifoInv, EnumInv, ControlInv,
       ScsiInv, RequestInv, ServedInv
  <2> QED BY <2>2, <2>3, <2>4 DEF IInv
<1>3. CASE cep.state = "SETUP" /\ ev.cep = "ok" /\ cep.data = FALSE
  <2>1. /\ at = "cep"
        /\ at' = "enum"
        /\ ev' = [ev EXCEPT !.cep = "none"]
        /\ UNCHANGED <<host, enum, dev, bus, wait>>
        /\ cep' = [cep EXCEPT !.state = "STATUS_AFTER_OUT", !.token = "status"]
        /\ UNCHANGED <<tdev, msc>>
    BY <1>3 DEF ControlXfrFsm, Expected
  <2>2. Typed'
    BY <1>3, <2>1 DEF IInv, Typed, EvTyped, TdevTyped, CepTyped, DevTyped, BusTyped, WaitTyped,
       MscTyped
  <2>3. HostInv' BY <1>3, <2>1 DEF IInv, PipeInv, HostInv
  <2>4. PipeInv' /\ PlugInv' /\ UnansweredInv' /\ FifoInv' /\ EnumInv' /\ ControlInv' /\ ScsiInv'
        /\ RequestInv' /\ ServedInv'
    BY <1>3, <2>1 DEF IInv, PipeInv, PlugInv, UnansweredInv, FifoInv, EnumInv, ControlInv,
       ScsiInv, RequestInv, ServedInv
  <2> QED BY <2>2, <2>3, <2>4 DEF IInv
<1>4. CASE cep.state = "RX" /\ ev.cep = "ok" /\ cep.req \in {"GetDef", "GetFul"}
  <2>1. /\ at = "cep"
        /\ at' = "enum"
        /\ ev' = [ev EXCEPT !.cep = "none"]
        /\ UNCHANGED <<host, enum, dev, bus, wait>>
        /\ cep' = [cep EXCEPT !.state = "STATUS_AFTER_IN", !.token = "status"]
        /\ tdev' = [tdev EXCEPT !.desc.dev = cep.fifo]
        /\ msc' = msc
    BY <1>4 DEF ControlXfrFsm, Expected, ReadPkt
  <2>2. Typed'
    BY <1>4, <2>1 DEF IInv, Typed, EvTyped, TdevTyped, CepTyped, DevTyped, BusTyped, WaitTyped,
       MscTyped
  <2>3. HostInv' BY <1>4, <2>1 DEF IInv, PipeInv, HostInv
  <2>4. EnumInv' BY <1>4, <2>1 DEF IInv, Typed, TdevTyped, FifoInv, EnumInv
  <2>5. PipeInv' /\ PlugInv' /\ UnansweredInv' /\ FifoInv' /\ ControlInv' /\ ScsiInv' /\
        RequestInv' /\ ServedInv'
    BY <1>4, <2>1 DEF IInv, PipeInv, PlugInv, UnansweredInv, FifoInv, ControlInv, ScsiInv,
       RequestInv, ServedInv
  <2> QED BY <2>2, <2>3, <2>4, <2>5 DEF IInv
<1>5. CASE cep.state = "RX" /\ ev.cep = "ok" /\ cep.req \in {"GetConf", "GetFulConf"}
  <2>1. /\ at = "cep"
        /\ at' = "enum"
        /\ ev' = [ev EXCEPT !.cep = "none"]
        /\ UNCHANGED <<host, enum, dev, bus, wait>>
        /\ cep' = [cep EXCEPT !.state = "STATUS_AFTER_IN", !.token = "status"]
        /\ tdev' = [tdev EXCEPT !.desc.conf = cep.fifo]
        /\ msc' = msc
    BY <1>5 DEF ControlXfrFsm, Expected, ReadPkt
  <2>2. Typed'
    BY <1>5, <2>1 DEF IInv, Typed, EvTyped, TdevTyped, CepTyped, DevTyped, BusTyped, WaitTyped,
       MscTyped
  <2>3. HostInv' BY <1>5, <2>1 DEF IInv, PipeInv, HostInv
  <2>4. EnumInv' BY <1>5, <2>1 DEF IInv, Typed, TdevTyped, FifoInv, EnumInv
  <2>5. PipeInv' /\ PlugInv' /\ UnansweredInv' /\ FifoInv' /\ ControlInv' /\ ScsiInv' /\
        RequestInv' /\ ServedInv'
    BY <1>5, <2>1 DEF IInv, PipeInv, PlugInv, UnansweredInv, FifoInv, ControlInv, ScsiInv,
       RequestInv, ServedInv
  <2> QED BY <2>2, <2>3, <2>4, <2>5 DEF IInv
<1>6. CASE cep.state = "RX" /\ ev.cep = "ok" /\ cep.req = "GetClass"
  <2>1. /\ at = "cep"
        /\ at' = "enum"
        /\ ev' = [ev EXCEPT !.cep = "none"]
        /\ UNCHANGED <<host, enum, dev, bus, wait>>
        /\ cep' = [cep EXCEPT !.state = "STATUS_AFTER_IN", !.token = "status"]
        /\ tdev' = tdev
        /\ msc' = [msc EXCEPT !.conf = cep.fifo]
    BY <1>6 DEF ControlXfrFsm, Expected, ReadPkt
  <2>2. Typed'
    BY <1>6, <2>1 DEF IInv, Typed, EvTyped, TdevTyped, CepTyped, DevTyped, BusTyped, WaitTyped,
       MscTyped
  <2>3. HostInv' BY <1>6, <2>1 DEF IInv, PipeInv, HostInv
  <2>4. ControlInv' BY <1>6, <2>1 DEF IInv, FifoInv, ControlInv
  <2>5. PipeInv' /\ PlugInv' /\ UnansweredInv' /\ FifoInv' /\ EnumInv' /\ ScsiInv' /\ RequestInv'
        /\ ServedInv'
    BY <1>6, <2>1 DEF IInv, PipeInv, PlugInv, UnansweredInv, FifoInv, EnumInv, ScsiInv,
       RequestInv, ServedInv
  <2> QED BY <2>2, <2>3, <2>4, <2>5 DEF IInv
<1>7. CASE cep.state = "RX" /\ ev.cep = "ok" /\ cep.req \notin {"GetDef", "GetFul", "GetConf",
     "GetFulConf", "GetClass"}
  <2>1. /\ at = "cep"
        /\ at' = "enum"
        /\ ev' = [ev EXCEPT !.cep = "none"]
        /\ UNCHANGED <<host, enum, dev, bus, wait>>
        /\ cep' = [cep EXCEPT !.state = "STATUS_AFTER_IN", !.token = "status"]
        /\ tdev' = tdev
        /\ msc' = msc
    BY <1>7 DEF ControlXfrFsm, Expected, ReadPkt
  <2>2. Typed'
    BY <1>7, <2>1 DEF IInv, Typed, EvTyped, TdevTyped, CepTyped, DevTyped, BusTyped, WaitTyped,
       MscTyped
  <2>3. HostInv' BY <1>7, <2>1 DEF IInv, PipeInv, HostInv
  <2>4. PipeInv' /\ PlugInv' /\ UnansweredInv' /\ FifoInv' /\ EnumInv' /\ ControlInv' /\ ScsiInv'
        /\ RequestInv' /\ ServedInv'
    BY <1>7, <2>1 DEF IInv, PipeInv, PlugInv, UnansweredInv, FifoInv, EnumInv, ControlInv,
       ScsiInv, RequestInv, ServedInv
  <2> QED BY <2>2, <2>3, <2>4 DEF IInv
<1>8. CASE cep.state \in {"STATUS_AFTER_IN", "STATUS_AFTER_OUT"} /\ ev.cep = "ok" /\ tdev.owned =
     TRUE
  <2>1. /\ at = "cep"
        /\ at' = "enum"
        /\ ev' = [ev EXCEPT !.cep = "none"]
        /\ UNCHANGED <<host, enum, dev, bus, wait>>
        /\ cep' = [cep EXCEPT !.state = "IDLE"]
        /\ tdev' = tdev
        /\ msc' = [msc EXCEPT !.cep_event = "ok"]
    BY <1>8 DEF ControlXfrFsm, Expected, Told, CepDoneCb
  <2>2. Typed'
    BY <1>8, <2>1 DEF IInv, Typed, EvTyped, TdevTyped, CepTyped, DevTyped, BusTyped, WaitTyped,
       MscTyped
  <2>3. HostInv' BY <1>8, <2>1 DEF IInv, PipeInv, HostInv
  <2>4. PlugInv' BY <1>8, <2>1 DEF IInv, PipeInv, PlugInv
  <2>5. EnumInv' BY <1>8, <2>1 DEF IInv, HostInv, EnumInv
  <2>6. ControlInv' BY <1>8, <2>1 DEF IInv, PipeInv, ControlInv
  <2>7. PipeInv' /\ UnansweredInv' /\ FifoInv' /\ ScsiInv' /\ RequestInv' /\ ServedInv'
    BY <1>8, <2>1 DEF IInv, PipeInv, UnansweredInv, FifoInv, ScsiInv, RequestInv, ServedInv
  <2> QED BY <2>2, <2>3, <2>4, <2>5, <2>6, <2>7 DEF IInv
<1>9. CASE cep.state \in {"STATUS_AFTER_IN", "STATUS_AFTER_OUT"} /\ ev.cep = "ok" /\ tdev.owned =
     FALSE
  <2>1. /\ at = "cep"
        /\ at' = "enum"
        /\ ev' = [ev EXCEPT !.cep = "none"]
        /\ UNCHANGED <<host, enum, dev, bus, wait>>
        /\ cep' = [cep EXCEPT !.state = "IDLE", !.result = "ok"]
        /\ tdev' = tdev
        /\ msc' = msc
    BY <1>9 DEF ControlXfrFsm, Expected, Told, CepDoneCb
  <2>2. Typed'
    BY <1>9, <2>1 DEF IInv, Typed, EvTyped, TdevTyped, CepTyped, DevTyped, BusTyped, WaitTyped,
       MscTyped
  <2>3. EnumInv' BY <1>9, <2>1 DEF IInv, PipeInv, EnumInv
  <2>4. ControlInv' BY <1>9, <2>1 DEF IInv, HostInv, ControlInv
  <2>5. PipeInv' /\ HostInv' /\ PlugInv' /\ UnansweredInv' /\ FifoInv' /\ ScsiInv' /\ RequestInv'
        /\ ServedInv'
    BY <1>9, <2>1 DEF IInv, PipeInv, HostInv, PlugInv, UnansweredInv, FifoInv, ScsiInv,
       RequestInv, ServedInv
  <2> QED BY <2>2, <2>3, <2>4, <2>5 DEF IInv
<1>10. CASE cep.state \in InTransfer /\ ev.cep \in Errors
  <2>1. /\ at = "cep"
        /\ at' = "enum"
        /\ ev' = [ev EXCEPT !.cep = "none"]
        /\ UNCHANGED <<host, enum, dev, bus, wait>>
        /\ cep' = [cep EXCEPT !.state = ev.cep]
        /\ UNCHANGED <<tdev, msc>>
    BY <1>10 DEF ControlXfrFsm, Expected
  <2>2. Typed'
    BY <1>10, <2>1 DEF IInv, Typed, EvTyped, TdevTyped, CepTyped, DevTyped, BusTyped, WaitTyped,
       MscTyped
  <2>3. HostInv' BY <1>10, <2>1 DEF IInv, PipeInv, HostInv
  <2>4. PipeInv' /\ PlugInv' /\ UnansweredInv' /\ FifoInv' /\ EnumInv' /\ ControlInv' /\ ScsiInv'
        /\ RequestInv' /\ ServedInv'
    BY <1>10, <2>1 DEF IInv, PipeInv, PlugInv, UnansweredInv, FifoInv, EnumInv, ControlInv,
       ScsiInv, RequestInv, ServedInv
  <2> QED BY <2>2, <2>3, <2>4 DEF IInv
<1>11. CASE cep.state \in Errors /\ tdev.owned = TRUE
  <2>1. /\ at = "cep"
        /\ at' = "enum"
        /\ ev' = [ev EXCEPT !.cep = "none"]
        /\ UNCHANGED <<host, enum, dev, bus, wait>>
        /\ cep' = [cep EXCEPT !.state = "IDLE"]
        /\ tdev' = tdev
        /\ msc' = [msc EXCEPT !.cep_event = cep.state]
    BY <1>11 DEF ControlXfrFsm, Expected, Told, CepDoneCb
  <2>2. Typed'
    BY <1>11, <2>1 DEF IInv, Typed, EvTyped, TdevTyped, CepTyped, DevTyped, BusTyped, WaitTyped,
       MscTyped
  <2>3. HostInv' BY <1>11, <2>1 DEF IInv, PipeInv, HostInv
  <2>4. PlugInv' BY <1>11, <2>1 DEF IInv, PipeInv, PlugInv
  <2>5. PipeInv' /\ UnansweredInv' /\ FifoInv' /\ EnumInv' /\ ControlInv' /\ ScsiInv' /\
        RequestInv' /\ ServedInv'
    BY <1>11, <2>1 DEF IInv, PipeInv, UnansweredInv, FifoInv, EnumInv, ControlInv, ScsiInv,
       RequestInv, ServedInv
  <2> QED BY <2>2, <2>3, <2>4, <2>5 DEF IInv
<1>12. CASE cep.state \in Errors /\ tdev.owned = FALSE
  <2>1. /\ at = "cep"
        /\ at' = "enum"
        /\ ev' = [ev EXCEPT !.cep = "none"]
        /\ UNCHANGED <<host, enum, dev, bus, wait>>
        /\ cep' = [cep EXCEPT !.result = cep.state]
        /\ tdev' = tdev
        /\ msc' = msc
    BY <1>12 DEF ControlXfrFsm, Expected, Told, CepDoneCb
  <2>2. Typed'
    BY <1>12, <2>1 DEF IInv, Typed, EvTyped, TdevTyped, CepTyped, DevTyped, BusTyped, WaitTyped,
       MscTyped
  <2>3. PipeInv' /\ HostInv' /\ PlugInv' /\ UnansweredInv' /\ FifoInv' /\ EnumInv' /\ ControlInv'
        /\ ScsiInv' /\ RequestInv' /\ ServedInv'
    BY <1>12, <2>1 DEF IInv, PipeInv, HostInv, PlugInv, UnansweredInv, FifoInv, EnumInv,
       ControlInv, ScsiInv, RequestInv, ServedInv
  <2> QED BY <2>2, <2>3 DEF IInv
<1> QED BY <1>1, <1>2, <1>3, <1>4, <1>5, <1>6, <1>7, <1>8, <1>9, <1>10, <1>11, <1>12 DEF IInv,
    Typed, CepTyped, EvTyped, TdevTyped, ControlXfrFsm, Expected, Punctual

\* A transaction of the control pipe ends with the event that the device's address decides.
LEMMA CepIrqStep ==
  ASSUME IInv, CepIrq
  PROVE  IInv'
<1>1. Typed'
  BY DEF IInv, Typed, EvTyped, TdevTyped, CepTyped, DevTyped, BusTyped, WaitTyped, MscTyped,
     CepIrq, CepCb
<1>2. UnansweredInv' BY DEF IInv, Typed, CepTyped, UnansweredInv, CepIrq, CepCb, Answers
<1>3. FifoInv' BY DEF IInv, PipeInv, FifoInv, CepIrq, CepCb
<1>4. EnumInv' BY DEF IInv, Typed, CepTyped, PipeInv, HostInv, EnumInv, CepIrq, CepCb, Answers
<1>5. ControlInv' BY DEF IInv, Typed, CepTyped, PipeInv, ControlInv, CepIrq, CepCb, Answers
<1>6. ScsiInv' BY DEF IInv, Typed, CepTyped, ScsiInv, CepIrq, Answers
<1>7. RequestInv' BY DEF IInv, Typed, CepTyped, RequestInv, CepIrq, Answers
<1>8. ServedInv' BY DEF IInv, Typed, CepTyped, PipeInv, HostInv, ServedInv, CepIrq, Answers
<1>9. PipeInv' /\ HostInv' /\ PlugInv' BY DEF IInv, PipeInv, HostInv, PlugInv, CepIrq, CepCb
<1> QED BY <1>1, <1>2, <1>3, <1>4, <1>5, <1>6, <1>7, <1>8, <1>9 DEF IInv

\* A request of the enumeration's: it is awaited, and no result is left of the one before.
LEMMA EnumAskStep ==
  ASSUME IInv, at = "enum", at' = "host", UNCHANGED <<ev, host, dev, msc>>, EnumAsk
  PROVE  IInv'
<1>1. CepTyped' BY AsksTyped DEF IInv
<1>2. CASE enum = "SET_TDEV_ADDR"
  <2>1. Typed'
    BY <1>1, <1>2 DEF IInv, Typed, EvTyped, TdevTyped, DevTyped, BusTyped, WaitTyped, MscTyped,
       EnumAsk, Awaits, Restart
  <2>2. PipeInv' BY <1>1, <1>2 DEF IInv, PipeInv, HostInv, EnumAsk, Start, Awaits
  <2>3. ControlInv' BY <1>1, <1>2 DEF IInv, HostInv, ControlInv
  <2>4. HostInv' /\ PlugInv' /\ UnansweredInv' /\ FifoInv' /\ EnumInv' /\ ScsiInv' /\ RequestInv'
        /\ ServedInv'
    BY <1>1, <1>2 DEF IInv, HostInv, PlugInv, UnansweredInv, FifoInv, EnumInv, ScsiInv,
       RequestInv, ServedInv, EnumAsk, Awaits, Start, Configured, CepConfigured, Asks, Sets
  <2> QED BY <2>1, <2>2, <2>3, <2>4 DEF IInv
<1>3. CASE enum # "SET_TDEV_ADDR"
  <2>1. Typed'
    BY <1>1, <1>3 DEF IInv, Typed, EvTyped, TdevTyped, DevTyped, BusTyped, WaitTyped, MscTyped,
       EnumAsk, Asks, Awaits
  <2>2. PipeInv' BY <1>1, <1>3 DEF IInv, PipeInv, HostInv, EnumAsk, Start, Asks, Awaits
  <2>3. UnansweredInv'
    BY <1>1, <1>3 DEF IInv, PipeInv, UnansweredInv, EnumAsk, Start, Asks, Awaits
  <2>4. ControlInv' BY <1>1, <1>3 DEF IInv, HostInv, ControlInv, EnumAsk, Asks
  <2>5. HostInv' /\ PlugInv' /\ FifoInv' /\ EnumInv' /\ ScsiInv' /\ RequestInv' /\ ServedInv'
    BY <1>1, <1>3 DEF IInv, HostInv, PlugInv, FifoInv, EnumInv, ScsiInv, RequestInv, ServedInv,
       EnumAsk, Asks, Awaits, Start, GetDescr, Sets
  <2> QED BY <2>1, <2>2, <2>3, <2>4, <2>5 DEF IInv
<1> QED BY <1>2, <1>3

\* The result of a request: what the host looks at is the descriptor of the device.
LEMMA EnumAnsweredStep ==
  ASSUME IInv, at = "enum", at' = "host", UNCHANGED <<ev, host, dev, msc>>, EnumAnswered
  PROVE  IInv'
<1>1. Typed'
  BY DEF IInv, Typed, EvTyped, TdevTyped, CepTyped, DevTyped, BusTyped, WaitTyped, MscTyped,
     EnumAnswered, Awaits, AfterAnswer
<1>2. PipeInv' BY DEF IInv, Typed, TdevTyped, CepTyped, PipeInv, EnumAnswered
<1>3. HostInv' BY DEF IInv, Typed, TdevTyped, HostInv, EnumAnswered, Awaits, AfterAnswer
<1>4. PlugInv' BY DEF IInv, Typed, TdevTyped, PlugInv, EnumAnswered
<1>5. FifoInv' BY DEF IInv, Typed, CepTyped, FifoInv, EnumAnswered
<1>6. EnumInv'
  BY DEF IInv, Typed, TdevTyped, CepTyped, PipeInv, HostInv, EnumInv, EnumAnswered, Awaits,
     AfterAnswer, DevDescOk, ConfDescOk
<1>7. ControlInv' BY DEF IInv, HostInv, ControlInv, EnumAnswered
<1>8. ServedInv' BY DEF IInv, Typed, TdevTyped, ServedInv, EnumAnswered
<1>9. UnansweredInv' /\ ScsiInv' /\ RequestInv'
  BY DEF IInv, UnansweredInv, ScsiInv, RequestInv, EnumAnswered, Awaits
<1> QED BY <1>1, <1>2, <1>3, <1>4, <1>5, <1>6, <1>7, <1>8, <1>9 DEF IInv

\* The second reset of the bus begins.
LEMMA EnumResetStep ==
  ASSUME IInv, at = "enum", at' = "host", UNCHANGED <<ev, host, dev, msc>>, EnumReset
  PROVE  IInv'
<1>1. Typed'
  BY DEF IInv, Typed, EvTyped, TdevTyped, CepTyped, DevTyped, BusTyped, WaitTyped, MscTyped,
     EnumReset, Restart
<1>2. HostInv' BY DEF IInv, Typed, WaitTyped, HostInv, EnumReset, Restart
<1>3. ControlInv' BY DEF IInv, HostInv, ControlInv, EnumReset
<1>4. PipeInv' /\ PlugInv' /\ UnansweredInv' /\ FifoInv' /\ EnumInv' /\ ScsiInv' /\ RequestInv'
      /\ ServedInv'
  BY DEF IInv, PipeInv, PlugInv, UnansweredInv, FifoInv, EnumInv, ScsiInv, RequestInv, ServedInv,
     EnumReset
<1> QED BY <1>1, <1>2, <1>3, <1>4 DEF IInv

\* It is ended in the tick of its end.
LEMMA EnumClrResetStep ==
  ASSUME IInv, at = "enum", at' = "host", UNCHANGED <<ev, host, dev, msc>>, EnumClrReset
  PROVE  IInv'
<1>1. CASE wait.enum = Short
  <2>1. Typed'
    BY <1>1 DEF IInv, Typed, EvTyped, TdevTyped, CepTyped, DevTyped, BusTyped, WaitTyped,
       MscTyped, EnumClrReset
  <2>2. PipeInv' /\ HostInv' /\ PlugInv' /\ UnansweredInv' /\ FifoInv' /\ EnumInv' /\ ControlInv'
        /\ ScsiInv' /\ RequestInv' /\ ServedInv'
    BY <1>1 DEF IInv, PipeInv, HostInv, PlugInv, UnansweredInv, FifoInv, EnumInv, ControlInv,
       ScsiInv, RequestInv, ServedInv, EnumClrReset
  <2> QED BY <2>1, <2>2 DEF IInv
<1>2. CASE wait.enum # Short
  <2>1. Typed'
    BY <1>2 DEF IInv, Typed, EvTyped, TdevTyped, CepTyped, DevTyped, BusTyped, WaitTyped,
       MscTyped, EnumClrReset
  <2>2. HostInv' BY <1>2 DEF IInv, Typed, WaitTyped, HostInv, EnumClrReset
  <2>3. PipeInv' /\ PlugInv' /\ UnansweredInv' /\ FifoInv' /\ EnumInv' /\ ControlInv' /\ ScsiInv'
        /\ RequestInv' /\ ServedInv'
    BY <1>2 DEF IInv, PipeInv, PlugInv, UnansweredInv, FifoInv, EnumInv, ControlInv, ScsiInv,
       RequestInv, ServedInv, EnumClrReset
  <2> QED BY <2>1, <2>2, <2>3 DEF IInv
<1> QED BY <1>1, <1>2

\* The class that serves the device owns it.
LEMMA EnumCheckClassStep ==
  ASSUME IInv, at = "enum", at' = "host", UNCHANGED <<ev, host, dev, msc>>, EnumCheckClass
  PROVE  IInv'
<1>1. CASE ClassSupported
  <2>1. /\ enum = "CHECK_CLASS"
        /\ enum' = "SUCCESS"
        /\ tdev' = [tdev EXCEPT !.alloc = TRUE, !.owned = TRUE]
        /\ UNCHANGED <<cep, bus, wait>>
    BY <1>1 DEF EnumCheckClass
  <2>2. Typed'
    BY <1>1, <2>1 DEF IInv, Typed, EvTyped, TdevTyped, CepTyped, DevTyped, BusTyped, WaitTyped,
       MscTyped
  <2>3. PipeInv' /\ HostInv' /\ PlugInv' /\ UnansweredInv' /\ FifoInv' /\ EnumInv' /\ ControlInv'
        /\ ScsiInv' /\ RequestInv' /\ ServedInv'
    BY <1>1, <2>1 DEF IInv, PipeInv, HostInv, PlugInv, UnansweredInv, FifoInv, EnumInv,
       ControlInv, ScsiInv, RequestInv, ServedInv
  <2> QED BY <2>2, <2>3 DEF IInv
<1>2. CASE ~ClassSupported
  <2>1. enum = "CHECK_CLASS" /\ enum' = "ERROR" /\ UNCHANGED <<tdev, cep, bus, wait>>
    BY <1>2 DEF EnumCheckClass
  <2>2. tdev.desc.conf \in {"disk", "slow", "odd"} => tdev.alloc = TRUE
    BY <1>2, <2>1 DEF ClassSupported, IInv, Typed, TdevTyped
  <2>3. Typed'
    BY <1>2, <2>1, <2>2 DEF IInv, Typed, EvTyped, TdevTyped, CepTyped, DevTyped, BusTyped,
       WaitTyped, MscTyped
  <2>4. EnumInv' BY <1>2, <2>1, <2>2 DEF IInv, HostInv, EnumInv
  <2>5. PipeInv' /\ HostInv' /\ PlugInv' /\ UnansweredInv' /\ FifoInv' /\ ControlInv' /\ ScsiInv'
        /\ RequestInv' /\ ServedInv'
    BY <1>2, <2>1, <2>2 DEF IInv, PipeInv, HostInv, PlugInv, UnansweredInv, FifoInv, ControlInv,
       ScsiInv, RequestInv, ServedInv
  <2> QED BY <2>3, <2>4, <2>5 DEF IInv
<1> QED BY <1>1, <1>2

\* The enumeration waits.
LEMMA EnumWaitsStep ==
  ASSUME IInv, at = "enum", at' = "host", UNCHANGED <<ev, host, dev, msc>>, EnumWaits
  PROVE  IInv'
<1>1. Typed'
  BY DEF IInv, Typed, EvTyped, TdevTyped, CepTyped, DevTyped, BusTyped, WaitTyped, MscTyped,
     EnumWaits
<1>2. PipeInv' /\ HostInv' /\ PlugInv' /\ UnansweredInv' /\ FifoInv' /\ EnumInv' /\ ControlInv'
      /\ ScsiInv' /\ RequestInv' /\ ServedInv'
  BY DEF IInv, PipeInv, HostInv, PlugInv, UnansweredInv, FifoInv, EnumInv, ControlInv, ScsiInv,
     RequestInv, ServedInv, EnumWaits, Awaits
<1> QED BY <1>1, <1>2 DEF IInv

---------------------------------------------------------------------------

(* The main state machine.                                                  *)

\* The types, after a disconnection has been seen to.
LEMMA HandleDisconTyped ==
  ASSUME IInv, at' = "msc", HandleDiscon
  PROVE  Typed'
<1>1. tdev' = [addr |-> 0, speed |-> "HS", owned |-> FALSE, alloc |-> FALSE, desc |-> NoDesc,
                 state |-> IF ev.connect THEN "ATTACHED" ELSE "NOT_ATTACHED",
                 num |-> IF ev.connect THEN dev.plugs ELSE 0, told |-> tdev.told]
    BY DEF HandleDiscon
<1>2. DOMAIN tdev' = {"addr", "speed", "state", "owned", "alloc", "desc", "num", "told"}
  BY <1>1, Zenon
<1>3. tdev.told \in Nat /\ dev.plugs \in Nat BY DEF IInv, Typed, TdevTyped, DevTyped
<1>4. TdevTyped'
   <2>1. tdev'.addr = 0 /\ tdev'.speed = "HS" /\ tdev'.owned = FALSE
        /\ tdev'.alloc = FALSE /\ tdev'.desc = NoDesc /\ tdev'.told = tdev.told
     BY <1>1, Zenon
   <2>2. tdev'.num = IF ev.connect THEN dev.plugs ELSE 0 BY <1>1, Zenon
   <2>3. tdev'.num \in Nat BY <1>3, <2>2
   <2>4. DOMAIN NoDesc = {"dev", "conf"} BY DEF NoDesc
   <2> QED BY <1>2, <1>3, <2>1, <2>3, <2>4 DEF TdevTyped
<1>5. EvTyped' BY DEF HandleDiscon, IInv, Typed, EvTyped
<1>6. CepTyped' BY DEF HandleDiscon, IInv, Typed, CepTyped, Configured, CepConfigured
<1>7. DevTyped' /\ BusTyped' BY DEF HandleDiscon, IInv, Typed, DevTyped, BusTyped
<1>8. WaitTyped'
  <2>1. CASE ev.connect = TRUE
      BY <2>1 DEF HandleDiscon, IInv, Typed, WaitTyped, Restart
  <2>2. CASE ev.connect = FALSE
      BY <2>2 DEF HandleDiscon, IInv, Typed, WaitTyped
  <2> QED BY <2>1, <2>2 DEF IInv, Typed, EvTyped
<1>9. MscTyped'
  <2>1. CASE tdev.alloc = TRUE
    <3>1. msc' = Released BY <2>1 DEF HandleDiscon
    <3>2. MscTyped BY DEF IInv, Typed
    <3>3. DOMAIN msc' = DOMAIN msc BY <3>1 DEF Released
    <3>4. /\ msc'.state = "IDLE" /\ msc'.bot = "IDLE" /\ msc'.st = FALSE /\ msc'.addr = 0
          /\ msc'.out = "off" /\ msc'.in = "off"
      BY <3>1, <3>2, Zenon DEF Released, MscTyped
    <3>5. /\ msc'.cmd = msc.cmd /\ msc'.phase = msc.phase /\ msc'.alloc = msc.alloc
          /\ msc'.cep_event = msc.cep_event /\ msc'.tx_event = msc.tx_event
          /\ msc'.rx_event = msc.rx_event /\ msc'.retrying = msc.retrying
          /\ msc'.target = msc.target
      BY <3>1, <3>2 DEF Released, MscTyped
    <3>6. msc'.state \in MscStates BY <3>4 DEF MscStates
    <3>7. /\ msc'.bot \in {"IDLE", "COMMAND", "DATA", "STATUS"} /\ msc'.st \in BOOLEAN
          /\ msc'.addr \in {0, 1} /\ msc'.out \in {"off", "idle", "cbw", "data"}
          /\ msc'.in \in {"off", "idle", "data", "csw"}
      BY <3>4
    <3> QED BY <3>2, <3>3, <3>5, <3>6, <3>7, Zenon DEF MscTyped
  <2>2. CASE tdev.alloc = FALSE
      BY <2>2 DEF HandleDiscon, IInv, Typed, MscTyped
  <2> QED BY <2>1, <2>2 DEF IInv, Typed, TdevTyped
<1> QED BY <1>4, <1>5, <1>6, <1>7, <1>8, <1>9 DEF HandleDiscon, ResetEnumFsm, Typed

\* mss_usbh_handle_discon_event: the class is released and the machines begin anew.
LEMMA HandleDisconStep ==
  ASSUME IInv, at = "host", at' = "msc", HandleDiscon
  PROVE  IInv'
<1>1. CASE tdev.alloc = TRUE
  <2>1. Typed' BY HandleDisconTyped
  <2>2. HostInv' BY <1>1 DEF IInv, HostInv, PlugInv, HandleDiscon, Released, ResetEnumFsm
  <2>3. PlugInv' BY <1>1 DEF IInv, Typed, DevTyped, PlugInv, HandleDiscon, Released
  <2>4. ServedInv' BY <1>1 DEF IInv, PlugInv, ServedInv, HandleDiscon
  <2>5. PipeInv' /\ UnansweredInv' /\ FifoInv' /\ EnumInv' /\ ControlInv' /\ ScsiInv' /\
        RequestInv'
    BY <1>1 DEF PipeInv, UnansweredInv, FifoInv, EnumInv, ControlInv, ScsiInv, RequestInv,
       HandleDiscon, Released, Configured, CepConfigured, ResetEnumFsm
  <2> QED BY <2>1, <2>2, <2>3, <2>4, <2>5 DEF IInv
<1>2. CASE tdev.alloc = FALSE
  <2>1. Typed' BY HandleDisconTyped
  <2>2. PipeInv' BY <1>2 DEF IInv, PipeInv, HostInv, HandleDiscon, Configured, CepConfigured
  <2>3. PlugInv' BY <1>2 DEF IInv, Typed, DevTyped, PlugInv, HandleDiscon
  <2>4. ServedInv' BY <1>2 DEF IInv, PlugInv, ServedInv, HandleDiscon
  <2>5. HostInv' /\ UnansweredInv' /\ FifoInv' /\ EnumInv' /\ ControlInv' /\ ScsiInv' /\
        RequestInv'
    BY <1>2 DEF IInv, HostInv, UnansweredInv, FifoInv, EnumInv, ControlInv, ScsiInv, RequestInv,
       HandleDiscon, ResetEnumFsm, Configured, CepConfigured
  <2> QED BY <2>1, <2>2, <2>3, <2>4, <2>5 DEF IInv
<1> QED BY <1>1, <1>2 DEF IInv, Typed, TdevTyped

\* A connection is seen.
LEMMA HostIdleStep ==
  ASSUME IInv, at = "host", at' = "msc", ~ev.discon, HostIdle
  PROVE  IInv'
<1>1. CASE ev.connect = TRUE
  <2>1. /\ ev' = [ev EXCEPT !.connect = FALSE]
        /\ tdev' = [tdev EXCEPT !.state = "ATTACHED", !.num = dev.plugs]
        /\ host = "IDLE"
        /\ host' = "DETECTED"
        /\ wait' = [wait EXCEPT !["host"] = 0]
        /\ UNCHANGED <<dev, cep, enum, bus, msc>>
    BY <1>1 DEF HostIdle, Restart
  <2>2. Typed'
    BY <1>1, <2>1 DEF IInv, Typed, EvTyped, TdevTyped, CepTyped, DevTyped, BusTyped, WaitTyped,
       MscTyped
  <2>3. PlugInv' BY <1>1, <2>1 DEF IInv, Typed, DevTyped, PlugInv
  <2>4. PipeInv' /\ HostInv' /\ UnansweredInv' /\ FifoInv' /\ EnumInv' /\ ControlInv' /\ ScsiInv'
        /\ RequestInv' /\ ServedInv'
    BY <1>1, <2>1 DEF IInv, PipeInv, HostInv, UnansweredInv, FifoInv, EnumInv, ControlInv,
       ScsiInv, RequestInv, ServedInv
  <2> QED BY <2>2, <2>3, <2>4 DEF IInv
<1>2. CASE ev.connect = FALSE
  <2>1. Typed'
    BY <1>2 DEF IInv, Typed, EvTyped, TdevTyped, CepTyped, DevTyped, BusTyped, WaitTyped,
       MscTyped, HostIdle
  <2>2. PipeInv' /\ HostInv' /\ PlugInv' /\ UnansweredInv' /\ FifoInv' /\ EnumInv' /\ ControlInv'
        /\ ScsiInv' /\ RequestInv' /\ ServedInv'
    BY <1>2 DEF IInv, PipeInv, HostInv, PlugInv, UnansweredInv, FifoInv, EnumInv, ControlInv,
       ScsiInv, RequestInv, ServedInv, HostIdle
  <2> QED BY <2>1, <2>2 DEF IInv
<1> QED BY <1>1, <1>2 DEF IInv, Typed, EvTyped

\* The bus is reset, and the device answers.
LEMMA HostDetectedStep ==
  ASSUME IInv, at = "host", at' = "msc", ~ev.discon, HostDetected
  PROVE  IInv'
<1>1. CASE wait.host >= 5 * Short
  <2>1. /\ host = "DETECTED"
        /\ tdev' = [tdev EXCEPT !.state = "POWERED"]
        /\ host' = "RESETING"
        /\ wait' = [wait EXCEPT !["host"] = 0]
        /\ bus' = [bus EXCEPT !.reset = TRUE]
        /\ dev' = [dev EXCEPT !.addr = 0]
        /\ UNCHANGED <<ev, cep, enum, msc>>
    BY <1>1 DEF HostDetected, Restart
  <2>2. Typed'
    BY <1>1, <2>1 DEF IInv, Typed, EvTyped, TdevTyped, CepTyped, DevTyped, BusTyped, WaitTyped,
       MscTyped
  <2>3. HostInv' BY <1>1, <2>1 DEF IInv, Typed, WaitTyped, HostInv
  <2>4. FifoInv' BY <1>1, <2>1 DEF IInv, PipeInv, HostInv, FifoInv
  <2>5. ScsiInv' BY <1>1, <2>1 DEF IInv, HostInv, ScsiInv
  <2>6. RequestInv' BY <1>1, <2>1 DEF IInv, HostInv, RequestInv
  <2>7. ServedInv' BY <1>1, <2>1 DEF IInv, HostInv, PlugInv, ServedInv
  <2>8. PipeInv' /\ PlugInv' /\ UnansweredInv' /\ EnumInv' /\ ControlInv'
    BY <1>1, <2>1 DEF IInv, PipeInv, PlugInv, UnansweredInv, EnumInv, ControlInv
  <2> QED BY <2>2, <2>3, <2>4, <2>5, <2>6, <2>7, <2>8 DEF IInv
<1>2. CASE ~(wait.host >= 5 * Short)
  <2>1. Typed'
    BY <1>2 DEF IInv, Typed, EvTyped, TdevTyped, CepTyped, DevTyped, BusTyped, WaitTyped,
       MscTyped, HostDetected
  <2>2. PipeInv' /\ HostInv' /\ PlugInv' /\ UnansweredInv' /\ FifoInv' /\ EnumInv' /\ ControlInv'
        /\ ScsiInv' /\ RequestInv' /\ ServedInv'
    BY <1>2 DEF IInv, PipeInv, HostInv, PlugInv, UnansweredInv, FifoInv, EnumInv, ControlInv,
       ScsiInv, RequestInv, ServedInv, HostDetected
  <2> QED BY <2>1, <2>2 DEF IInv
<1> QED BY <1>1, <1>2

\* The reset is ended before the enumeration begins.
LEMMA HostResetingStep ==
  ASSUME IInv, at = "host", at' = "msc", ~ev.discon, HostReseting
  PROVE  IInv'
<1>1. CASE wait.host < 2 * Short /\ wait.host = Short
  <2>1. Typed'
    BY <1>1 DEF IInv, Typed, EvTyped, TdevTyped, CepTyped, DevTyped, BusTyped, WaitTyped,
       MscTyped, HostReseting
  <2>2. PipeInv' /\ HostInv' /\ PlugInv' /\ UnansweredInv' /\ FifoInv' /\ EnumInv' /\ ControlInv'
        /\ ScsiInv' /\ RequestInv' /\ ServedInv'
    BY <1>1 DEF IInv, PipeInv, HostInv, PlugInv, UnansweredInv, FifoInv, EnumInv, ControlInv,
       ScsiInv, RequestInv, ServedInv, HostReseting
  <2> QED BY <2>1, <2>2 DEF IInv
<1>2. CASE wait.host < 2 * Short /\ wait.host # Short
  <2>1. Typed'
    BY <1>2 DEF IInv, Typed, EvTyped, TdevTyped, CepTyped, DevTyped, BusTyped, WaitTyped,
       MscTyped, HostReseting
  <2>2. PipeInv' BY <1>2 DEF IInv, Typed, WaitTyped, PipeInv, HostReseting
  <2>3. HostInv' BY <1>2 DEF IInv, Typed, WaitTyped, HostInv, HostReseting
  <2>4. PlugInv' BY <1>2 DEF IInv, Typed, WaitTyped, PlugInv, HostReseting
  <2>5. UnansweredInv' BY <1>2 DEF IInv, Typed, WaitTyped, UnansweredInv, HostReseting
  <2>6. FifoInv' BY <1>2 DEF IInv, Typed, WaitTyped, FifoInv, HostReseting
  <2>7. EnumInv' BY <1>2 DEF IInv, Typed, WaitTyped, EnumInv, HostReseting
  <2>8. ServedInv' BY <1>2 DEF IInv, Typed, WaitTyped, ServedInv, HostReseting
  <2>9. ControlInv' /\ ScsiInv' /\ RequestInv'
    BY <1>2 DEF IInv, ControlInv, ScsiInv, RequestInv, HostReseting
  <2> QED BY <2>1, <2>2, <2>3, <2>4, <2>5, <2>6, <2>7, <2>8, <2>9 DEF IInv
<1>3. CASE wait.host >= 2 * Short
  <2>1. /\ host = "RESETING"
        /\ wait.host # Short
        /\ bus' = bus
        /\ tdev' = [tdev EXCEPT !.state = "DEFAULT",
                                !.speed = IF dev.kind = "slow" THEN tdev.speed ELSE "HS"]
        /\ cep' = [[cep EXCEPT !.state = "IDLE", !.addr = 0] EXCEPT !.token = "none"]
        /\ host' = "ENUMERATING"
        /\ UNCHANGED <<dev, ev, enum, wait, msc>>
    BY <1>3 DEF HostReseting, Configured, CepConfigured
  <2>2. Typed'
    BY <1>3, <2>1 DEF IInv, Typed, EvTyped, TdevTyped, CepTyped, DevTyped, BusTyped, WaitTyped,
       MscTyped
  <2>3. PipeInv' BY <1>3, <2>1 DEF IInv, PipeInv, HostInv
  <2>4. HostInv' BY <1>3, <2>1 DEF IInv, Typed, WaitTyped, HostInv
  <2>5. EnumInv' BY <1>3, <2>1 DEF IInv, PipeInv, HostInv, EnumInv, ServedInv
  <2>6. PlugInv' /\ UnansweredInv' /\ FifoInv' /\ ControlInv' /\ ScsiInv' /\ RequestInv' /\
        ServedInv'
    BY <1>3, <2>1 DEF IInv, PlugInv, UnansweredInv, FifoInv, ControlInv, ScsiInv, RequestInv,
       ServedInv
  <2> QED BY <2>2, <2>3, <2>4, <2>5, <2>6 DEF IInv
<1> QED BY <1>1, <1>2, <1>3 DEF IInv, Typed, WaitTyped

\* The enumeration is started, and its end is taken.
LEMMA HostEnumeratingStep ==
  ASSUME IInv, at = "host", at' = "msc", ~ev.discon, HostEnumerating
  PROVE  IInv'
<1>1. Typed'
  BY DEF IInv, Typed, EvTyped, TdevTyped, CepTyped, DevTyped, BusTyped, WaitTyped, MscTyped,
     HostEnumerating, StartEnumFsm, ResetEnumFsm
<1>2. PipeInv'
  BY DEF IInv, Typed, TdevTyped, PipeInv, HostEnumerating, StartEnumFsm, ResetEnumFsm
<1>3. HostInv'
  BY DEF IInv, Typed, TdevTyped, HostInv, HostEnumerating, StartEnumFsm, ResetEnumFsm
<1>4. PlugInv' BY DEF IInv, Typed, TdevTyped, PlugInv, HostEnumerating
<1>5. ControlInv'
  BY DEF IInv, Typed, TdevTyped, CepTyped, PipeInv, HostInv, PlugInv, EnumInv, ControlInv,
     HostEnumerating
<1>6. ServedInv' BY DEF IInv, Typed, TdevTyped, EnumInv, ServedInv, HostEnumerating
<1>7. UnansweredInv' /\ FifoInv' /\ EnumInv' /\ ScsiInv' /\ RequestInv'
  BY DEF IInv, UnansweredInv, FifoInv, EnumInv, ScsiInv, RequestInv, HostEnumerating,
     StartEnumFsm, ResetEnumFsm
<1> QED BY <1>1, <1>2, <1>3, <1>4, <1>5, <1>6, <1>7 DEF IInv

\* The class is given the device's address.
LEMMA HostAllocateStep ==
  ASSUME IInv, at = "host", at' = "msc", ~ev.discon, HostAllocate
  PROVE  IInv'
<1>1. Typed'
  BY DEF IInv, Typed, EvTyped, TdevTyped, CepTyped, DevTyped, BusTyped, WaitTyped, MscTyped,
     HostAllocate, Allocate
<1>2. PipeInv' /\ HostInv' /\ PlugInv' /\ UnansweredInv' /\ FifoInv' /\ EnumInv' /\ ControlInv'
      /\ ScsiInv' /\ RequestInv' /\ ServedInv'
  BY DEF IInv, PipeInv, HostInv, PlugInv, UnansweredInv, FifoInv, EnumInv, ControlInv, ScsiInv,
     RequestInv, ServedInv, HostAllocate, Allocate
<1> QED BY <1>1, <1>2 DEF IInv

\* The user is told: never of a disk.
LEMMA HostErrorStep ==
  ASSUME IInv, at = "host", at' = "msc", ~ev.discon, HostError
  PROVE  IInv'
<1>1. Typed'
  BY DEF IInv, Typed, EvTyped, TdevTyped, CepTyped, DevTyped, BusTyped, WaitTyped, MscTyped,
     HostError
<1>2. PipeInv' /\ HostInv' /\ PlugInv' /\ UnansweredInv' /\ FifoInv' /\ EnumInv' /\ ControlInv'
      /\ ScsiInv' /\ RequestInv' /\ ServedInv'
  BY DEF IInv, PipeInv, HostInv, PlugInv, UnansweredInv, FifoInv, EnumInv, ControlInv, ScsiInv,
     RequestInv, ServedInv, HostError
<1> QED BY <1>1, <1>2 DEF IInv

\* The class serves the device.
LEMMA HostServicingStep ==
  ASSUME IInv, at = "host", at' = "msc", ~ev.discon, HostServicing
  PROVE  IInv'
<1>1. Typed'
  BY DEF IInv, Typed, EvTyped, TdevTyped, CepTyped, DevTyped, BusTyped, WaitTyped, MscTyped,
     HostServicing
<1>2. PipeInv' /\ HostInv' /\ PlugInv' /\ UnansweredInv' /\ FifoInv' /\ EnumInv' /\ ControlInv'
      /\ ScsiInv' /\ RequestInv' /\ ServedInv'
  BY DEF IInv, PipeInv, HostInv, PlugInv, UnansweredInv, FifoInv, EnumInv, ControlInv, ScsiInv,
     RequestInv, ServedInv, HostServicing
<1> QED BY <1>1, <1>2 DEF IInv

---------------------------------------------------------------------------

(* The user, and time.                                                      *)

\* A new device does not answer until it has been reset, and the class keeps no event for it.
LEMMA PlugStep ==
  ASSUME NEW kind \in Kinds, IInv, Punctual, Plug(kind)
  PROVE  IInv'
<1>1. PICK ready \in BOOLEAN :
       dev' = [kind |-> kind, addr |-> NoAddr, plugs |-> dev.plugs + 1, ready |-> ready,
               nak |-> FALSE]
  BY DEF Plug
<1>2. Typed'
  BY <1>1 DEF IInv, Typed, EvTyped, TdevTyped, CepTyped, DevTyped, BusTyped, WaitTyped, MscTyped,
     Plug, ConnectCb
<1>3. PlugInv' BY <1>1 DEF IInv, Typed, TdevTyped, DevTyped, PlugInv, Plug, ConnectCb, Punctual
<1>4. PipeInv' /\ HostInv' /\ UnansweredInv' /\ FifoInv' /\ EnumInv' /\ ControlInv' /\ ScsiInv'
      /\ RequestInv' /\ ServedInv'
  BY <1>1 DEF IInv, PipeInv, HostInv, UnansweredInv, FifoInv, EnumInv, ControlInv, ScsiInv,
     RequestInv, ServedInv, Plug, ConnectCb
<1> QED BY <1>2, <1>3, <1>4 DEF IInv

\* The device is gone: the last one's events may be left, and what it was about to say is not.
LEMMA UnplugStep ==
  ASSUME IInv, Unplug
  PROVE  IInv'
<1>1. Typed'
  BY DEF IInv, Typed, EvTyped, TdevTyped, CepTyped, DevTyped, BusTyped, WaitTyped, MscTyped,
     Unplug
<1>2. PipeInv' /\ HostInv' /\ PlugInv' /\ UnansweredInv' /\ FifoInv' /\ EnumInv' /\ ControlInv'
      /\ ScsiInv' /\ RequestInv' /\ ServedInv'
  BY DEF IInv, PipeInv, HostInv, PlugInv, UnansweredInv, FifoInv, EnumInv, ControlInv, ScsiInv,
     RequestInv, ServedInv, Unplug
<1> QED BY <1>1, <1>2 DEF IInv

\* The tasks are called again: only a machine that was at rest is at its start.
LEMMA AgainStep ==
  ASSUME IInv, Again
  PROVE  IInv'
<1>1. Typed'
  BY DEF IInv, Typed, EvTyped, TdevTyped, CepTyped, DevTyped, BusTyped, WaitTyped, MscTyped,
     Again
<1>2. PipeInv' /\ HostInv' /\ PlugInv' /\ UnansweredInv' /\ FifoInv' /\ EnumInv' /\ ControlInv'
      /\ ScsiInv' /\ RequestInv' /\ ServedInv'
  BY DEF IInv, PipeInv, HostInv, PlugInv, UnansweredInv, FifoInv, EnumInv, ControlInv, ScsiInv,
     RequestInv, ServedInv, Again
<1> QED BY <1>1, <1>2 DEF IInv

\* A tick passes between two runs: at most one, so that no reset of the bus outlives the run
\* that ends it.
LEMMA TickStep ==
  ASSUME IInv, Punctual, Tick
  PROVE  IInv'
<1>1. Typed'
  BY DEF IInv, Typed, EvTyped, TdevTyped, CepTyped, DevTyped, BusTyped, WaitTyped, MscTyped,
     Tick, Advance, Longest
<1>2. HostInv' BY DEF IInv, Typed, WaitTyped, HostInv, Tick, Advance, Longest, Punctual
<1>3. PipeInv' /\ PlugInv' /\ UnansweredInv' /\ FifoInv' /\ EnumInv' /\ ControlInv' /\ ScsiInv'
      /\ RequestInv' /\ ServedInv'
  BY DEF IInv, PipeInv, PlugInv, UnansweredInv, FifoInv, EnumInv, ControlInv, ScsiInv,
     RequestInv, ServedInv, Tick
<1> QED BY <1>1, <1>2, <1>3 DEF IInv

\* MSS_USBH_suspend: the host is serving the disk.
LEMMA SuspendStep ==
  ASSUME IInv, Suspend
  PROVE  IInv'
<1>1. Typed'
  BY DEF IInv, Typed, EvTyped, TdevTyped, CepTyped, DevTyped, BusTyped, WaitTyped, MscTyped,
     Suspend, BusSuspend
<1>2. PipeInv' /\ HostInv' /\ PlugInv' /\ UnansweredInv' /\ FifoInv' /\ EnumInv' /\ ControlInv'
      /\ ScsiInv' /\ RequestInv' /\ ServedInv'
  BY DEF IInv, PipeInv, HostInv, PlugInv, UnansweredInv, FifoInv, EnumInv, ControlInv, ScsiInv,
     RequestInv, ServedInv, Suspend, BusSuspend
<1> QED BY <1>1, <1>2 DEF IInv

\* MSS_USBH_resume lets time pass; what it resumes is not timed by any state machine.
LEMMA ResumeStep ==
  ASSUME IInv, Punctual, Resume
  PROVE  IInv'
<1>1. Typed'
  BY DEF IInv, Typed, EvTyped, TdevTyped, CepTyped, DevTyped, BusTyped, WaitTyped, MscTyped,
     Resume, Advance, Longest
<1>2. PipeInv' /\ HostInv' /\ PlugInv' /\ UnansweredInv' /\ FifoInv' /\ EnumInv' /\ ControlInv'
      /\ ScsiInv' /\ RequestInv' /\ ServedInv'
  BY DEF IInv, PipeInv, HostInv, PlugInv, UnansweredInv, FifoInv, EnumInv, ControlInv, ScsiInv,
     RequestInv, ServedInv, Resume, Punctual
<1> QED BY <1>1, <1>2 DEF IInv

---------------------------------------------------------------------------

(* The class: the set-up of its device.                                     *)

\* The class begins with its descriptor.
LEMMA AllocatedStep ==
  ASSUME IInv, at = "msc", at' = "rest", UNCHANGED <<ev, host, enum, tdev, dev, bus>>, Allocated
  PROVE  IInv'
<1>1. Typed'
  BY DEF IInv, Typed, EvTyped, TdevTyped, CepTyped, DevTyped, BusTyped, WaitTyped, MscTyped,
     Allocated
<1>2. PipeInv' BY DEF IInv, PipeInv, HostInv, Allocated
<1>3. HostInv' /\ PlugInv' /\ UnansweredInv' /\ FifoInv' /\ EnumInv' /\ ControlInv' /\ ScsiInv'
      /\ RequestInv' /\ ServedInv'
  BY DEF IInv, HostInv, PlugInv, UnansweredInv, FifoInv, EnumInv, ControlInv, ScsiInv,
     RequestInv, ServedInv, Allocated
<1> QED BY <1>1, <1>2, <1>3 DEF IInv

\* It asks for its descriptor.
LEMMA AskClassStep ==
  ASSUME IInv, at = "msc", at' = "rest", UNCHANGED <<ev, host, enum, tdev, dev, bus>>, AskClass
  PROVE  IInv'
<1>1. Typed'
  BY DEF IInv, Typed, EvTyped, TdevTyped, CepTyped, DevTyped, BusTyped, WaitTyped, MscTyped,
     AskClass, Start, Configured, CepConfigured
<1>2. PipeInv' BY DEF IInv, PipeInv, HostInv, PlugInv, UnansweredInv, AskClass, Start
<1>3. UnansweredInv' BY DEF IInv, HostInv, UnansweredInv, AskClass
<1>4. EnumInv' BY DEF IInv, HostInv, EnumInv, AskClass
<1>5. ControlInv'
  BY DEF IInv, HostInv, PlugInv, ControlInv, AskClass, Start, Configured, CepConfigured
<1>6. HostInv' /\ PlugInv' /\ FifoInv' /\ ScsiInv' /\ RequestInv' /\ ServedInv'
  BY DEF IInv, HostInv, PlugInv, FifoInv, ScsiInv, RequestInv, ServedInv, AskClass, Start
<1> QED BY <1>1, <1>2, <1>3, <1>4, <1>5, <1>6 DEF IInv

\* It sets the configuration.
LEMMA AskConfigStep ==
  ASSUME IInv, at = "msc", at' = "rest", UNCHANGED <<ev, host, enum, tdev, dev, bus>>, AskConfig
  PROVE  IInv'
<1>1. Typed'
  BY DEF IInv, Typed, EvTyped, TdevTyped, CepTyped, DevTyped, BusTyped, WaitTyped, MscTyped,
     AskConfig, Start
<1>2. PipeInv' BY DEF IInv, PipeInv, HostInv, PlugInv, UnansweredInv, AskConfig, Start
<1>3. UnansweredInv' BY DEF IInv, HostInv, UnansweredInv, AskConfig
<1>4. EnumInv' BY DEF IInv, HostInv, EnumInv, AskConfig
<1>5. ControlInv' BY DEF IInv, PlugInv, ControlInv, AskConfig, Start
<1>6. HostInv' /\ PlugInv' /\ FifoInv' /\ ScsiInv' /\ RequestInv' /\ ServedInv'
  BY DEF IInv, HostInv, PlugInv, FifoInv, ScsiInv, RequestInv, ServedInv, AskConfig, Start
<1> QED BY <1>1, <1>2, <1>3, <1>4, <1>5, <1>6 DEF IInv

\* It asks for the number of units, which may be refused.
LEMMA AskMaxLunStep ==
  ASSUME IInv, at = "msc", at' = "rest", UNCHANGED <<ev, host, enum, tdev, dev, bus>>, AskMaxLun
  PROVE  IInv'
<1>1. Typed'
  BY DEF IInv, Typed, EvTyped, TdevTyped, CepTyped, DevTyped, BusTyped, WaitTyped, MscTyped,
     AskMaxLun, StartClassReq, Start, Configured, CepConfigured
<1>2. PipeInv'
  BY DEF IInv, PipeInv, HostInv, PlugInv, UnansweredInv, AskMaxLun, StartClassReq, Start
<1>3. UnansweredInv' BY DEF IInv, HostInv, UnansweredInv, AskMaxLun
<1>4. EnumInv' BY DEF IInv, HostInv, EnumInv, AskMaxLun
<1>5. ControlInv'
  BY DEF IInv, Typed, TdevTyped, HostInv, PlugInv, ControlInv, AskMaxLun, StartClassReq, Start,
     Configured, CepConfigured
<1>6. HostInv' /\ PlugInv' /\ FifoInv' /\ ScsiInv' /\ RequestInv' /\ ServedInv'
  BY DEF IInv, HostInv, PlugInv, FifoInv, ScsiInv, RequestInv, ServedInv, AskMaxLun,
     StartClassReq, Start
<1> QED BY <1>1, <1>2, <1>3, <1>4, <1>5, <1>6 DEF IInv

\* It clears the stall that the refusal has left.
LEMMA AskClrStallStep ==
  ASSUME IInv, at = "msc", at' = "rest", UNCHANGED <<ev, host, enum, tdev, dev, bus>>,
         AskClrStall
  PROVE  IInv'
<1>1. Typed'
  BY DEF IInv, Typed, EvTyped, TdevTyped, CepTyped, DevTyped, BusTyped, WaitTyped, MscTyped,
     AskClrStall, Start
<1>2. PipeInv' BY DEF IInv, PipeInv, HostInv, PlugInv, UnansweredInv, AskClrStall, Start
<1>3. UnansweredInv' BY DEF IInv, HostInv, UnansweredInv, AskClrStall
<1>4. EnumInv' BY DEF IInv, HostInv, EnumInv, AskClrStall
<1>5. ControlInv' BY DEF IInv, PlugInv, ControlInv, AskClrStall, Start
<1>6. HostInv' /\ PlugInv' /\ FifoInv' /\ ScsiInv' /\ RequestInv' /\ ServedInv'
  BY DEF IInv, HostInv, PlugInv, FifoInv, ScsiInv, RequestInv, ServedInv, AskClrStall, Start
<1> QED BY <1>1, <1>2, <1>3, <1>4, <1>5, <1>6 DEF IInv

\* The end of a control transfer leads on; a disk's leads to no error.
LEMMA ControlDoneStep ==
  ASSUME IInv, at = "msc", at' = "rest", UNCHANGED <<ev, host, enum, tdev, dev, bus>>,
         ControlDone
  PROVE  IInv'
<1>1. Typed'
  BY DEF IInv, Typed, EvTyped, TdevTyped, CepTyped, DevTyped, BusTyped, WaitTyped, MscTyped,
     ControlDone, AfterControl, Restart
<1>2. ControlInv' BY DEF IInv, PipeInv, ControlInv, ControlDone, AfterControl, TdevEps, BulkEps
<1>3. ServedInv' BY DEF IInv, HostInv, ServedInv, ControlDone
<1>4. PipeInv' /\ HostInv' /\ PlugInv' /\ UnansweredInv' /\ FifoInv' /\ EnumInv' /\ ScsiInv' /\
      RequestInv'
  BY DEF IInv, PipeInv, HostInv, PlugInv, UnansweredInv, FifoInv, EnumInv, ScsiInv, RequestInv,
     ControlDone, AfterControl
<1> QED BY <1>1, <1>2, <1>3, <1>4 DEF IInv

\* The device has settled.
LEMMA SettledStep ==
  ASSUME IInv, at = "msc", at' = "rest", UNCHANGED <<ev, host, enum, tdev, dev, bus>>, Settled
  PROVE  IInv'
<1>1. Typed'
  BY DEF IInv, Typed, EvTyped, TdevTyped, CepTyped, DevTyped, BusTyped, WaitTyped, MscTyped,
     Settled
<1>2. PipeInv' /\ HostInv' /\ PlugInv' /\ UnansweredInv' /\ FifoInv' /\ EnumInv' /\ ControlInv'
      /\ ScsiInv' /\ RequestInv' /\ ServedInv'
  BY DEF IInv, PipeInv, HostInv, PlugInv, UnansweredInv, FifoInv, EnumInv, ControlInv, ScsiInv,
     RequestInv, ServedInv, Settled
<1> QED BY <1>1, <1>2 DEF IInv

\* The bulk pipes are opened, idle.
LEMMA ConfigBulkStep ==
  ASSUME IInv, at = "msc", at' = "rest", UNCHANGED <<ev, host, enum, tdev, dev, bus>>, ConfigBulk
  PROVE  IInv'
<1>1. Typed'
  BY DEF IInv, Typed, EvTyped, TdevTyped, CepTyped, DevTyped, BusTyped, WaitTyped, MscTyped,
     ConfigBulk
<1>2. ScsiInv' BY DEF IInv, PlugInv, ScsiInv, ServedInv, ConfigBulk
<1>3. PipeInv' /\ HostInv' /\ PlugInv' /\ UnansweredInv' /\ FifoInv' /\ EnumInv' /\ ControlInv'
      /\ RequestInv' /\ ServedInv'
  BY DEF IInv, PipeInv, HostInv, PlugInv, UnansweredInv, FifoInv, EnumInv, ControlInv,
     RequestInv, ServedInv, ConfigBulk
<1> QED BY <1>1, <1>2, <1>3 DEF IInv

\* A SCSI command goes out.
LEMMA CommandStep ==
  ASSUME IInv, at = "msc", at' = "rest", UNCHANGED <<ev, host, enum, tdev, dev, bus>>, Command
  PROVE  IInv'
<1>1. Typed'
  BY DEF IInv, Typed, EvTyped, TdevTyped, CepTyped, DevTyped, BusTyped, WaitTyped, MscTyped,
     Command, WriteOut
<1>2. PipeInv' /\ HostInv' /\ PlugInv' /\ UnansweredInv' /\ FifoInv' /\ EnumInv' /\ ControlInv'
      /\ ScsiInv' /\ RequestInv' /\ ServedInv'
  BY DEF IInv, PipeInv, HostInv, PlugInv, UnansweredInv, FifoInv, EnumInv, ControlInv, ScsiInv,
     RequestInv, ServedInv, Command, WriteOut
<1> QED BY <1>1, <1>2 DEF IInv

\* The command is out, or an event of the last device's says so: the data is asked for.
LEMMA DataStep ==
  ASSUME IInv, at = "msc", at' = "rest", UNCHANGED <<ev, host, enum, tdev, dev, bus>>, Data
  PROVE  IInv'
<1>1. CASE msc.cmd = "READ_CAPACITY"
  <2>1. Typed'
    BY <1>1 DEF IInv, Typed, EvTyped, TdevTyped, CepTyped, DevTyped, BusTyped, WaitTyped,
       MscTyped, Data, ReadIn
  <2>2. PipeInv' /\ HostInv' /\ PlugInv' /\ UnansweredInv' /\ FifoInv' /\ EnumInv' /\ ControlInv'
        /\ ScsiInv' /\ RequestInv' /\ ServedInv'
    BY <1>1 DEF IInv, PipeInv, HostInv, PlugInv, UnansweredInv, FifoInv, EnumInv, ControlInv,
       ScsiInv, RequestInv, ServedInv, Data, ReadIn, Awaited
  <2> QED BY <2>1, <2>2 DEF IInv
<1>2. CASE msc.cmd # "READ_CAPACITY"
  <2>1. Typed'
    BY <1>2 DEF IInv, Typed, EvTyped, TdevTyped, CepTyped, DevTyped, BusTyped, WaitTyped,
       MscTyped, Data, ReadIn
  <2>2. PipeInv' /\ HostInv' /\ PlugInv' /\ UnansweredInv' /\ FifoInv' /\ EnumInv' /\ ControlInv'
        /\ ScsiInv' /\ RequestInv' /\ ServedInv'
    BY <1>2 DEF IInv, PipeInv, HostInv, PlugInv, UnansweredInv, FifoInv, EnumInv, ControlInv,
       ScsiInv, RequestInv, ServedInv, Data, ReadIn, Awaited
  <2> QED BY <2>1, <2>2 DEF IInv
<1> QED BY <1>1, <1>2

\* The data is in, or the command that has none is out: the status is asked for.
LEMMA StatusStep ==
  ASSUME IInv, at = "msc", at' = "rest", UNCHANGED <<ev, host, enum, tdev, dev, bus>>, Status
  PROVE  IInv'
<1>1. CASE HasData(msc.cmd)
  <2>1. Typed'
    BY <1>1 DEF IInv, Typed, EvTyped, TdevTyped, CepTyped, DevTyped, BusTyped, WaitTyped,
       MscTyped, Status, ReadIn
  <2>2. PipeInv' /\ HostInv' /\ PlugInv' /\ UnansweredInv' /\ FifoInv' /\ EnumInv' /\ ControlInv'
        /\ ScsiInv' /\ RequestInv' /\ ServedInv'
    BY <1>1 DEF IInv, PipeInv, HostInv, PlugInv, UnansweredInv, FifoInv, EnumInv, ControlInv,
       ScsiInv, RequestInv, ServedInv, Status, ReadIn, Awaited
  <2> QED BY <2>1, <2>2 DEF IInv
<1>2. CASE ~HasData(msc.cmd)
  <2>1. Typed'
    BY <1>2 DEF IInv, Typed, EvTyped, TdevTyped, CepTyped, DevTyped, BusTyped, WaitTyped,
       MscTyped, Status, ReadIn
  <2>2. PipeInv' /\ HostInv' /\ PlugInv' /\ UnansweredInv' /\ FifoInv' /\ EnumInv' /\ ControlInv'
        /\ ScsiInv' /\ RequestInv' /\ ServedInv'
    BY <1>2 DEF IInv, PipeInv, HostInv, PlugInv, UnansweredInv, FifoInv, EnumInv, ControlInv,
       ScsiInv, RequestInv, ServedInv, Status, ReadIn, Awaited
  <2> QED BY <2>1, <2>2 DEF IInv
<1> QED BY <1>1, <1>2

\* The status is in: by the command, what follows.
LEMMA CompleteStep ==
  ASSUME IInv, at = "msc", at' = "rest", UNCHANGED <<ev, host, enum, tdev, dev, bus>>, Complete
  PROVE  IInv'
<1>1. msc.state = "SCSI" /\ msc.phase = "W" /\ msc.rx_event = TRUE /\ UNCHANGED <<cep, wait>>
  BY DEF Complete, Awaited, IInv, Typed, MscTyped
<1>2. CASE msc.cmd = "TEST_UNIT_READY"
  <2>1. /\ msc' = [[msc EXCEPT !.rx_event = FALSE, !.phase = "C"]
                  EXCEPT !.cmd = IF msc.csw = "passed" THEN "INQUIRY" ELSE "REQSENSE"]
    BY <1>1, <1>2, Zenon DEF Complete
  <2>2. Typed'
    BY <1>1, <1>2, <2>1 DEF IInv, Typed, EvTyped, TdevTyped, CepTyped, DevTyped, BusTyped,
       WaitTyped, MscTyped
  <2>3. PipeInv' /\ HostInv' /\ PlugInv' /\ UnansweredInv' /\ FifoInv' /\ EnumInv' /\ ControlInv'
        /\ ScsiInv' /\ RequestInv' /\ ServedInv'
    BY <1>1, <1>2, <2>1 DEF IInv, PipeInv, HostInv, PlugInv, UnansweredInv, FifoInv, EnumInv,
       ControlInv, ScsiInv, RequestInv, ServedInv
  <2> QED BY <2>2, <2>3 DEF IInv
<1>3. CASE msc.cmd = "REQSENSE"
  <2>1. /\ msc' = [[msc EXCEPT !.rx_event = FALSE, !.phase = "C"] EXCEPT !.cmd = "TEST_UNIT_READY"]
    BY <1>1, <1>3, Zenon DEF Complete
  <2>2. Typed'
    BY <1>1, <1>3, <2>1 DEF IInv, Typed, EvTyped, TdevTyped, CepTyped, DevTyped, BusTyped,
       WaitTyped, MscTyped
  <2>3. PipeInv' /\ HostInv' /\ PlugInv' /\ UnansweredInv' /\ FifoInv' /\ EnumInv' /\ ControlInv'
        /\ ScsiInv' /\ RequestInv' /\ ServedInv'
    BY <1>1, <1>3, <2>1 DEF IInv, PipeInv, HostInv, PlugInv, UnansweredInv, FifoInv, EnumInv,
       ControlInv, ScsiInv, RequestInv, ServedInv
  <2> QED BY <2>2, <2>3 DEF IInv
<1>4. CASE msc.cmd = "INQUIRY"
  <2>1. /\ msc' = [[msc EXCEPT !.rx_event = FALSE, !.phase = "C"] EXCEPT !.cmd = "READ_CAPACITY"]
    BY <1>1, <1>4, Zenon DEF Complete
  <2>2. Typed'
    BY <1>1, <1>4, <2>1 DEF IInv, Typed, EvTyped, TdevTyped, CepTyped, DevTyped, BusTyped,
       WaitTyped, MscTyped
  <2>3. PipeInv' /\ HostInv' /\ PlugInv' /\ UnansweredInv' /\ FifoInv' /\ EnumInv' /\ ControlInv'
        /\ ScsiInv' /\ RequestInv' /\ ServedInv'
    BY <1>1, <1>4, <2>1 DEF IInv, PipeInv, HostInv, PlugInv, UnansweredInv, FifoInv, EnumInv,
       ControlInv, ScsiInv, RequestInv, ServedInv
  <2> QED BY <2>2, <2>3 DEF IInv
<1>5. CASE msc.cmd = "READ_CAPACITY"
  <2>1. /\ msc' = [[msc EXCEPT !.rx_event = FALSE, !.phase = "C"]
                  EXCEPT !.state = IF msc.cap = 512 THEN "DEVICE_READY" ELSE "ERROR"]
    BY <1>1, <1>5, Zenon DEF Complete
  <2>2. Typed'
    BY <1>1, <1>5, <2>1 DEF IInv, Typed, EvTyped, TdevTyped, CepTyped, DevTyped, BusTyped,
       WaitTyped, MscTyped
  <2>3. ControlInv' BY <1>1, <1>5, <2>1 DEF IInv, ControlInv, ScsiInv
  <2>4. RequestInv' BY <1>1, <1>5, <2>1 DEF IInv, HostInv, ScsiInv, RequestInv
  <2>5. ServedInv' BY <1>1, <1>5, <2>1 DEF IInv, ScsiInv, ServedInv
  <2>6. PipeInv' /\ HostInv' /\ PlugInv' /\ UnansweredInv' /\ FifoInv' /\ EnumInv' /\ ScsiInv'
    BY <1>1, <1>5, <2>1 DEF IInv, PipeInv, HostInv, PlugInv, UnansweredInv, FifoInv, EnumInv,
       ScsiInv
  <2> QED BY <2>2, <2>3, <2>4, <2>5, <2>6 DEF IInv
<1> QED BY <1>1, <1>2, <1>3, <1>4, <1>5 DEF IInv, HostInv

\* The class waits.
LEMMA StaysStep ==
  ASSUME IInv, at = "msc", at' = "rest", UNCHANGED <<ev, host, enum, tdev, dev, bus>>, Stays
  PROVE  IInv'
<1>1. Typed'
  BY DEF IInv, Typed, EvTyped, TdevTyped, CepTyped, DevTyped, BusTyped, WaitTyped, MscTyped,
     Stays
<1>2. PipeInv' /\ HostInv' /\ PlugInv' /\ UnansweredInv' /\ FifoInv' /\ EnumInv' /\ ControlInv'
      /\ ScsiInv' /\ RequestInv' /\ ServedInv'
  BY DEF IInv, PipeInv, HostInv, PlugInv, UnansweredInv, FifoInv, EnumInv, ControlInv, ScsiInv,
     RequestInv, ServedInv, Stays
<1> QED BY <1>1, <1>2 DEF IInv

---------------------------------------------------------------------------

(* The class: reads and writes.                                             *)

\* A request of the application's puts its command on the pipe out, both pipes being idle.
LEMMA ReadOrWriteStep ==
  ASSUME IInv, ReadOrWrite
  PROVE  IInv'
<1>1. Typed'
  BY DEF IInv, Typed, EvTyped, TdevTyped, CepTyped, DevTyped, BusTyped, WaitTyped, MscTyped,
     ReadOrWrite, WriteOut
<1>2. PipeInv' /\ HostInv' /\ PlugInv' /\ UnansweredInv' /\ FifoInv' /\ EnumInv' /\ ControlInv'
      /\ ScsiInv' /\ RequestInv' /\ ServedInv'
  BY DEF IInv, PipeInv, HostInv, PlugInv, UnansweredInv, FifoInv, EnumInv, ControlInv, ScsiInv,
     RequestInv, ServedInv, ReadOrWrite, WriteOut
<1> QED BY <1>1, <1>2 DEF IInv

\* The status phase is tried again.
LEMMA BotRetryStep ==
  ASSUME IInv, at = "msc", at' = "rest", UNCHANGED <<ev, host, enum, tdev, dev, bus>>, BotRetry
  PROVE  IInv'
<1>1. Typed'
  BY DEF IInv, Typed, EvTyped, TdevTyped, CepTyped, DevTyped, BusTyped, WaitTyped, MscTyped,
     BotRetry, Restart, ReadIn
<1>2. PipeInv' /\ HostInv' /\ PlugInv' /\ UnansweredInv' /\ FifoInv' /\ EnumInv' /\ ControlInv'
      /\ ScsiInv' /\ RequestInv' /\ ServedInv'
  BY DEF IInv, PipeInv, HostInv, PlugInv, UnansweredInv, FifoInv, EnumInv, ControlInv, ScsiInv,
     RequestInv, ServedInv, BotRetry, ReadIn
<1> QED BY <1>1, <1>2 DEF IInv

\* A transfer to the device has ended: the next stage of a request begins, the time-out of
\* one is kept for the task, and the set-up has its event.
LEMMA OutDoneStep ==
  ASSUME IInv, OutDone
  PROVE  IInv'
<1>1. PICK e \in Ends("out") :
        /\ dev' = IF e = "nak_tout" THEN [dev EXCEPT !.nak = TRUE] ELSE dev
        /\ msc' = TxComplete([msc EXCEPT !.out = "idle",
                                         !.target = IF e = "ok" THEN AfterOut ELSE @], e)
  BY DEF OutDone
<1>2. /\ msc.state \in Piping /\ msc.out \in {"cbw", "data"}
      /\ UNCHANGED <<at, ev, host, enum, tdev, cep, bus, wait>>
  BY DEF OutDone, IInv, Typed, MscTyped, HostInv
<1>3. /\ e \in {"ok", "no_response", "nak_tout"} /\ (e = "nak_tout" => Ready)
      /\ e = "no_response" <=> ~Present
  BY <1>1, <1>2, EndsOfPresent
<1>4. DevTyped' /\ dev'.kind = dev.kind /\ dev'.addr = dev.addr /\ dev'.plugs = dev.plugs
  <2>1. CASE e = "nak_tout" BY <1>1, <2>1 DEF IInv, Typed, DevTyped
  <2>2. CASE e # "nak_tout" BY <1>1, <2>2 DEF IInv, Typed, DevTyped
  <2> QED BY <2>1, <2>2
<1> DEFINE m(t) == [msc EXCEPT !.out = "idle", !.target = t]
<1>5. CASE e # "ok" /\ ~Ready
  <2>1. msc' = [m(msc.target) EXCEPT !.tx_event = TRUE] BY <1>1, <1>5 DEF TxComplete
  <2>2. Typed'
    BY <1>2, <1>3, <1>4, <1>5, <2>1 DEF IInv, Typed, EvTyped, TdevTyped, CepTyped, BusTyped,
       WaitTyped, MscTyped
  <2>3. PlugInv' BY <1>2, <1>3, <1>4, <1>5, <2>1 DEF IInv, HostInv, PlugInv, UnansweredInv
  <2>4. PipeInv' /\ HostInv' /\ UnansweredInv' /\ FifoInv' /\ EnumInv' /\ ControlInv' /\ ScsiInv'
        /\ RequestInv' /\ ServedInv'
    BY <1>2, <1>3, <1>4, <1>5, <2>1 DEF IInv, PipeInv, HostInv, UnansweredInv, FifoInv, EnumInv,
       ControlInv, ScsiInv, RequestInv, ServedInv
  <2> QED BY <2>2, <2>3, <2>4 DEF IInv
<1>6. CASE e # "ok" /\ Ready
  <2>1. msc' = [m(msc.target) EXCEPT !.state = "BOT_RETRY"] BY <1>1, <1>6 DEF TxComplete
  <2>2. Typed'
    BY <1>2, <1>3, <1>4, <1>6, <2>1 DEF IInv, Typed, EvTyped, TdevTyped, CepTyped, BusTyped,
       WaitTyped, MscTyped
  <2>3. RequestInv'
    BY <1>2, <1>3, <1>4, <1>6, <2>1 DEF IInv, Typed, MscTyped, RequestInv, ServedInv
  <2>4. PipeInv' /\ HostInv' /\ PlugInv' /\ UnansweredInv' /\ FifoInv' /\ EnumInv' /\ ControlInv'
        /\ ScsiInv' /\ ServedInv'
    BY <1>2, <1>3, <1>4, <1>6, <2>1 DEF IInv, PipeInv, HostInv, PlugInv, UnansweredInv, FifoInv,
       EnumInv, ControlInv, ScsiInv, ServedInv
  <2> QED BY <2>2, <2>3, <2>4 DEF IInv
<1>7. CASE e = "ok" /\ ~Ready
  <2>1. AfterOut = IF HasData(msc.cmd) THEN "data_in" ELSE "csw"
    BY <1>2, <1>3, <1>7 DEF AfterOut, IInv, HostInv, ScsiInv
  <2>2. msc' = [m(AfterOut) EXCEPT !.tx_event = TRUE] BY <1>1, <1>7 DEF TxComplete
  <2>3. Typed'
    BY <1>2, <1>3, <1>4, <1>7, <2>1, <2>2 DEF IInv, Typed, EvTyped, TdevTyped, CepTyped,
       BusTyped, WaitTyped, MscTyped
  <2>4. PipeInv' /\ HostInv' /\ PlugInv' /\ UnansweredInv' /\ FifoInv' /\ EnumInv' /\ ControlInv'
        /\ ScsiInv' /\ RequestInv' /\ ServedInv'
    BY <1>2, <1>3, <1>4, <1>7, <2>1, <2>2 DEF IInv, PipeInv, HostInv, PlugInv, UnansweredInv,
       FifoInv, EnumInv, ControlInv, ScsiInv, RequestInv, ServedInv
  <2> QED BY <2>3, <2>4 DEF IInv
<1>8. CASE e = "ok" /\ Ready
  <2>1. msc.state = "DEVICE_READY" /\ msc.st = TRUE
    BY <1>2, <1>3, <1>8 DEF IInv, RequestInv, ServedInv, Typed, MscTyped
  <2>2. CASE msc.bot = "COMMAND" /\ WritesData(msc.cmd)
    <3>1. AfterOut = "data_out" BY <1>8, <2>1, <2>2, <1>3 DEF AfterOut, IInv, RequestInv
    <3>2. msc' = [m(AfterOut) EXCEPT !.bot = "DATA", !.out = "data"]
      BY <1>1, <1>8, <2>2 DEF TxComplete, WriteOut
    <3>3. Typed'
      BY <1>2, <1>3, <1>4, <1>8, <2>1, <2>2, <3>1, <3>2 DEF IInv, Typed, EvTyped, TdevTyped,
         CepTyped, BusTyped, WaitTyped, MscTyped
    <3>4. PipeInv' /\ HostInv' /\ PlugInv' /\ UnansweredInv' /\ FifoInv' /\ EnumInv' /\
          ControlInv' /\ ScsiInv' /\ RequestInv' /\ ServedInv'
      BY <1>2, <1>3, <1>4, <1>8, <2>1, <2>2, <3>1, <3>2 DEF IInv, PipeInv, HostInv, PlugInv,
         UnansweredInv, FifoInv, EnumInv, ControlInv, ScsiInv, RequestInv, ServedInv
    <3> QED BY <3>3, <3>4 DEF IInv
  <2>3. CASE msc.bot = "COMMAND" /\ ~WritesData(msc.cmd)
    <3>1. AfterOut = "data_in" BY <1>8, <2>1, <2>3, <1>3 DEF AfterOut, IInv, RequestInv
    <3>2. msc' = [m(AfterOut) EXCEPT !.bot = "DATA", !.in = "data"]
      BY <1>1, <1>8, <2>3 DEF TxComplete, ReadIn
    <3>3. Typed'
      BY <1>2, <1>3, <1>4, <1>8, <2>1, <2>3, <3>1, <3>2 DEF IInv, Typed, EvTyped, TdevTyped,
         CepTyped, BusTyped, WaitTyped, MscTyped
    <3>4. PipeInv' /\ HostInv' /\ PlugInv' /\ UnansweredInv' /\ FifoInv' /\ EnumInv' /\
          ControlInv' /\ ScsiInv' /\ RequestInv' /\ ServedInv'
      BY <1>2, <1>3, <1>4, <1>8, <2>1, <2>3, <3>1, <3>2 DEF IInv, PipeInv, HostInv, PlugInv,
         UnansweredInv, FifoInv, EnumInv, ControlInv, ScsiInv, RequestInv, ServedInv
    <3> QED BY <3>3, <3>4 DEF IInv
  <2>4. CASE msc.bot = "DATA"
    <3>1. AfterOut = "csw" BY <1>8, <2>1, <2>4, <1>3, <1>2 DEF AfterOut, IInv, RequestInv
    <3>2. msc' = [m(AfterOut) EXCEPT !.bot = "STATUS", !.in = "csw"]
      BY <1>1, <1>8, <2>4 DEF TxComplete, ReadIn
    <3>3. Typed'
      BY <1>2, <1>3, <1>4, <1>8, <2>1, <2>4, <3>1, <3>2 DEF IInv, Typed, EvTyped, TdevTyped,
         CepTyped, BusTyped, WaitTyped, MscTyped
    <3>4. PipeInv' /\ HostInv' /\ PlugInv' /\ UnansweredInv' /\ FifoInv' /\ EnumInv' /\
          ControlInv' /\ ScsiInv' /\ RequestInv' /\ ServedInv'
      BY <1>2, <1>3, <1>4, <1>8, <2>1, <2>4, <3>1, <3>2 DEF IInv, PipeInv, HostInv, PlugInv,
         UnansweredInv, FifoInv, EnumInv, ControlInv, ScsiInv, RequestInv, ServedInv
    <3> QED BY <3>3, <3>4 DEF IInv
  <2> QED BY <1>2, <1>3, <1>8, <2>1, <2>2, <2>3, <2>4 DEF IInv, RequestInv, Typed, MscTyped
<1> QED BY <1>5, <1>6, <1>7, <1>8

\* A transfer from the device has ended, with what it had to say.
LEMMA InDoneStep ==
  ASSUME IInv, InDone
  PROVE  IInv'
<1>1. PICK e \in Ends("in") :
        /\ e = "ok" => msc.target \in {"data_in", "csw"}
        /\ dev' = CASE e = "nak_tout" -> [dev EXCEPT !.nak = TRUE]
                    [] e = "ok" /\ msc.cmd = "REQSENSE" -> [dev EXCEPT !.ready = TRUE]
                    [] OTHER -> dev
        /\ msc' = RxCb([(IF e = "ok" THEN Said(msc) ELSE msc) EXCEPT !.in = "idle"], e)
  BY DEF InDone
<1>2. /\ msc.state \in Piping /\ msc.in \in {"data", "csw"}
      /\ UNCHANGED <<at, ev, host, enum, tdev, cep, bus, wait>>
  BY DEF InDone, IInv, Typed, MscTyped, HostInv
<1>3. /\ e \in {"ok", "no_response", "nak_tout"} /\ (e = "nak_tout" => Ready)
      /\ e = "no_response" <=> ~Present
      /\ e = "ok" => msc.target \in {"data_in", "csw"}
  BY <1>1, <1>2, EndsOfPresent
<1>4. DevTyped' /\ dev'.kind = dev.kind /\ dev'.addr = dev.addr /\ dev'.plugs = dev.plugs
  <2>1. CASE e = "nak_tout"
    <3>1. dev' = [dev EXCEPT !.nak = TRUE] BY <1>1, <2>1
    <3> QED BY <3>1 DEF IInv, Typed, DevTyped
  <2>2. CASE e = "ok" /\ msc.cmd = "REQSENSE"
    <3>1. dev' = [dev EXCEPT !.ready = TRUE] BY <1>1, <2>2
    <3> QED BY <3>1 DEF IInv, Typed, DevTyped
  <2>3. CASE e # "nak_tout" /\ ~(e = "ok" /\ msc.cmd = "REQSENSE")
    <3>1. dev' = dev BY <1>1, <2>3
    <3> QED BY <3>1 DEF IInv, Typed, DevTyped
  <2> QED BY <2>1, <2>2, <2>3
<1>5. CASE e # "ok" /\ ~Ready
  <2>1. msc' = [[msc EXCEPT !.in = "idle"] EXCEPT !.rx_event = TRUE] BY <1>1, <1>5 DEF RxCb
  <2>2. Typed'
    BY <1>2, <1>3, <1>4, <1>5, <2>1 DEF IInv, Typed, EvTyped, TdevTyped, CepTyped, BusTyped,
       WaitTyped, MscTyped
  <2>3. PipeInv' /\ HostInv' /\ PlugInv' /\ UnansweredInv' /\ FifoInv' /\ EnumInv' /\ ControlInv'
        /\ ScsiInv' /\ RequestInv' /\ ServedInv'
    BY <1>2, <1>3, <1>4, <1>5, <2>1 DEF IInv, PipeInv, HostInv, PlugInv, UnansweredInv, FifoInv,
       EnumInv, ControlInv, ScsiInv, RequestInv, ServedInv
  <2> QED BY <2>2, <2>3 DEF IInv
<1>6. CASE e # "ok" /\ Ready
  <2>1. msc' = [[msc EXCEPT !.in = "idle"] EXCEPT !.state = "BOT_RETRY"] BY <1>1, <1>6 DEF RxCb
  <2>2. Typed'
    BY <1>2, <1>3, <1>4, <1>6, <2>1 DEF IInv, Typed, EvTyped, TdevTyped, CepTyped, BusTyped,
       WaitTyped, MscTyped
  <2>3. RequestInv'
    BY <1>2, <1>3, <1>4, <1>6, <2>1 DEF IInv, Typed, MscTyped, RequestInv, ServedInv
  <2>4. PipeInv' /\ HostInv' /\ PlugInv' /\ UnansweredInv' /\ FifoInv' /\ EnumInv' /\ ControlInv'
        /\ ScsiInv' /\ ServedInv'
    BY <1>2, <1>3, <1>4, <1>6, <2>1 DEF IInv, PipeInv, HostInv, PlugInv, UnansweredInv, FifoInv,
       EnumInv, ControlInv, ScsiInv, ServedInv
  <2> QED BY <2>2, <2>3, <2>4 DEF IInv
<1> DEFINE Csw == IF msc.cmd = "TEST_UNIT_READY" /\ ~dev.ready THEN "failed" ELSE "passed"
           Cap == IF dev.kind = "odd" THEN 2048 ELSE 512
           Ended == [msc EXCEPT !.target = "cbw", !.csw = Csw]
           Capped == [msc EXCEPT !.target = "csw", !.cap = Cap]
           Sent == [msc EXCEPT !.target = "csw"]
<1>7. CASE e = "ok" /\ ~Ready
  <2>0. RxCb([Said(msc) EXCEPT !.in = "idle"], e)
          = [[Said(msc) EXCEPT !.in = "idle"] EXCEPT !.rx_event = TRUE]
    BY <1>7 DEF RxCb
  <2>1. CASE msc.target = "csw"
    <3>1. Said(msc) = Ended BY <2>1, Zenon DEF Said
    <3>2. msc' = [[Ended EXCEPT !.in = "idle"] EXCEPT !.rx_event = TRUE]
      BY <1>1, <1>7, <2>0, <3>1
    <3>3. Typed'
      BY <1>2, <1>3, <1>4, <1>7, <2>1, <3>2 DEF IInv, Typed, EvTyped, TdevTyped, CepTyped,
         BusTyped, WaitTyped, MscTyped
    <3>4. PipeInv' /\ HostInv' /\ PlugInv' /\ UnansweredInv' /\ FifoInv' /\ EnumInv' /\
          ControlInv' /\ ScsiInv' /\ RequestInv' /\ ServedInv'
      BY <1>2, <1>3, <1>4, <1>7, <2>1, <3>2 DEF IInv, PipeInv, HostInv, PlugInv, UnansweredInv,
         FifoInv, EnumInv, ControlInv, ScsiInv, RequestInv, ServedInv
    <3> QED BY <3>3, <3>4 DEF IInv
  <2>2. CASE msc.target # "csw" /\ msc.cmd = "READ_CAPACITY"
    <3>1. Said(msc) = Capped BY <2>2, Zenon DEF Said
    <3>2. msc' = [[Capped EXCEPT !.in = "idle"] EXCEPT !.rx_event = TRUE]
      BY <1>1, <1>7, <2>0, <3>1
    <3>3. Typed'
      BY <1>2, <1>3, <1>4, <1>7, <2>2, <3>2 DEF IInv, Typed, EvTyped, TdevTyped, CepTyped,
         BusTyped, WaitTyped, MscTyped
    <3>4. PipeInv' /\ HostInv' /\ PlugInv' /\ UnansweredInv' /\ FifoInv' /\ EnumInv' /\
          ControlInv' /\ ScsiInv' /\ RequestInv' /\ ServedInv'
      BY <1>2, <1>3, <1>4, <1>7, <2>2, <3>2 DEF IInv, PipeInv, HostInv, PlugInv, UnansweredInv,
         FifoInv, EnumInv, ControlInv, ScsiInv, RequestInv, ServedInv
    <3> QED BY <3>3, <3>4 DEF IInv
  <2>3. CASE msc.target # "csw" /\ msc.cmd # "READ_CAPACITY"
    <3>1. Said(msc) = Sent BY <2>3, Zenon DEF Said
    <3>2. msc' = [[Sent EXCEPT !.in = "idle"] EXCEPT !.rx_event = TRUE]
      BY <1>1, <1>7, <2>0, <3>1
    <3>3. Typed'
      BY <1>2, <1>3, <1>4, <1>7, <2>3, <3>2 DEF IInv, Typed, EvTyped, TdevTyped, CepTyped,
         BusTyped, WaitTyped, MscTyped
    <3>4. PipeInv' /\ HostInv' /\ PlugInv' /\ UnansweredInv' /\ FifoInv' /\ EnumInv' /\
          ControlInv' /\ ScsiInv' /\ RequestInv' /\ ServedInv'
      BY <1>2, <1>3, <1>4, <1>7, <2>3, <3>2 DEF IInv, PipeInv, HostInv, PlugInv, UnansweredInv,
         FifoInv, EnumInv, ControlInv, ScsiInv, RequestInv, ServedInv
    <3> QED BY <3>3, <3>4 DEF IInv
  <2> QED BY <2>1, <2>2, <2>3
<1>8. CASE e = "ok" /\ Ready
  <2>1. /\ msc.state = "DEVICE_READY" /\ msc.st = TRUE
        /\ \/ msc.bot = "STATUS" /\ msc.target = "csw"
           \/ msc.bot = "DATA" /\ msc.target = "data_in" /\ msc.cmd = "READ_10"
    BY <1>2, <1>3, <1>8 DEF IInv, RequestInv, ServedInv, Typed, MscTyped
  <2>2. CASE msc.bot = "STATUS" /\ msc.target = "csw"
    <3>1. Said(msc) = Ended BY <2>2, Zenon DEF Said
    <3>2. msc' = [[Ended EXCEPT !.in = "idle"]
                   EXCEPT !.rx_event = FALSE, !.st = FALSE, !.bot = "IDLE"]
      <4>1. Ended.bot = "STATUS" /\ DOMAIN Ended = DOMAIN msc BY <2>2 DEF IInv, Typed, MscTyped
      <4>2. [Ended EXCEPT !.in = "idle"].bot = "STATUS" BY <4>1
      <4> QED BY <1>1, <1>8, <2>2, <3>1, <4>2 DEF RxCb
    <3>3. Typed'
      BY <1>2, <1>3, <1>4, <1>8, <2>1, <2>2, <3>2 DEF IInv, Typed, EvTyped, TdevTyped, CepTyped,
         BusTyped, WaitTyped, MscTyped
    <3>4. PipeInv' /\ HostInv' /\ PlugInv' /\ UnansweredInv' /\ FifoInv' /\ EnumInv' /\
          ControlInv' /\ ScsiInv' /\ RequestInv' /\ ServedInv'
      BY <1>2, <1>3, <1>4, <1>8, <2>1, <2>2, <3>2 DEF IInv, PipeInv, HostInv, PlugInv,
         UnansweredInv, FifoInv, EnumInv, ControlInv, ScsiInv, RequestInv, ServedInv
    <3> QED BY <3>3, <3>4 DEF IInv
  <2>3. CASE msc.bot = "DATA" /\ msc.target = "data_in" /\ msc.cmd = "READ_10"
    <3>1. Said(msc) = Sent BY <2>3, Zenon DEF Said
    <3>2. msc' = [[Sent EXCEPT !.in = "idle"] EXCEPT !.bot = "STATUS", !.in = "csw"]
      <4>1. Sent.bot = "DATA" /\ DOMAIN Sent = DOMAIN msc BY <2>3 DEF IInv, Typed, MscTyped
      <4>2. [Sent EXCEPT !.in = "idle"].bot = "DATA" BY <4>1
      <4> QED BY <1>1, <1>8, <2>3, <3>1, <4>2 DEF RxCb, ReadIn
    <3>3. Typed'
      BY <1>2, <1>3, <1>4, <1>8, <2>1, <2>3, <3>2 DEF IInv, Typed, EvTyped, TdevTyped, CepTyped,
         BusTyped, WaitTyped, MscTyped
    <3>4. PipeInv' /\ HostInv' /\ PlugInv' /\ UnansweredInv' /\ FifoInv' /\ EnumInv' /\
          ControlInv' /\ ScsiInv' /\ RequestInv' /\ ServedInv'
      BY <1>2, <1>3, <1>4, <1>8, <2>1, <2>3, <3>2 DEF IInv, PipeInv, HostInv, PlugInv,
         UnansweredInv, FifoInv, EnumInv, ControlInv, ScsiInv, RequestInv, ServedInv
    <3> QED BY <3>3, <3>4 DEF IInv
  <2> QED BY <2>1, <2>2, <2>3
<1> QED BY <1>5, <1>6, <1>7, <1>8

---------------------------------------------------------------------------
(* Every step keeps the invariant.                                          *)

LEMMA EnumFsmStep ==
  ASSUME IInv, EnumFsm
  PROVE  IInv'
BY EnumAskStep, EnumAnsweredStep, EnumResetStep, EnumClrResetStep, EnumCheckClassStep,
   EnumWaitsStep, Zenon DEF EnumFsm

LEMMA HostFsmStep ==
  ASSUME IInv, HostFsm
  PROVE  IInv'
BY HandleDisconStep, HostIdleStep, HostDetectedStep, HostResetingStep, HostEnumeratingStep,
   HostAllocateStep, HostErrorStep, HostServicingStep, Zenon DEF HostFsm

LEMMA MscTaskStep ==
  ASSUME IInv, MscTask
  PROVE  IInv'
BY AllocatedStep, AskClassStep, AskConfigStep, AskMaxLunStep, AskClrStallStep,
   ControlDoneStep, SettledStep, ConfigBulkStep, CommandStep, DataStep, StatusStep,
   CompleteStep, BotRetryStep, StaysStep, Zenon DEF MscTask

LEMMA StutterStep ==
  ASSUME IInv, UNCHANGED hostVars
  PROVE  IInv'
<1>1. /\ at' = at /\ ev' = ev /\ host' = host /\ enum' = enum /\ tdev' = tdev
      /\ cep' = cep /\ dev' = dev /\ bus' = bus /\ wait' = wait /\ msc' = msc
  BY DEF hostVars
<1>2. Typed'
  BY <1>1 DEF IInv, Typed, EvTyped, TdevTyped, CepTyped, DevTyped, BusTyped, WaitTyped, MscTyped
<1>3. PipeInv' /\ HostInv' /\ PlugInv' BY <1>1 DEF IInv, PipeInv, HostInv, PlugInv
<1>4. UnansweredInv' /\ FifoInv' /\ EnumInv' BY <1>1 DEF IInv, UnansweredInv, FifoInv, EnumInv
<1>5. ControlInv' BY <1>1 DEF IInv, ControlInv
<1>6. ScsiInv' BY <1>1 DEF IInv, ScsiInv
<1>7. RequestInv' /\ ServedInv' BY <1>1 DEF IInv, RequestInv, ServedInv
<1> QED BY <1>2, <1>3, <1>4, <1>5, <1>6, <1>7 DEF IInv

LEMMA InitInvariant == Init => IInv
<1> SUFFICES ASSUME Init PROVE IInv OBVIOUS
<1> USE DEF Init, HostInit, NoDesc
<1>1. Typed
  BY DEF Typed, EvTyped, TdevTyped, CepTyped, DevTyped, BusTyped, WaitTyped, MscTyped, Longest
<1>2. PipeInv /\ HostInv /\ PlugInv BY DEF PipeInv, HostInv, PlugInv
<1>3. UnansweredInv /\ FifoInv /\ EnumInv BY DEF UnansweredInv, FifoInv, EnumInv
<1>4. ControlInv /\ ScsiInv BY DEF ControlInv, ScsiInv
<1>5. RequestInv /\ ServedInv BY DEF RequestInv, ServedInv
<1> QED BY <1>1, <1>2, <1>3, <1>4, <1>5 DEF IInv

LEMMA NextInvariant ==
  ASSUME Punctual
  PROVE  IInv /\ [Next]_hostVars => IInv'
<1> SUFFICES ASSUME IInv, [Next]_hostVars PROVE IInv' OBVIOUS
<1>1. CASE Task
  BY <1>1, ControlXfrFsmStep, EnumFsmStep, HostFsmStep, MscTaskStep, AgainStep, Zenon DEF Task
<1>2. CASE Tick \/ ReadOrWrite \/ Suspend \/ Resume
  BY <1>2, TickStep, ReadOrWriteStep, SuspendStep, ResumeStep, Zenon
<1>3. CASE CepIrq \/ OutDone \/ InDone BY <1>3, CepIrqStep, OutDoneStep, InDoneStep, Zenon
<1>4. CASE \E kind \in Kinds : Plug(kind) BY <1>4, PlugStep, Zenon
<1>5. CASE Unplug BY <1>5, UnplugStep, Zenon
<1>6. CASE UNCHANGED hostVars BY <1>6, StutterStep, Zenon
<1> QED BY <1>1, <1>2, <1>3, <1>4, <1>5, <1>6, Zenon DEF Next

---------------------------------------------------------------------------
(* What a device and the user may rely on.                                  *)

\* The inductive invariant of the host stack and the class, however many devices come and
\* go, and at whatever moment: for every set of devices and length of the waits, as long as
\* the application calls the tasks in time (Punctual).
THEOREM HostInvariantHolds ==
  ASSUME Punctual
  PROVE  Spec => []IInv
<1>1. Init => IInv BY InitInvariant
<1>2. IInv /\ [Next]_hostVars => IInv' BY NextInvariant
<1> QED BY <1>1, <1>2, PTL DEF Spec

\* Until a device has been replaced, the class asks it for data or for a status only when
\* that is what it has to send (mss_usb_host_msc.c:388-633, 1123-1180), though
\* READ_CAPACITY leaves the event of its command behind (ScsiInv).
THEOREM SpeaksInTurnHolds ==
  ASSUME Punctual
  PROVE  Spec => []SpeaksInTurn
<1>1. IInv => SpeaksInTurn
  <2> SUFFICES ASSUME IInv, Here, dev.plugs = 1
               PROVE  /\ msc.in = "data" => msc.target = "data_in"
                      /\ msc.in = "csw" => msc.target = "csw"
    BY DEF SpeaksInTurn
  <2>1. CASE ~Present
    BY <2>1 DEF IInv, PlugInv, HostInv, UnansweredInv, Typed, DevTyped, MscTyped
  <2>2. CASE Present /\ msc.state = "SCSI"
    BY <2>2 DEF IInv, ScsiInv, HostInv, Typed, MscTyped
  <2>3. CASE Present /\ msc.state \in {"DEVICE_READY", "BOT_RETRY"}
    BY <2>3 DEF IInv, RequestInv, Typed, MscTyped
  <2>4. CASE Present /\ msc.state \notin {"SCSI", "DEVICE_READY", "BOT_RETRY"}
    BY <2>4 DEF IInv, ServedInv, HostInv, Typed, MscTyped
  <2> QED BY <2>1, <2>2, <2>3, <2>4
<1>2. Spec => []IInv BY HostInvariantHolds
<1> QED BY <1>1, <1>2, PTL

\* A disk is not refused, by the enumeration or by the class (mss_usb_host.c:1049,
\* mss_usb_host_msc.c:221), at whatever moment it is plugged in.
THEOREM DiskNotRefusedHolds ==
  ASSUME Punctual
  PROVE  Spec => []DiskNotRefused
<1>1. IInv => DiskNotRefused
  <2> SUFFICES ASSUME IInv, dev.kind = "disk", ~ev.discon
               PROVE  msc.state # "ERROR" /\ tdev.told # dev.plugs
    BY DEF DiskNotRefused
  <2>1. CASE Present
    BY <2>1 DEF IInv, ControlInv, ServedInv, HostInv, Typed, TdevTyped, DevTyped
  <2>2. CASE ~Present
    BY <2>2 DEF IInv, PlugInv, UnansweredInv, HostInv, Typed, TdevTyped, DevTyped
  <2> QED BY <2>1, <2>2
<1>2. Spec => []IInv BY HostInvariantHolds
<1> QED BY <1>1, <1>2, PTL

=============================================================================
