------------------------------ MODULE UsbHost ------------------------------
(***************************************************************************)
(* The USB host stack: the control pipe, the enumeration of the device that *)
(* is plugged in and the allocation of the class driver to it               *)
(* (drivers/mss_usb/mss_usb_host.c, mss_usb_host_cif.c, and the host half of *)
(* the interrupt handler in mss_usb_common_cif.c).  The application calls    *)
(* MSS_USBH_task and then MSS_USBH_MSC_task, over and over; each state       *)
(* machine is one action, and the interrupts come between them.              *)
(*                                                                          *)
(* Times are scaled: Short stands for the 20 ms of a bus reset, and the      *)
(* waits of 40, 60, 100 and 1000 ms for 2, 3, 5 and 5 times that.            *)
(***************************************************************************)
EXTENDS Naturals

CONSTANTS
  Kinds,     \* devices the user may plug in
  MaxPlugs,  \* bound on the devices plugged in
  Short,     \* ticks of the shortest wait
  Env        \* what the environment does besides: see EnvKinds

\* "early": the state machines may run before a transaction has ended; "lag": two
\* ticks may pass between two runs; "stale": a device may be plugged in while the
\* class still has an event of the last one; "nak": a bulk transfer may time out in
\* the command and data phases also, not only in the status phase; "wake": the
\* application may resume a bus that is not suspended.
EnvKinds == {"early", "lag", "stale", "nak", "wake"}

\* A disk; one at full speed; one with sectors that are not of 512 bytes; a hub;
\* one that asks for too much power; the compliance device.
AllKinds == {"disk", "slow", "odd", "hub", "greedy", "pet"}

ASSUME UsbHostAssumption ==
  /\ Kinds \subseteq AllKinds /\ Env \subseteq EnvKinds
  /\ MaxPlugs \in Nat /\ Short \in Nat \ {0}

VARIABLES
  at,    \* the state machine that runs next; "rest": the application's own part
  ev,    \* gh_tdev_connect_event, gh_tdev_discon_event and gh_cep_cb_event
  host,  \* g_host_state
  enum,  \* g_enum_state
  tdev,  \* g_tdev[TDEV_R]: addr, speed, state; owned, it has a class_handle;
         \* alloc_state; the descriptors read; num, the device it is about; told, the
         \* last one that the user was told is not supported
  cep,   \* the control pipe: state, req, data (there is a data stage), result
         \* (g_cep_xfr_result), addr (of the target), the token on the bus, and the
         \* device whose data the FIFO holds
  dev,   \* the device: kind ("none": nothing is plugged in), addr, plugs (their
         \* number so far), ready (its medium), nak (it has let a transfer time out)
  bus,   \* reset: the bus is held in reset; suspended: no transaction is started on it
  wait,  \* ticks since reset_milis of each state machine, wait_mili and first_mili
  msc    \* the class driver; see UsbHostMsc

hostVars == <<at, ev, host, enum, tdev, cep, dev, bus, wait, msc>>

Errors == {"nak_tout", "no_response", "stall_rcvd"}
Longest == 5 * Short
Waiters == {"host", "enum", "settle", "retry"}
Restart(w) == [wait EXCEPT ![w] = 0]

NoAddr == 2  \* of a device that has not been reset yet, and does not answer
NoDesc == [dev |-> "none", conf |-> "none"]

---------------------------------------------------------------------------
(* What the class driver does when it is called.                            *)

\* usbh_msc_allocate_cb
Allocate == msc' = [msc EXCEPT !.addr = tdev.addr, !.alloc = TRUE]

\* usbh_msc_cep_done_cb
CepDoneCb(result) == msc' = [msc EXCEPT !.cep_event = result]

\* usbh_msc_release_cb.  The events are left as they are.
Released == [msc EXCEPT !.state = "IDLE", !.bot = "IDLE", !.addr = 0, !.conf = "none",
                        !.st = FALSE, !.out = "off", !.in = "off",
                        !.csw = "passed", !.cap = 0]

---------------------------------------------------------------------------
(* The control pipe.                                                        *)

\* MSS_USBH_CIF_cep_configure: what the controller was given is withdrawn.
CepConfigured(c) == [c EXCEPT !.token = "none"]

\* MSS_USBH_configure_control_pipe
Configured(c, addr) == CepConfigured([c EXCEPT !.state = "IDLE", !.addr = addr])

\* MSS_USBH_start_control_xfr.  All its users read, or write no data.
Start(c, req, data) ==
  [c EXCEPT !.state = "SETUP", !.req = req, !.data = data, !.result = "none",
            !.token = "setup"]

\* The end of a transfer, told to the enumeration or to the class.
Told(c, result) ==
  IF tdev.owned
  THEN /\ cep' = [c EXCEPT !.state = "IDLE"]
       /\ CepDoneCb(result)
  ELSE /\ cep' = [c EXCEPT !.result = result]
       /\ UNCHANGED msc

\* A device answers with all the data it is asked for, so that one packet does.
Expected == cep.state \in {"RX", "STATUS_AFTER_IN", "STATUS_AFTER_OUT"}

\* MSS_USBH_CIF_cep_read_pkt: the data goes where the request said.
ReadPkt ==
  /\ tdev' = CASE cep.req \in {"GetDef", "GetFul"} -> [tdev EXCEPT !.desc.dev = cep.fifo]
               [] cep.req \in {"GetConf", "GetFulConf"} -> [tdev EXCEPT !.desc.conf = cep.fifo]
               [] OTHER -> tdev
  /\ msc' = IF cep.req = "GetClass" THEN [msc EXCEPT !.conf = cep.fifo] ELSE msc

\* mss_usbh_control_xfr_fsm.  Without an event a state other than SETUP gives way
\* to VALID, the state 0, where an assertion fails.
ControlXfrFsm ==
  /\ at = "cep" /\ at' = "enum"
  /\ Expected /\ "early" \notin Env => ev.cep # "none"
  /\ ev' = [ev EXCEPT !.cep = "none"]
  /\ \/ /\ \/ cep.state \in {"IDLE", "VALID"}
           \/ cep.state = "SETUP" /\ ev.cep = "none"
        /\ UNCHANGED <<cep, tdev, msc>>
     \/ /\ cep.state = "SETUP" /\ ev.cep = "ok"
        /\ cep' = IF cep.data THEN [cep EXCEPT !.state = "RX", !.token = "in"]
                  ELSE [cep EXCEPT !.state = "STATUS_AFTER_OUT", !.token = "status"]
        /\ UNCHANGED <<tdev, msc>>
     \/ /\ cep.state = "RX" /\ ev.cep = "ok"
        /\ ReadPkt
        /\ cep' = [cep EXCEPT !.state = "STATUS_AFTER_IN", !.token = "status"]
     \/ /\ cep.state \in {"STATUS_AFTER_IN", "STATUS_AFTER_OUT"} /\ ev.cep = "ok"
        /\ Told([cep EXCEPT !.state = "IDLE"], "ok")
        /\ UNCHANGED tdev
     \/ /\ \/ cep.state = "SETUP" /\ ev.cep \in Errors
           \/ Expected /\ ev.cep # "ok"
        /\ cep' = [cep EXCEPT !.state = IF ev.cep = "none" THEN "VALID" ELSE ev.cep]
        /\ UNCHANGED <<tdev, msc>>
     \/ /\ cep.state \in Errors
        /\ Told(cep, cep.state)
        /\ UNCHANGED tdev
  /\ UNCHANGED <<host, enum, dev, bus, wait>>

---------------------------------------------------------------------------
(* Enumeration.                                                             *)

\* validate_dev_desc: full speed is refused.
DevDescOk == tdev.speed = "HS" /\ tdev.desc.dev # "none"
\* validate_def_conf_desc
ConfDescOk == tdev.desc.conf # "greedy"
\* host_enum_check_class_support, the one class registered being mass storage.
ClassSupported == tdev.desc.conf \in {"disk", "slow", "odd"} /\ ~tdev.alloc

GetDescr(descr) == [req |-> descr, data |-> TRUE]  \* MSS_USBH_construct_get_descr_command
Sets(what) == [req |-> what, data |-> FALSE]

\* The state that a request is made in, the request, and the one it is awaited in.
Asks ==
  [GET_DEF_DEV_DESC   |-> GetDescr("GetDef"),  SET_TDEV_ADDR      |-> Sets("SetAddr"),
   GET_FUL_DEV_DESC   |-> GetDescr("GetFul"),  GET_DEF_CONFG_DESC |-> GetDescr("GetConf"),
   GET_FUL_CONFG_DESC |-> GetDescr("GetFulConf"), PET_SET_CONFIG  |-> Sets("SetConf")]

Awaits ==
  [GET_DEF_DEV_DESC |-> "WAIT_GET_DEF_DEV_DESC", SET_TDEV_ADDR |-> "WAIT_SET_TDEV_ADDR",
   GET_FUL_DEV_DESC |-> "WAIT_GET_FUL_DEV_DESC",
   GET_DEF_CONFG_DESC |-> "WAIT_GET_DEF_CONFG_DESC",
   GET_FUL_CONFG_DESC |-> "WAIT_GET_FUL_CONFG_DESC",
   PET_SET_CONFIG |-> "PET_WAIT_SET_CONFIG"]

EnumAsk ==
  /\ enum \in DOMAIN Asks
  /\ enum' = Awaits[enum]
  /\ cep' = Start(IF enum = "SET_TDEV_ADDR" THEN Configured(cep, 0) ELSE cep,
                  Asks[enum].req, Asks[enum].data)
  /\ wait' = IF enum = "SET_TDEV_ADDR" THEN Restart("enum") ELSE wait
  /\ UNCHANGED <<tdev, bus>>

\* Where a successful answer leads, from the state it is awaited in.
AfterAnswer ==
  CASE enum = "WAIT_GET_DEF_DEV_DESC" -> "RESET_TDEV"
    [] enum = "WAIT_SET_TDEV_ADDR" -> IF DevDescOk THEN "GET_FUL_DEV_DESC" ELSE "ERROR"
    [] enum = "WAIT_GET_FUL_DEV_DESC" ->
         IF tdev.desc.dev = "pet" THEN "PET_SET_CONFIG"
         ELSE IF DevDescOk THEN "GET_DEF_CONFG_DESC" ELSE "ERROR"
    [] enum = "WAIT_GET_DEF_CONFG_DESC" -> IF ConfDescOk THEN "GET_FUL_CONFG_DESC" ELSE "ERROR"
    [] enum \in {"WAIT_GET_FUL_CONFG_DESC", "PET_WAIT_SET_CONFIG"} -> "CHECK_CLASS"

EnumAnswered ==
  /\ \E s \in DOMAIN Awaits : enum = Awaits[s]
  /\ cep.result # "none"
  /\ enum = "WAIT_SET_TDEV_ADDR" /\ cep.result = "ok" => wait.enum > 0
  /\ enum' = IF cep.result = "ok" THEN AfterAnswer ELSE "ERROR"
  /\ LET addr == IF cep.result = "ok" THEN 1 ELSE 0
     IN IF enum = "WAIT_SET_TDEV_ADDR"
        THEN /\ tdev' = [tdev EXCEPT !.addr = addr]
             /\ cep' = IF addr = 1 THEN [cep EXCEPT !.addr = 1] ELSE cep
        ELSE UNCHANGED <<tdev, cep>>
  /\ UNCHANGED <<wait, bus>>

EnumReset ==
  /\ enum = "RESET_TDEV"
  /\ enum' = "CLR_RESET_TDEV" /\ wait' = Restart("enum") /\ bus' = [bus EXCEPT !.reset = TRUE]
  /\ UNCHANGED <<tdev, cep>>

\* The reset is ended by a run of the state machine in the one tick that is Short
\* ticks after its start.
EnumClrReset ==
  /\ enum = "CLR_RESET_TDEV"
  /\ bus' = IF wait.enum = Short THEN [bus EXCEPT !.reset = FALSE] ELSE bus
  /\ enum' = IF wait.enum >= 2 * Short THEN "SET_TDEV_ADDR" ELSE enum
  /\ UNCHANGED <<tdev, cep, wait>>

EnumCheckClass ==
  /\ enum = "CHECK_CLASS"
  /\ enum' = IF ClassSupported THEN "SUCCESS" ELSE "ERROR"
  /\ tdev' = IF ClassSupported THEN [tdev EXCEPT !.alloc = TRUE, !.owned = TRUE] ELSE tdev
  /\ UNCHANGED <<cep, bus, wait>>

EnumWaits ==
  /\ \/ enum \in {"IDLE", "SUCCESS"}
     \/ /\ \E s \in DOMAIN Awaits : enum = Awaits[s]
        /\ \/ cep.result = "none"
           \/ enum = "WAIT_SET_TDEV_ADDR" /\ cep.result = "ok" /\ wait.enum = 0
  /\ UNCHANGED <<enum, tdev, cep, bus, wait>>

\* mss_usbh_enum_fsm
EnumFsm ==
  /\ at = "enum" /\ at' = "host"
  /\ EnumAsk \/ EnumAnswered \/ EnumReset \/ EnumClrReset \/ EnumCheckClass \/ EnumWaits
  /\ UNCHANGED <<ev, host, dev, msc>>

---------------------------------------------------------------------------
(* The main state machine.                                                  *)

StartEnumFsm == enum' = "GET_DEF_DEV_DESC"  \* mss_usbh_start_enum_fsm
ResetEnumFsm == enum' = "IDLE"              \* mss_usbh_reset_enum_fsm

\* Mutant: the class stays allocated when its device has gone.
HandleDisconKeepsAlloc ==
  /\ ev.discon
  /\ ev' = [ev EXCEPT !.discon = FALSE, !.connect = FALSE]
  /\ msc' = IF tdev.alloc THEN Released ELSE msc
  /\ tdev' = [tdev EXCEPT !.addr = 0, !.owned = FALSE, !.desc = NoDesc,
              !.state = IF ev.connect THEN "ATTACHED" ELSE "NOT_ATTACHED",
              !.num = IF ev.connect THEN dev.plugs ELSE 0]
  /\ ResetEnumFsm
  /\ cep' = Configured(cep, 0)
  /\ host' = IF ev.connect THEN "DETECTED" ELSE "IDLE"
  /\ wait' = IF ev.connect THEN Restart("host") ELSE wait
  /\ UNCHANGED <<dev, bus>>

\* mss_usbh_handle_discon_event, and the HOST_IDLE case that follows it.
HandleDiscon ==
  /\ ev.discon
  /\ ev' = [ev EXCEPT !.discon = FALSE, !.connect = FALSE]
  /\ msc' = IF tdev.alloc THEN Released ELSE msc
  /\ tdev' = [addr |-> 0, speed |-> "HS", owned |-> FALSE, alloc |-> FALSE, desc |-> NoDesc,
              state |-> IF ev.connect THEN "ATTACHED" ELSE "NOT_ATTACHED",
              num |-> IF ev.connect THEN dev.plugs ELSE 0, told |-> tdev.told]
  /\ ResetEnumFsm
  /\ cep' = Configured(cep, 0)
  /\ host' = IF ev.connect THEN "DETECTED" ELSE "IDLE"
  /\ wait' = IF ev.connect THEN Restart("host") ELSE wait
  /\ UNCHANGED <<dev, bus>>

HostIdle ==
  /\ host = "IDLE"
  /\ IF ev.connect
     THEN /\ ev' = [ev EXCEPT !.connect = FALSE]
          /\ tdev' = [tdev EXCEPT !.state = "ATTACHED", !.num = dev.plugs]
          /\ host' = "DETECTED" /\ wait' = Restart("host")
     ELSE UNCHANGED <<ev, tdev, host, wait>>
  /\ UNCHANGED <<dev, cep, enum, bus, msc>>

HostDetected ==
  /\ host = "DETECTED"
  /\ IF wait.host >= 5 * Short
     THEN /\ tdev' = [tdev EXCEPT !.state = "POWERED"]
          /\ host' = "RESETING" /\ wait' = Restart("host")
          /\ bus' = [bus EXCEPT !.reset = TRUE]
          /\ dev' = [dev EXCEPT !.addr = 0]
     ELSE UNCHANGED <<tdev, host, wait, bus, dev>>
  /\ UNCHANGED <<ev, cep, enum, msc>>

\* A device that came at full speed is found to be a high-speed one after the reset.
HostReseting ==
  /\ host = "RESETING"
  /\ bus' = IF wait.host = Short THEN [bus EXCEPT !.reset = FALSE] ELSE bus
  /\ IF wait.host >= 2 * Short
     THEN /\ tdev' = [tdev EXCEPT !.state = "DEFAULT",
                        !.speed = IF dev.kind = "slow" THEN @ ELSE "HS"]
          /\ cep' = Configured(cep, 0)
          /\ host' = "ENUMERATING"
     ELSE UNCHANGED <<tdev, cep, host>>
  /\ UNCHANGED <<dev, ev, enum, wait, msc>>

HostEnumerating ==
  /\ host = "ENUMERATING"
  /\ \/ enum = "IDLE" /\ StartEnumFsm /\ UNCHANGED <<host, tdev>>
     \/ /\ enum = "SUCCESS" /\ ResetEnumFsm
        /\ host' = "ALLOCATE_CLASSD" /\ tdev' = [tdev EXCEPT !.state = "ADDRESS"]
     \/ /\ enum = "ERROR" /\ ResetEnumFsm
        /\ host' = "ERROR" /\ tdev' = [tdev EXCEPT !.state = "ATTACHED"]
     \/ enum \notin {"IDLE", "SUCCESS", "ERROR"} /\ UNCHANGED <<enum, host, tdev>>
  /\ UNCHANGED <<dev, ev, cep, bus, wait, msc>>

HostAllocate ==
  /\ host = "ALLOCATE_CLASSD" /\ host' = "SERVICING"
  /\ Allocate
  /\ UNCHANGED <<dev, ev, cep, enum, tdev, bus, wait>>

HostError ==
  /\ host = "ERROR" /\ host' = "IDLE"
  /\ tdev' = [tdev EXCEPT !.told = tdev.num]
  /\ UNCHANGED <<dev, ev, cep, enum, bus, wait, msc>>

HostServicing ==
  /\ host = "SERVICING"
  /\ UNCHANGED <<dev, ev, cep, enum, tdev, host, bus, wait, msc>>

\* mss_usbh_fsm
HostFsm ==
  /\ at = "host" /\ at' = "msc"
  /\ \/ HandleDiscon
     \/ ~ev.discon /\ (HostIdle \/ HostDetected \/ HostReseting \/ HostEnumerating
                       \/ HostAllocate \/ HostError \/ HostServicing)

---------------------------------------------------------------------------
(* The bus, with the interrupt handler (external but for the handler).       *)

\* Whether the device with this address takes part in a transaction.
Answers(addr) == dev.kind # "none" /\ ~bus.reset /\ dev.addr = addr

CepCb(status) == ev' = [ev EXCEPT !.cep = status]  \* mss_usbh_cep_cb

\* MSS_USB_CIF_handle_cep_irq: the end of a transaction.  A device
\* may refuse GET_MAX_LUN, and a bad one the CLEAR_FEATURE that follows.
CepIrq ==
  /\ cep.token # "none" /\ ~bus.suspended
  /\ \E e \in {"ok", "no_response", "stall_rcvd"} :
       /\ e = "no_response" <=> ~Answers(cep.addr)
       /\ e = "stall_rcvd" =>
            \/ <<cep.req, cep.token>> = <<"GetMaxLun", "in">>
            \/ <<cep.req, cep.token, dev.kind>> = <<"ClrStall", "status", "odd">>
       /\ CepCb(e)
       /\ dev' = IF e = "ok" /\ cep.req = "SetAddr" /\ cep.token = "status"
                 THEN [dev EXCEPT !.addr = 1] ELSE dev
       /\ cep' = [cep EXCEPT !.token = "none",
                             !.fifo = IF e = "ok" /\ cep.token = "in" THEN dev.kind ELSE @]
  /\ UNCHANGED <<at, host, enum, tdev, bus, wait, msc>>

\* mss_usbh_connect_cb.  A high-speed device connects as a full-speed one.
ConnectCb ==
  /\ ev' = [ev EXCEPT !.connect = TRUE]
  /\ tdev' = [tdev EXCEPT !.speed = "FS"]

\* A device is plugged in: MSS_USBH_CIF_handle_connect_irq.  A disconnection has ended
\* the session, and the main state machine starts the next one when it has seen to it.
Plug(kind) ==
  /\ dev.kind = "none" /\ dev.plugs < MaxPlugs /\ ~ev.discon
  /\ "stale" \notin Env => msc.cep_event = "none" /\ ~msc.rx_event
  /\ \E ready \in {TRUE, kind # "disk"} :
       dev' = [kind |-> kind, addr |-> NoAddr, plugs |-> dev.plugs + 1, ready |-> ready, nak |-> FALSE]
  /\ bus' = [bus EXCEPT !.suspended = FALSE]
  /\ ConnectCb
  /\ UNCHANGED <<at, host, enum, cep, wait, msc>>

\* It is unplugged: mss_usbh_disconnect_cb.
Unplug ==
  /\ dev.kind # "none"
  /\ dev' = [dev EXCEPT !.kind = "none", !.addr = 0]
  /\ ev' = [ev EXCEPT !.discon = TRUE]
  /\ msc' = [msc EXCEPT !.target = "cbw"]
  /\ UNCHANGED <<at, host, enum, tdev, cep, bus, wait>>

\* The application calls MSS_USBH_task and MSS_USBH_MSC_task again, with or without a
\* tick of MSS_USBH_1ms_tick in between.
Advance(n) == [w \in Waiters |-> IF wait[w] + n < Longest THEN wait[w] + n ELSE Longest]

Again ==
  /\ at = "rest" /\ at' = "cep"
  /\ UNCHANGED <<ev, host, enum, tdev, cep, dev, bus, wait, msc>>

Tick ==
  /\ at = "rest" /\ at' = "cep"
  /\ \E n \in IF "lag" \in Env THEN 1..2 ELSE {1} : wait' = Advance(n)
  /\ UNCHANGED <<ev, host, enum, tdev, cep, dev, bus, msc>>

BusSuspend == bus' = [bus EXCEPT !.suspended = TRUE]  \* MSS_USBH_CIF_bus_suspend

\* MSS_USBH_suspend, of a disk that is ready and has no request.
Suspend ==
  /\ at = "rest" /\ ~bus.suspended
  /\ msc.state = "DEVICE_READY" /\ ~msc.st /\ ~ev.connect
  /\ BusSuspend
  /\ UNCHANGED <<at, ev, host, enum, tdev, cep, dev, wait, msc>>

\* MSS_USBH_resume waits for 40 ms, in which no state machine runs.
Resume ==
  /\ at = "rest" /\ (bus.suspended \/ "wake" \in Env)
  /\ bus' = [bus EXCEPT !.suspended = FALSE]
  /\ wait' = Advance(2 * Short)
  /\ UNCHANGED <<at, ev, host, enum, tdev, cep, dev, msc>>

HostInit ==
  /\ at = "cep"
  /\ ev = [connect |-> FALSE, discon |-> FALSE, cep |-> "none"]
  /\ host = "IDLE" /\ enum = "IDLE"
  /\ tdev = [addr |-> 0, speed |-> "HS", state |-> "NOT_ATTACHED", owned |-> FALSE,
             alloc |-> FALSE, desc |-> NoDesc, num |-> 0, told |-> 0]
  /\ cep = [state |-> "IDLE", req |-> "none", data |-> FALSE, result |-> "none", addr |-> 0,
            token |-> "none", fifo |-> "none"]
  /\ dev = [kind |-> "none", addr |-> 0, plugs |-> 0, ready |-> FALSE, nak |-> FALSE]
  /\ bus = [reset |-> FALSE, suspended |-> FALSE]
  /\ wait = [w \in Waiters |-> Longest]
=============================================================================
