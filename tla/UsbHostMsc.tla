----------------------------- MODULE UsbHostMsc -----------------------------
(***************************************************************************)
(* The mass storage class of the USB host (drivers/mss_usb/mss_usb_host_msc.c) *)
(* on top of the host stack: it finishes the enumeration of a disk, in        *)
(* MSS_USBH_MSC_task, and then does the reads and writes of the application   *)
(* in the interrupts of the bulk pipes.  The pipes themselves (write_out_pipe, *)
(* read_in_pipe and the call-backs of their ends in mss_usb_host.c) carry a   *)
(* transfer in one step.                                                      *)
(***************************************************************************)
EXTENDS UsbHost

\* The commands of the set-up: those with data have a phase for them.
Cmds == {"TEST_UNIT_READY", "INQUIRY", "REQSENSE", "READ_CAPACITY", "READ_10", "WRITE_10"}
HasData(cmd) == cmd # "TEST_UNIT_READY"
WritesData(cmd) == cmd = "WRITE_10"

\* msc is the driver's state:
\*   state       g_msc_state; "SCSI" with cmd and phase ("C", "D", "S" or "W") stands
\*               for the states of the SCSI commands
\*   bot, st     g_msc_bot_state and g_scsi_command.st; cmd, the command in g_bot_cbw
\*   addr, conf  g_msd_tdev_addr; the device whose descriptor g_msd_conf_desc holds
\*   alloc, cep_event, tx_event, rx_event   the events of the call-backs
\*   csw, cap    what g_bot_csw and g_bot_readcap say
\*   retrying    first_mili has been set
\*   out, in     what the pipes carry
\*   target      what the device expects, or has to say, next
Ready == msc.state \in {"DEVICE_READY", "BOT_RETRY", "ERROR"}

---------------------------------------------------------------------------
(* The set-up: MSS_USBH_MSC_task.                                           *)

WriteOut(m, what) == [m EXCEPT !.out = what]  \* MSS_USBH_write_out_pipe
ReadIn(m, what) == [m EXCEPT !.in = what]     \* MSS_USBH_read_in_pipe

\* The two endpoints of a device's interface, in the order of its descriptor.
BulkEps(kind) ==
  CASE kind = "none" -> <<"none", "none">>
    [] kind = "odd" -> <<"out", "in">>
    [] OTHER -> <<"in", "out">>

\* MSS_USBH_MSC_extract_tdev_ep_desc: the first that is an IN endpoint is taken for it.
TdevEps ==
  LET eps == BulkEps(msc.conf)
  IN CASE eps[1] = "in" -> [in |-> 1, out |-> 2]
       [] eps[1] # "in" /\ eps[2] = "in" -> [in |-> 2, out |-> 1]
       [] OTHER -> [in |-> 0, out |-> 0]

\* usbh_msc_construct_class_req: GET_MAX_LUN reads a byte, and a reset has no data.
StartClassReq(c, req) == Start(c, req, req = "GetMaxLun")

AskClass ==
  /\ msc.state = "GET_CLASS_DESCR"
  /\ tdev.state = "ADDRESS" /\ cep.state = "IDLE"
  /\ cep' = Start(Configured(cep, msc.addr), "GetClass", TRUE)
  /\ msc' = [msc EXCEPT !.state = "WAIT_GET_CLASS_DESCR"]
  /\ UNCHANGED wait

AskConfig ==
  /\ msc.state = "SET_CONFIG"
  /\ cep' = Start(cep, "SetConf", FALSE)
  /\ msc' = [msc EXCEPT !.state = "WAIT_SET_CONFIG"]
  /\ UNCHANGED wait

AskMaxLun ==
  /\ msc.state = "GET_MAX_LUN"
  /\ cep' = StartClassReq(Configured(cep, msc.addr), "GetMaxLun")
  /\ msc' = [msc EXCEPT !.state = "WAIT_GET_MAX_LUN"]
  /\ UNCHANGED wait

AskClrStall ==
  /\ msc.state = "CLR_CEP_STALL"
  /\ cep' = Start(cep, "ClrStall", FALSE)
  /\ msc' = [msc EXCEPT !.state = "WAIT_CLR_CEP_STALL"]
  /\ UNCHANGED wait

\* Mutant: a device that refuses GET_MAX_LUN is left there.
AfterControlNoStall ==
  CASE msc.state = "WAIT_GET_CLASS_DESCR" -> IF TdevEps.in # 0 THEN "SET_CONFIG" ELSE "ERROR"
    [] msc.state = "WAIT_SET_CONFIG" -> "WAIT_DEV_SETTLE"
    [] OTHER -> IF msc.cep_event = "ok" THEN "CONFIG_BULK_ENDPOINTS" ELSE msc.state

\* Where the end of a control transfer leads.  The first two take any end for a
\* success; the last two fail an assertion on any other.
AfterControl ==
  CASE msc.state = "WAIT_GET_CLASS_DESCR" -> IF TdevEps.in # 0 THEN "SET_CONFIG" ELSE "ERROR"
    [] msc.state = "WAIT_SET_CONFIG" -> "WAIT_DEV_SETTLE"
    [] msc.state = "WAIT_GET_MAX_LUN" ->
         CASE msc.cep_event = "ok" -> "CONFIG_BULK_ENDPOINTS"
           [] msc.cep_event = "stall_rcvd" -> "CLR_CEP_STALL"
           [] OTHER -> msc.state
    [] msc.state = "WAIT_CLR_CEP_STALL" ->
         CASE msc.cep_event = "ok" -> "CONFIG_BULK_ENDPOINTS"
           [] msc.cep_event = "stall_rcvd" -> "ERROR"
           [] OTHER -> msc.state

ControlWaits ==
  {"WAIT_GET_CLASS_DESCR", "WAIT_SET_CONFIG", "WAIT_GET_MAX_LUN", "WAIT_CLR_CEP_STALL"}

ControlDone ==
  /\ msc.state \in ControlWaits
  /\ msc.cep_event # "none"
  /\ msc' = [msc EXCEPT !.state = AfterControl, !.cep_event = "none"]
  /\ wait' = IF msc.state = "WAIT_SET_CONFIG" THEN Restart("settle") ELSE wait
  /\ UNCHANGED cep

Settled ==
  /\ msc.state = "WAIT_DEV_SETTLE" /\ wait.settle > 3 * Short
  /\ msc' = [msc EXCEPT !.state = "GET_MAX_LUN"]
  /\ UNCHANGED <<cep, wait>>

ConfigBulk ==
  /\ msc.state = "CONFIG_BULK_ENDPOINTS"
  /\ msc' = [msc EXCEPT !.state = "SCSI", !.cmd = "TEST_UNIT_READY", !.phase = "C",
                        !.out = "idle", !.in = "idle"]
  /\ UNCHANGED <<cep, wait>>

\* The command phase of a SCSI command.
Command ==
  /\ msc.state = "SCSI" /\ msc.phase = "C"
  /\ msc' = WriteOut([msc EXCEPT !.phase = IF HasData(msc.cmd) THEN "D" ELSE "S"], "cbw")
  /\ UNCHANGED <<cep, wait>>

\* The event that a phase after the first waits for.
Awaited ==
  IF msc.phase = "D" \/ (msc.phase = "S" /\ ~HasData(msc.cmd)) THEN msc.tx_event
  ELSE msc.rx_event

\* Mutant: the event of the command is not cleared.
DataKeepsEvent ==
  /\ msc.state = "SCSI" /\ msc.phase = "D" /\ Awaited
  /\ msc' = ReadIn([msc EXCEPT !.phase = "S"], "data")
  /\ UNCHANGED <<cep, wait>>

\* The command is out: ask for the data.  READ_CAPACITY clears the wrong event.
Data ==
  /\ msc.state = "SCSI" /\ msc.phase = "D" /\ Awaited
  /\ LET m == IF msc.cmd = "READ_CAPACITY" THEN [msc EXCEPT !.rx_event = FALSE]
              ELSE [msc EXCEPT !.tx_event = FALSE]
     IN msc' = ReadIn([m EXCEPT !.phase = "S"], "data")
  /\ UNCHANGED <<cep, wait>>

\* The data is in, or the command that has none is out: ask for the status.
Status ==
  /\ msc.state = "SCSI" /\ msc.phase = "S" /\ Awaited
  /\ LET m == IF HasData(msc.cmd) THEN [msc EXCEPT !.rx_event = FALSE]
              ELSE [msc EXCEPT !.tx_event = FALSE]
     IN msc' = ReadIn([m EXCEPT !.phase = "W"], "csw")
  /\ UNCHANGED <<cep, wait>>

\* The status is in.  Only TEST_UNIT_READY looks at it.
Complete ==
  /\ msc.state = "SCSI" /\ msc.phase = "W" /\ Awaited
  /\ LET m == [msc EXCEPT !.rx_event = FALSE, !.phase = "C"]
     IN msc' = CASE msc.cmd = "TEST_UNIT_READY" ->
                      [m EXCEPT !.cmd = IF msc.csw = "passed" THEN "INQUIRY" ELSE "REQSENSE"]
                 [] msc.cmd = "REQSENSE" -> [m EXCEPT !.cmd = "TEST_UNIT_READY"]
                 [] msc.cmd = "INQUIRY" -> [m EXCEPT !.cmd = "READ_CAPACITY"]
                 [] msc.cmd = "READ_CAPACITY" ->
                      [m EXCEPT !.state = IF msc.cap = 512 THEN "DEVICE_READY" ELSE "ERROR"]
  /\ UNCHANGED <<cep, wait>>

\* Mutant: the data phase is tried again and the status phase is not.
BotRetryData ==
  /\ msc.state = "BOT_RETRY"
  /\ LET again == msc.retrying /\ wait.retry >= Longest /\ msc.bot = "DATA"
     IN /\ wait' = IF msc.retrying THEN wait ELSE Restart("retry")
        /\ msc' = IF again THEN ReadIn([msc EXCEPT !.retrying = FALSE, !.state = "DEVICE_READY"], "data")
                  ELSE [msc EXCEPT !.retrying = TRUE]
  /\ UNCHANGED cep

\* BOT_RETRY: only the status phase is tried again, the retry time after the task
\* first came here.
BotRetry ==
  /\ msc.state = "BOT_RETRY"
  /\ LET again == msc.retrying /\ wait.retry >= Longest /\ msc.bot = "STATUS"
     IN /\ wait' = IF msc.retrying THEN wait ELSE Restart("retry")
        /\ msc' = IF again THEN ReadIn([msc EXCEPT !.retrying = FALSE, !.state = "DEVICE_READY"], "csw")
                  ELSE [msc EXCEPT !.retrying = TRUE]
  /\ UNCHANGED cep

Allocated ==
  /\ msc.state = "IDLE" /\ msc.alloc
  /\ msc' = [msc EXCEPT !.alloc = FALSE, !.state = "GET_CLASS_DESCR"]
  /\ UNCHANGED <<cep, wait>>

\* What is waited for has not come yet.
Stays ==
  /\ \/ msc.state \in {"DEVICE_READY", "ERROR"}
     \/ msc.state = "IDLE" /\ ~msc.alloc
     \/ msc.state = "GET_CLASS_DESCR" /\ ~(tdev.state = "ADDRESS" /\ cep.state = "IDLE")
     \/ msc.state \in ControlWaits /\ msc.cep_event = "none"
     \/ msc.state = "WAIT_DEV_SETTLE" /\ wait.settle <= 3 * Short
     \/ msc.state = "SCSI" /\ msc.phase # "C" /\ ~Awaited
  /\ UNCHANGED <<cep, wait, msc>>

\* MSS_USBH_MSC_task
MscTask ==
  /\ at = "msc" /\ at' = "rest"
  /\ \/ Allocated \/ AskClass \/ AskConfig \/ AskMaxLun \/ AskClrStall \/ ControlDone
     \/ Settled \/ ConfigBulk \/ Command \/ Data \/ Status \/ Complete \/ BotRetry
     \/ Stays
  /\ UNCHANGED <<ev, host, enum, tdev, dev, bus>>

---------------------------------------------------------------------------
(* Reads and writes.                                                        *)

\* MSS_USBH_MSC_read and MSS_USBH_MSC_write, with MSS_USBH_MSC_scsi_req
ReadOrWrite ==
  /\ at = "rest"
  /\ msc.state = "DEVICE_READY" /\ ~msc.st
  /\ \E cmd \in {"READ_10", "WRITE_10"} :
       msc' = WriteOut([msc EXCEPT !.st = TRUE, !.cmd = cmd, !.bot = "COMMAND"], "cbw")
  /\ UNCHANGED <<at, ev, host, enum, tdev, cep, dev, bus, wait>>

\* usbh_msc_tx_complete_cb.  Every error has a bit in common with NAK_TOUT.
TxComplete(m, status) ==
  IF ~Ready THEN [m EXCEPT !.tx_event = TRUE]
  ELSE IF status # "ok" THEN [m EXCEPT !.state = "BOT_RETRY"]
  ELSE CASE m.bot = "COMMAND" ->
              IF WritesData(m.cmd) THEN WriteOut([m EXCEPT !.bot = "DATA"], "data")
              ELSE ReadIn([m EXCEPT !.bot = "DATA"], "data")
         [] m.bot = "DATA" -> ReadIn([m EXCEPT !.bot = "STATUS"], "csw")
         [] OTHER -> m

\* usbh_msc_rx_cb
RxCb(m, status) ==
  IF ~Ready THEN [m EXCEPT !.rx_event = TRUE]
  ELSE IF status # "ok" THEN [m EXCEPT !.state = "BOT_RETRY"]
  ELSE CASE m.bot = "DATA" -> ReadIn([m EXCEPT !.bot = "STATUS"], "csw")
         [] m.bot = "STATUS" -> [m EXCEPT !.rx_event = FALSE, !.st = FALSE, !.bot = "IDLE"]
         [] OTHER -> m

\* How a bulk transfer may end: a device that is gone, or has no such endpoint, does not
\* answer; one that is there may let one transfer of the application's time out.
Ends(dir) ==
  IF ~Answers(msc.addr) \/ BulkEps(dev.kind)[TdevEps[dir]] # dir THEN {"no_response"}
  ELSE IF Ready /\ ~dev.nak /\ ("nak" \in Env \/ msc.bot = "STATUS") THEN {"ok", "nak_tout"}
  ELSE {"ok"}

\* The device after a transfer: what it has got, or said.
AfterOut == CASE msc.out = "cbw" -> IF ~HasData(msc.cmd) THEN "csw"
                                    ELSE IF WritesData(msc.cmd) THEN "data_out" ELSE "data_in"
              [] OTHER -> "csw"

\* The end of a transfer to the device: mss_usbh_ep_tx_complete_cb, or
\* mss_usbh_dma_handler_cb.
OutDone ==
  /\ msc.out \in {"cbw", "data"} /\ ~bus.suspended
  /\ \E e \in Ends("out") :
       /\ dev' = IF e = "nak_tout" THEN [dev EXCEPT !.nak = TRUE] ELSE dev
       /\ msc' = TxComplete([msc EXCEPT !.out = "idle",
                                        !.target = IF e = "ok" THEN AfterOut ELSE @], e)
  /\ UNCHANGED <<at, ev, host, enum, tdev, cep, bus, wait>>

\* What the device says reaches the buffer of the request.
Said(m) ==
  CASE m.target = "csw" ->
         [m EXCEPT !.target = "cbw",
                   !.csw = IF m.cmd = "TEST_UNIT_READY" /\ ~dev.ready THEN "failed" ELSE "passed"]
    [] m.target # "csw" /\ m.cmd = "READ_CAPACITY" ->
         [m EXCEPT !.target = "csw", !.cap = IF dev.kind = "odd" THEN 2048 ELSE 512]
    [] OTHER -> [m EXCEPT !.target = "csw"]

\* The end of a transfer from the device: mss_usbh_ep_rx_cb, or
\* mss_usbh_dma_handler_cb.  One that has nothing to say keeps the host waiting.
InDone ==
  /\ msc.in \in {"data", "csw"} /\ ~bus.suspended
  /\ \E e \in Ends("in") :
       /\ e = "ok" => msc.target \in {"data_in", "csw"}
       /\ dev' = CASE e = "nak_tout" -> [dev EXCEPT !.nak = TRUE]
                   [] e = "ok" /\ msc.cmd = "REQSENSE" -> [dev EXCEPT !.ready = TRUE]
                   [] OTHER -> dev
       /\ msc' = RxCb([(IF e = "ok" THEN Said(msc) ELSE msc) EXCEPT !.in = "idle"], e)
  /\ UNCHANGED <<at, ev, host, enum, tdev, cep, bus, wait>>

---------------------------------------------------------------------------
Init ==
  /\ HostInit
  /\ msc = [state |-> "IDLE", cmd |-> "TEST_UNIT_READY", phase |-> "C", bot |-> "IDLE",
            st |-> FALSE, addr |-> 0, conf |-> "none", alloc |-> FALSE, cep_event |-> "none",
            tx_event |-> FALSE, rx_event |-> FALSE, csw |-> "passed", cap |-> 0,
            retrying |-> FALSE, out |-> "off", in |-> "off", target |-> "cbw"]

Task == ControlXfrFsm \/ EnumFsm \/ HostFsm \/ MscTask \/ Again

Next == \/ Task \/ Tick \/ ReadOrWrite \/ Suspend \/ Resume
        \/ CepIrq \/ OutDone \/ InDone
        \/ \E kind \in Kinds : Plug(kind)
        \/ Unplug

\* The application goes on calling the tasks and resumes a bus that it has suspended,
\* time goes on, and the transactions that the controller has been given come to an
\* end.  The user need do nothing.
Fairness == WF_hostVars(Task) /\ SF_hostVars(Tick) /\ SF_hostVars(Resume) /\ WF_hostVars(CepIrq)
            /\ WF_hostVars(OutDone) /\ WF_hostVars(InDone)

Spec == Init /\ [][Next]_hostVars /\ Fairness

---------------------------------------------------------------------------
(* What should hold.                                                        *)

MscStates ==
  ControlWaits \union
  {"IDLE", "GET_CLASS_DESCR", "SET_CONFIG", "WAIT_DEV_SETTLE", "GET_MAX_LUN", "CLR_CEP_STALL",
   "CONFIG_BULK_ENDPOINTS", "SCSI", "DEVICE_READY", "BOT_RETRY", "ERROR"}

\* The state machines are in states they have a case for; the class is past IDLE only
\* for a device that it owns; and a request of the application's is under way on
\* exactly one pipe, or waits to be tried again (mss_usb_host.c:1401, 1591;
\* mss_usb_host_msc.c:721).
TypeOK ==
  /\ cep.state \in {"IDLE", "SETUP", "RX", "STATUS_AFTER_IN", "STATUS_AFTER_OUT"} \union Errors
  /\ enum \in {"IDLE", "RESET_TDEV", "CLR_RESET_TDEV", "CHECK_CLASS", "SUCCESS", "ERROR"}
             \union DOMAIN Awaits \union {Awaits[s] : s \in DOMAIN Awaits}
  /\ host \in {"IDLE", "DETECTED", "RESETING", "ENUMERATING", "ALLOCATE_CLASSD", "SERVICING", "ERROR"}
  /\ msc.state \in MscStates
  /\ msc.state # "IDLE" => tdev.owned /\ tdev.alloc /\ host = "SERVICING"
  /\ msc.st /\ msc.state = "DEVICE_READY" =>
       (msc.out \in {"cbw", "data"}) # (msc.in \in {"data", "csw"})

\* Until a device has been replaced, the class asks it for data or for a status only
\* when that is what it has to send: its command phase is over, and its data phase too
\* when it has one (mss_usb_host_msc.c:388-633, 1123-1180).
SpeaksInTurn ==
  dev.kind # "none" /\ dev.plugs = 1 =>
    /\ msc.in = "data" => msc.target = "data_in"
    /\ msc.in = "csw" => msc.target = "csw"

\* A disk that the driver supports is not refused, by the enumeration or by the class
\* (mss_usb_host.c:1049, mss_usb_host_msc.c:221).
DiskNotRefused ==
  dev.kind = "disk" /\ ~ev.discon => msc.state # "ERROR" /\ tdev.told # dev.plugs

\* A device that is plugged in is served, or the user is told that it is not
\* supported, or it is unplugged.
Served == msc.state = "DEVICE_READY"
Refused == tdev.told = dev.plugs \/ msc.state = "ERROR"
ServedOrRefused == dev.kind # "none" ~> Served \/ Refused \/ dev.kind = "none"

\* A read or a write of the application's ends, or its device is released
\* (mss_usb_host_msc.c:696, 1107, 1203).
RequestEnds == msc.st ~> ~msc.st
=============================================================================
