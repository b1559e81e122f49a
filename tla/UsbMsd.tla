------------------------------- MODULE UsbMsd -------------------------------
(***************************************************************************)
(* The mass storage class of the USB device (drivers/mss_usb/               *)
(* mss_usb_device_msd.c): the bulk-only transport state machine             *)
(* usbd_msc_bot_fsm, the SCSI commands it decodes, and the application's    *)
(* call-backs that hold the medium.  With it, a host that goes by the       *)
(* bulk-only transport: command, data, status, the halts it clears, and the *)
(* reset recovery it falls back on.  The bulk pipes carry one piece of data *)
(* in one step (see UsbEndpoint for what is below).                         *)
(*                                                                          *)
(* Lengths are in blocks for READ and WRITE.  The other responses have Resp *)
(* units, and the host asks for fewer, as many or more.                     *)
(***************************************************************************)
EXTENDS Naturals, Sequences

CONSTANTS
  Blocks,    \* the medium is of the blocks 0..Blocks-1
  Commands,  \* what the host may ask: [op, xfr, dir, alloc, lba, odd]
  MaxCmds,   \* bound on the commands
  Chunks,    \* how many blocks, or units, the application can give or take at a time
  Env,       \* "impatient": the host may give up at any time
  None

Ops == {"INQUIRY", "READ_CAPACITY", "FORMAT_CAPACITIES", "READ", "MODE_SENSE", "REQUEST_SENSE",
        "WRITE", "TEST_UNIT_READY", "OTHER", "BAD"}
Resp == 2

\* What passes the pipes, beside data of the medium or of a response: a command with its
\* number, and the status of one.
Statuses == {"PASS", "FAIL", "PHASE_ERR", "LESSDATAPASS"}
Cbws == [num : Nat, op : Ops, xfr : Nat, dir : {"in", "out"}, alloc : Nat, lba : Nat, odd : BOOLEAN]
Csws == [kind : {"csw"}, num : Nat, residue : Nat, status : Statuses]
Data == [kind : {"data"}, vals : Seq(Nat) \union Seq({"r"})]

\* The application's call-backs have at least a block to give when they have any.
ASSUME UsbMsdAssumption ==
  /\ Blocks \in Nat \ {0} /\ MaxCmds \in Nat
  /\ Chunks \subseteq Nat /\ \E n \in Chunks : n > 0
  /\ Env \subseteq {"impatient"}
  /\ \A c \in Commands : /\ c.op \in Ops /\ c.dir \in {"in", "out"} /\ c.odd \in BOOLEAN
                          /\ c.xfr \in Nat /\ c.alloc \in Nat /\ c.lba \in Nat
  /\ None \notin Cbws \union Csws \union Data

VARIABLES
  msd,   \* g_bot_state (bot), the status, data_residue and dCSWTag of
         \* g_current_command_csw, g_req_type, g_xfr_buf_ptr (src), g_xfr_buf_len,
         \* g_xfr_lba_addr, g_bot_cbw; known, blk_sz_len is not 0; failed, an
         \* assertion has
  pipe,  \* in, the piece that waits for the host; out, what the OUT endpoint is
         \* prepared for; rx, what it has received; and the halts of the two
  irq,   \* the end of a transfer that is to be handled, of each endpoint
  disk,  \* the medium
  host   \* phase, cmd, what it has got and sent, the number of its commands, and
         \* its last answer

vars == <<msd, pipe, irq, disk, host>>

Least(a, b) == IF a < b THEN a ELSE b
Positive == Chunks \ {0}

---------------------------------------------------------------------------
(* The pipes.                                                              *)

\* usbd_msc_send_data: len blocks of the medium from lba, or of a response.
Piece(m) ==
  [kind |-> "data",
   vals |-> [i \in 1..m.len |-> IF m.src = "media" THEN disk[m.lba + i - 1] ELSE "r"]]
SendData(m) == /\ msd' = [m EXCEPT !.bot = "DATA_TX"]
               /\ pipe' = IF pipe.in = None THEN [pipe EXCEPT !.in = Piece(m)] ELSE pipe

\* usbd_msc_send_csw
Csw(m) == [kind |-> "csw", num |-> m.tag, residue |-> m.residue, status |-> m.st]
SendCsw(m) == /\ msd' = [m EXCEPT !.bot = "SEND_STATUS"]
              /\ pipe' = IF pipe.in = None THEN [pipe EXCEPT !.in = Csw(m)] ELSE pipe

\* usbd_msc_receive_data
ReceiveData(m) == /\ msd' = [m EXCEPT !.bot = "DATA_RX"]
                  /\ pipe' = [pipe EXCEPT !.out = m.len]

\* MSS_USBD_rx_ep_read_prepare for a CBW, which counts as one unit.
Prepared(p) == [p EXCEPT !.out = 1]

\* usbd_msc_stallin_sendstatus, usbd_msc_stallout_sendstatus, usbd_msc_abort_cbw
Stall(m, bot, eps) ==
  /\ msd' = [m EXCEPT !.bot = bot]
  /\ pipe' = [pipe EXCEPT !.inHalt = @ \/ "in" \in eps, !.outHalt = @ \/ "out" \in eps]
StallIn(m) == Stall(m, "SEND_STATUS", {"in"})
StallOut(m) == Stall(m, "SEND_STATUS", {"out"})
Abort(m) == Stall([m EXCEPT !.st = "PHASE_ERR"], "ABORTED", {"in", "out"})

\* An ASSERT that fails; nothing else happens.
Assert(m) == msd' = [m EXCEPT !.failed = TRUE] /\ UNCHANGED pipe

---------------------------------------------------------------------------
(* Commands: what usbd_msc_process_cbw makes of the CBW.  have: what the    *)
(* application has, or can take; 0: its call-back returned no buffer.       *)

Result(res, req, src, len, lba) == [res |-> res, req |-> req, src |-> src, len |-> len, lba |-> lba]

Inquiry(c, have) ==
  LET R(res, src, len) == Result(res, "IN", src, len, msd.lba)
  IN CASE c.dir # "in" -> R("DATA_DIR_MISMATCH", None, c.alloc)
       [] c.dir = "in" /\ c.alloc # c.xfr -> R("LENGTH_MISMATCH", None, 0)
       [] c.dir = "in" /\ c.alloc = c.xfr /\ c.odd -> R("INVALID_CDB_FIELD", None, 0)
       [] c.dir = "in" /\ c.alloc = c.xfr /\ ~c.odd ->
            IF have = 0 THEN R("INTERNAL_ERROR", None, 0)
            ELSE IF c.alloc <= have THEN R("PASS", "resp", c.alloc)
            ELSE R("LESSDATA", "resp", have)

ReadCapacity(c) ==
  IF c.dir # "in" THEN Result("DATA_DIR_MISMATCH", "IN", None, Resp, msd.lba)
  ELSE IF c.odd THEN Result("INVALID_CDB_FIELD", "IN", None, 0, msd.lba)
  ELSE Result("PASS", "IN", "resp", Resp, msd.lba)

\* READ_FORMAT_CAPACITIES
FormatCapacities(c) ==
  Result(IF c.alloc = Resp THEN "PASS" ELSE "LESSDATA", "IN", "resp", Resp, msd.lba)

ModeSense(c) ==
  Result(IF c.alloc > Resp THEN "LESSDATA" ELSE IF c.alloc < Resp THEN "MOREDATA" ELSE "PASS",
         "IN", "resp", Resp, msd.lba)

RequestSense(c) ==
  IF c.odd THEN Result("INVALID_CDB_FIELD", msd.req, msd.src, msd.len, msd.lba)
  ELSE Result(IF c.alloc = 0 THEN "LESSDATA" ELSE IF c.alloc > Resp THEN "MOREDATA" ELSE "PASS",
              "IN", "resp", c.alloc, msd.lba)

\* usbd_msc_process_read_10.  The size of a block is 0 until the host has asked for it.
Read10(c, have) ==
  LET dev == IF msd.known THEN c.alloc ELSE 0
  IN IF dev # c.xfr THEN Result("LENGTH_MISMATCH", "IN", None, 0, 0)
     ELSE IF c.dir # "in" THEN Result("DATA_DIR_MISMATCH", "IN", None, 0, 0)
     ELSE IF have = 0 THEN Result("INTERNAL_ERROR", "IN", None, 0, 0)
     ELSE Result("PASS", "IN", "media", Least(have, dev), c.lba)

\* usbd_msc_process_write_10
Write10(c, have) ==
  LET dev == IF msd.known THEN c.alloc ELSE 0
  IN IF dev # c.xfr THEN Result("LENGTH_MISMATCH", "OUT", None, 0, 0)
     ELSE IF c.dir # "out" THEN Result("DATA_DIR_MISMATCH", "OUT", None, 0, 0)
     ELSE IF have = 0 THEN Result("INTERNAL_ERROR", "OUT", None, 0, 0)
     ELSE Result("PASS", "OUT", "media", Least(have, dev), c.lba)

\* TEST_UNIT_READY and VERIFY_10.  The medium is not asked.
TestUnitReady(c) ==
  Result(IF c.xfr # 0 THEN "LENGTH_MISMATCH" ELSE "PASS", "ZDR", None, 0, msd.lba)

\* usbd_msc_process_cbw
ProcessCbw(c, have) ==
  CASE c.op = "INQUIRY" -> Inquiry(c, have)
    [] c.op = "READ_CAPACITY" -> ReadCapacity(c)
    [] c.op = "FORMAT_CAPACITIES" -> FormatCapacities(c)
    [] c.op = "READ" -> Read10(c, have)
    [] c.op = "MODE_SENSE" -> ModeSense(c)
    [] c.op = "REQUEST_SENSE" -> RequestSense(c)
    [] c.op = "WRITE" -> Write10(c, have)
    [] c.op = "TEST_UNIT_READY" -> TestUnitReady(c)
    [] c.op = "OTHER" -> Result("NOT_SUPPORTED", "IN", None, 0, msd.lba)
    [] c.op = "BAD" -> Result("INVALID_CBW", msd.req, msd.src, msd.len, msd.lba)

---------------------------------------------------------------------------
(* usbd_msc_bot_fsm, by its state.                                          *)

\* The command and the CBW disagree, or the CBW is none: the last one waits for a reset.
Disagree(m, res) ==
  LET Failed == [m EXCEPT !.st = "FAIL"]
  IN CASE res = "LENGTH_MISMATCH" /\ m.req # "ZDR" -> StallOut(Failed)
       [] res = "LENGTH_MISMATCH" /\ m.req = "ZDR" ->
            IF m.cbw.dir = "in" THEN StallIn(Failed) ELSE Abort(m)
       [] res = "DATA_DIR_MISMATCH" -> StallIn([m EXCEPT !.st = "PHASE_ERR"])
       [] res = "INVALID_CBW" -> Abort(m)

\* The answer to a CBW: what follows from the result, the direction of the command
\* (req) and the length of its data.  A length is never left after LENGTH_MISMATCH.
Respond(m, res) ==
  LET Failed == [m EXCEPT !.st = "FAIL"]
      Less == [m EXCEPT !.st = "LESSDATAPASS"]
      Passed == [m EXCEPT !.st = "PASS"]
  IN CASE res = "PASS" ->
            IF m.req = "OUT" THEN ReceiveData(Passed)
            ELSE IF m.req = "IN" THEN SendData(Passed) ELSE SendCsw(Passed)
       [] res = "LESSDATA" -> IF m.len > 0 THEN SendData(Less) ELSE StallIn(Less)
       [] res \in {"MOREDATA", "INVALID_CDB_FIELD"} -> StallIn(Failed)
       [] res = "NOT_SUPPORTED" ->
            Stall(Failed, "SEND_STATUS", IF m.cbw.xfr = 0 \/ m.cbw.dir = "in" THEN {"in"} ELSE {"in", "out"})
       [] res = "INTERNAL_ERROR" -> Abort(m)
       [] OTHER -> Disagree(m, res)

\* BOT_IDLE: a CBW has come.
Command ==
  /\ msd.bot = "IDLE" /\ irq.rx = "ok"
  /\ \E have \in Chunks :
       LET c == pipe.rx[1]
           r == ProcessCbw(c, have)
           m == [msd EXCEPT !.req = r.req, !.src = r.src, !.len = r.len, !.lba = r.lba,
                            !.cbw = c, !.tag = c.num, !.residue = c.xfr,
                            !.known = @ \/ (c.op = "READ_CAPACITY" /\ r.res = "PASS")]
       IN Respond(m, r.res)
  /\ UNCHANGED disk

NoData(m) == [m EXCEPT !.src = None, !.len = 0, !.lba = 0]

\* Mutant: the residue of a command that got less data than it asked for is forgotten.
DataTxLessForgotten ==
  /\ msd.bot = "DATA_TX" /\ irq.tx = "ok"
  /\ LET residue == msd.residue - msd.len
         m == [msd EXCEPT !.residue = residue]
     IN CASE msd.st = "LESSDATAPASS" -> StallIn([NoData(msd) EXCEPT !.st = "PASS", !.residue = 0])
          [] msd.st = "PASS" /\ residue = 0 -> SendCsw(NoData(m))
          [] msd.st = "PASS" /\ residue > 0 ->
               \E have \in Positive :
                 SendData([m EXCEPT !.src = "media", !.lba = @ + msd.len, !.len = Least(have, residue)])
          [] OTHER -> StallIn(NoData(msd))
  /\ UNCHANGED disk

\* BOT_DATA_TX: a piece has gone.  The rest of a read is asked of the application.
DataTx ==
  /\ msd.bot = "DATA_TX" /\ irq.tx = "ok"
  /\ LET residue == msd.residue - msd.len
         m == [msd EXCEPT !.residue = residue]
     IN \/ msd.st = "LESSDATAPASS" /\ StallIn([NoData(msd) EXCEPT !.st = "PASS"])
        \/ msd.st = "PASS" /\ msd.residue < msd.len /\ Assert(msd)
        \/ msd.st = "PASS" /\ residue = 0 /\ SendCsw(NoData(m))
        \/ /\ msd.st = "PASS" /\ residue > 0
           /\ \E have \in Positive :
                SendData([m EXCEPT !.src = "media", !.lba = @ + msd.len, !.len = Least(have, residue)])
        \/ msd.st = "FAIL" /\ StallIn(NoData(msd))
        \/ msd.st = "PHASE_ERR" /\ Assert(msd)
  /\ UNCHANGED disk

\* Mutant: the address of the medium does not move on.
DataRxSameAddress ==
  /\ msd.bot = "DATA_RX" /\ irq.rx = "ok" /\ msd.st = "PASS"
  /\ disk' = [b \in DOMAIN disk |->
                IF b \in msd.lba..(msd.lba + msd.len - 1) THEN pipe.rx[b - msd.lba + 1] ELSE disk[b]]
  /\ LET residue == msd.residue - msd.len
         m == [msd EXCEPT !.residue = residue]
     IN IF residue = 0 THEN SendCsw(NoData(m))
        ELSE \E room \in Positive : ReceiveData([m EXCEPT !.len = Least(room, residue)])

\* BOT_DATA_RX: a piece has come.  It is written whatever its length.
DataRx ==
  /\ msd.bot = "DATA_RX" /\ irq.rx = "ok" /\ msd.st = "PASS"
  /\ disk' = [b \in DOMAIN disk |->
                IF b \in msd.lba..(msd.lba + msd.len - 1) THEN pipe.rx[b - msd.lba + 1] ELSE disk[b]]
  /\ LET residue == msd.residue - msd.len
         m == [msd EXCEPT !.residue = residue]
     IN IF residue = 0 THEN SendCsw(NoData(m))
        ELSE \E room \in Positive :
               ReceiveData([m EXCEPT !.lba = @ + msd.len, !.len = Least(room, residue)])

\* What the driver starts a command with, and leaves a reset with.
Cleared(m) == [NoData(m) EXCEPT !.bot = "IDLE", !.st = "FAIL", !.residue = 0, !.tag = 0, !.cbw = None]

\* BOT_SEND_STATUS: the status has gone.
StatusSent ==
  /\ msd.bot = "SEND_STATUS" /\ irq.tx = "ok"
  /\ msd' = Cleared(msd) /\ pipe' = Prepared(pipe)
  /\ UNCHANGED disk

\* Mutant: the status is not sent after the halt.
StatusStalledForgets ==
  /\ msd.bot = "SEND_STATUS" /\ irq.tx = "stall"
  /\ UNCHANGED <<msd, pipe, disk>>

\* The halt before the status has been seen by the host.
StatusStalled ==
  /\ msd.bot = "SEND_STATUS" /\ irq.tx = "stall"
  /\ SendCsw([msd EXCEPT !.st = IF @ = "LESSDATAPASS" THEN "PASS" ELSE @])
  /\ UNCHANGED disk

\* An end that the state does not expect, most of them behind an ASSERT.
Unexpected ==
  /\ \/ msd.bot = "IDLE" /\ irq.rx # "ok" /\ Assert(msd)
     \/ msd.bot = "DATA_TX" /\ irq.tx # "ok" /\ Assert(msd)
     \/ msd.bot = "DATA_RX" /\ irq.rx = "none" /\ Assert(msd)
     \/ msd.bot = "DATA_RX" /\ irq.rx = "stall" /\ Assert(msd)
     \/ msd.bot = "SEND_STATUS" /\ irq.tx = "none" /\ UNCHANGED <<msd, pipe>>
     \/ msd.bot = "ABORTED" /\ Abort(msd)
  /\ UNCHANGED disk

\* usbd_msc_tx_complete_cb and usbd_msc_rx_cb, and the events they leave.
BotFsm ==
  /\ irq.tx # "none" \/ irq.rx # "none"
  /\ Command \/ DataTx \/ DataRx \/ StatusSent \/ StatusStalled \/ Unexpected
  /\ irq' = [tx |-> "none", rx |-> "none"]
  /\ UNCHANGED host

---------------------------------------------------------------------------
(* The host and the bus (external).                                        *)

Quiet == irq.tx = "none" /\ irq.rx = "none"

HostCommand(c) ==
  /\ host.phase = "idle" /\ Quiet /\ host.num < MaxCmds
  /\ host' = [host EXCEPT !.phase = "command", !.num = @ + 1, !.got = <<>>, !.sent = 0,
                          !.cmd = [num |-> host.num + 1, op |-> c.op, xfr |-> c.xfr, dir |-> c.dir,
                                   alloc |-> c.alloc, lba |-> c.lba, odd |-> c.odd]]
  /\ UNCHANGED <<msd, pipe, irq, disk>>

HostCbw ==
  /\ host.phase = "command" /\ Quiet /\ pipe.out > 0 /\ ~pipe.outHalt
  /\ pipe' = [pipe EXCEPT !.out = 0, !.rx = <<host.cmd>>]
  /\ irq' = [irq EXCEPT !.rx = "ok"]
  /\ host' = [host EXCEPT !.phase = IF host.cmd.xfr = 0 THEN "status" ELSE host.cmd.dir]
  /\ UNCHANGED <<msd, disk>>

\* A halted endpoint answers STALL, and the host clears the halt.
HostStalled ==
  /\ Quiet
  /\ \/ /\ host.phase \in {"in", "status"} /\ pipe.inHalt
        /\ irq' = [irq EXCEPT !.tx = "stall"] /\ host' = [host EXCEPT !.phase = "clearIn"]
     \/ /\ host.phase = "out" /\ pipe.outHalt
        /\ irq' = [irq EXCEPT !.rx = "stall"] /\ host' = [host EXCEPT !.phase = "clearOut"]
  /\ UNCHANGED <<msd, pipe, disk>>

HostClears ==
  /\ Quiet /\ host.phase \in {"clearIn", "clearOut"}
  /\ pipe' = IF host.phase = "clearIn" THEN [pipe EXCEPT !.inHalt = FALSE]
             ELSE [pipe EXCEPT !.outHalt = FALSE]
  /\ host' = [host EXCEPT !.phase = "status"]
  /\ UNCHANGED <<msd, irq, disk>>

\* Data for the host: a piece that is no more than it asked for; a short one ends the
\* phase, and more than it asked for is an error it recovers from by a reset.
HostIn ==
  /\ host.phase = "in" /\ Quiet /\ ~pipe.inHalt /\ pipe.in # None
  /\ LET vals == IF pipe.in.kind = "data" THEN pipe.in.vals ELSE <<"csw">>
         got == host.got \o vals
     IN host' = [host EXCEPT !.got = got,
                   !.phase = IF Len(got) > host.cmd.xfr THEN "reset"
                             ELSE IF Len(got) = host.cmd.xfr \/ host.cmd.op # "READ" THEN "status"
                             ELSE "in"]
  /\ pipe' = [pipe EXCEPT !.in = None]
  /\ irq' = [irq EXCEPT !.tx = "ok"]
  /\ UNCHANGED <<msd, disk>>

HostOut ==
  /\ host.phase = "out" /\ Quiet /\ ~pipe.outHalt /\ pipe.out > 0
  /\ LET n == Least(pipe.out, host.cmd.xfr - host.sent)
     IN /\ host' = [host EXCEPT !.sent = @ + n,
                                !.phase = IF host.sent + n = host.cmd.xfr THEN "status" ELSE "out"]
        /\ pipe' = [pipe EXCEPT !.out = 0, !.rx = [i \in 1..n |-> host.cmd.num]]
  /\ irq' = [irq EXCEPT !.rx = "ok"]
  /\ UNCHANGED <<msd, disk>>

\* The status: one that is not valid, or says phase error, leads to a reset.
HostStatus ==
  /\ host.phase = "status" /\ Quiet /\ ~pipe.inHalt /\ pipe.in # None
  /\ LET csw == pipe.in
     IN host' = IF csw.kind = "csw" /\ csw.status \in {"PASS", "FAIL"}
                THEN [host EXCEPT !.phase = "idle", !.cmd = None,
                        !.answer = [num |-> csw.num, passed |-> csw.status = "PASS", got |-> host.got,
                                    lost |-> csw.residue,
                                    left |-> host.cmd.xfr - Len(host.got) - host.sent]]
                ELSE [host EXCEPT !.phase = "reset"]
  /\ pipe' = [pipe EXCEPT !.in = None]
  /\ irq' = [irq EXCEPT !.tx = "ok"]
  /\ UNCHANGED <<msd, disk>>

\* The device has nothing to do, and the host nothing but to wait.
Waits ==
  /\ Quiet
  /\ \/ host.phase = "command" /\ pipe.out = 0
     \/ host.phase \in {"in", "status"} /\ ~pipe.inHalt /\ pipe.in = None
     \/ host.phase = "out" /\ ~pipe.outHalt /\ pipe.out = 0

HostGivesUp ==
  /\ Waits \/ ("impatient" \in Env /\ host.phase \notin {"idle", "reset"} /\ Quiet)
  /\ host' = [host EXCEPT !.phase = "reset"]
  /\ UNCHANGED <<msd, pipe, irq, disk>>

\* Reset recovery: BMS_RESET (usbd_msc_process_request_cb), and the two halts cleared.
\* What waits in the IN FIFO is left there.
BmsReset ==
  /\ host.phase = "reset" /\ Quiet
  /\ msd' = Cleared(msd)
  /\ pipe' = [Prepared(pipe) EXCEPT !.inHalt = FALSE, !.outHalt = FALSE]
  /\ host' = [host EXCEPT !.phase = "idle", !.cmd = None]
  /\ UNCHANGED <<irq, disk>>

\* The bus is reset, which empties the FIFOs, and the device configured again:
\* usbd_msc_release_cb and usbd_msc_init_cb.  The capacity is remembered.
Configure ==
  /\ Quiet
  /\ msd' = Cleared(msd)
  /\ pipe' = Prepared([pipe EXCEPT !.in = None, !.inHalt = FALSE, !.outHalt = FALSE])
  /\ host' = [host EXCEPT !.phase = "idle", !.cmd = None]
  /\ UNCHANGED <<irq, disk>>

---------------------------------------------------------------------------
Init ==
  /\ msd = [bot |-> "IDLE", st |-> "FAIL", residue |-> 0, tag |-> 0, req |-> "ZDR", src |-> None,
            len |-> 0, lba |-> 0, cbw |-> None, known |-> FALSE, failed |-> FALSE]
  /\ pipe = [in |-> None, out |-> 1, rx |-> <<>>, inHalt |-> FALSE, outHalt |-> FALSE]
  /\ irq = [tx |-> "none", rx |-> "none"]
  /\ disk = [b \in 0..(Blocks - 1) |-> 0]
  /\ host = [phase |-> "idle", cmd |-> None, got |-> <<>>, sent |-> 0, num |-> 0,
             answer |-> [num |-> 0, passed |-> FALSE, got |-> <<>>, lost |-> 0, left |-> 0]]

\* A host asks for the capacity before it reads or writes, and for no block that is
\* not there.
Sensible(c) == c.op \in {"READ", "WRITE"} => msd.known /\ c.lba + c.xfr <= Blocks

HostGoesOn == HostCbw \/ HostStalled \/ HostClears \/ HostIn \/ HostOut \/ HostStatus
              \/ HostGivesUp \/ BmsReset

Next == BotFsm \/ HostGoesOn \/ Configure
        \/ \E c \in Commands : Sensible(c) /\ HostCommand(c)

Spec == Init /\ [][Next]_vars

---------------------------------------------------------------------------
(* Properties.                                                             *)

\* No ASSERT of the state machine fails, and the endpoints are as its state has it:
\* prepared for a command when it is idle, halted for a reset when it has aborted one
\* and the host has not tried them yet (mss_usb_device_msd.c:937, 1031, 1446).
TypeOK ==
  /\ ~msd.failed
  /\ msd.bot \in {"IDLE", "DATA_TX", "DATA_RX", "SEND_STATUS", "ABORTED"}
  /\ msd.bot = "IDLE" /\ irq.rx = "none" => pipe.out = 1 /\ pipe.in = None
  /\ msd.bot = "DATA_RX" /\ irq.rx = "none" => pipe.out = msd.len /\ msd.len > 0
  /\ msd.bot = "DATA_TX" => (pipe.in # None) # (irq.tx # "none")

\* The status never says that more was transferred than was (mss_usb_device_msd.c:766,
\* 955, 1052).
ResidueIsSafe == host.answer.lost >= host.answer.left

\* A host that keeps to the protocol is never left waiting for a device that has
\* nothing to do, unless the device has asked for a reset by halting its endpoints
\* (mss_usb_device_msd.c:1446).
NeverLeftWaiting == Waits => msd.bot = "ABORTED"

\* Towards the host the device is a BlockDevice.
Device == INSTANCE BlockDevice WITH
  Blocks <- 0..(Blocks - 1), cmd <- host.cmd,
  answer <- [num |-> host.answer.num, passed |-> host.answer.passed, got |-> host.answer.got]
ImplementsBlockDevice == Device!Spec
=============================================================================
