----------------------------- MODULE UsbMsdInv -----------------------------
(***************************************************************************)
(* The inductive invariant of UsbMsd, for a host that asks what the CBW and *)
(* the command in it agree about.  Checked by TLC and proved in            *)
(* UsbMsdProofs.                                                           *)
(***************************************************************************)
EXTENDS UsbMsd

\* The host is patient, and asks for data in the direction and of the length that the
\* command in the CBW says; for the capacity, of the length it has.
Matched ==
  /\ Env = {}
  /\ \A c \in Commands :
       /\ c.op \notin {"TEST_UNIT_READY", "OTHER", "BAD"} =>
            /\ c.xfr > 0 /\ c.alloc = c.xfr
            /\ c.dir = IF c.op = "WRITE" THEN "out" ELSE "in"
       /\ c.op = "READ_CAPACITY" => c.xfr = Resp

\* The command under way.
Proper(c) ==
  /\ c \in Cbws
  /\ c.op \notin {"TEST_UNIT_READY", "OTHER", "BAD"} =>
       /\ c.xfr > 0 /\ c.alloc = c.xfr
       /\ c.dir = IF c.op = "WRITE" THEN "out" ELSE "in"
  /\ c.op = "READ_CAPACITY" => c.xfr = Resp
  /\ c.op \in {"READ", "WRITE"} => msd.known /\ c.lba + c.xfr <= Blocks
  /\ c.num = host.num /\ c.num > host.answer.num

Shapes ==
  /\ DOMAIN msd = {"bot", "st", "residue", "tag", "req", "src", "len", "lba", "cbw", "known", "failed"}
  /\ DOMAIN pipe = {"in", "out", "rx", "inHalt", "outHalt"}
  /\ DOMAIN irq = {"tx", "rx"}
  /\ DOMAIN host = {"phase", "cmd", "got", "sent", "num", "answer"}
  /\ disk \in [0 .. Blocks - 1 -> Nat]
  /\ msd.residue \in Nat /\ msd.tag \in Nat /\ msd.len \in Nat /\ msd.lba \in Nat
  /\ msd.st \in Statuses /\ ~msd.failed
  /\ msd.bot \in {"IDLE", "DATA_TX", "DATA_RX", "SEND_STATUS", "ABORTED"}
  /\ irq.tx \in {"none", "ok", "stall"} /\ irq.rx \in {"none", "ok", "stall"}
  /\ pipe.inHalt \in BOOLEAN /\ pipe.outHalt \in BOOLEAN /\ pipe.out \in Nat
  /\ host.phase \in {"idle", "command", "in", "out", "status", "clearIn", "clearOut", "reset"}
  /\ host.num \in Nat /\ host.sent \in Nat /\ host.answer.num \in 0 .. host.num

Halts == pipe.inHalt \/ pipe.outHalt
Clean == pipe.in = None /\ ~Halts

\* The host has a command from the time it takes one to its status or a reset, and the
\* state machine is at its data or status, or has aborted it.
AtCommand ==
  /\ host.phase = "idle" <=> host.cmd = None
  /\ host.cmd # None => Proper(host.cmd)
  /\ host.phase \in {"idle", "command"} => msd.bot = "IDLE" \/ irq.tx = "ok"
  /\ msd.bot # "IDLE" /\ host.cmd # None => msd.tag = host.cmd.num
  /\ msd.bot # "IDLE" => pipe.out = 0 \/ msd.bot = "DATA_RX"

AtIdle ==
  msd.bot = "IDLE" =>
    /\ Clean /\ irq.tx = "none"
    /\ IF irq.rx = "none" THEN pipe.out = 1 /\ host.phase \in {"idle", "command"}
       ELSE /\ irq.rx = "ok" /\ pipe.out = 0 /\ host.cmd # None /\ pipe.rx = <<host.cmd>>
            /\ host.phase = IF host.cmd.xfr = 0 THEN "status" ELSE host.cmd.dir
    /\ host.phase # "idle" => host.got = <<>> /\ host.sent = 0

\* What the blocks of a read hold, up to the n-th; and that a write has written them.
Returned(n) == [i \in 1 .. n |-> disk[host.cmd.lba + i - 1]]
Written(n)  == \A b \in host.cmd.lba .. host.cmd.lba + n - 1 : disk[b] = host.cmd.num

\* A piece of data waits for the host, or has gone.
AtDataTx ==
  msd.bot = "DATA_TX" =>
    /\ host.cmd # None /\ host.cmd.dir = "in" /\ host.sent = 0 /\ ~Halts /\ irq.rx = "none"
    /\ msd.len > 0 /\ msd.residue <= host.cmd.xfr
    /\ IF host.cmd.op = "READ"
       THEN /\ msd.st = "PASS" /\ msd.src = "media" /\ msd.len <= msd.residue
            /\ msd.lba = host.cmd.lba + host.cmd.xfr - msd.residue
       ELSE /\ msd.st \in {"PASS", "LESSDATAPASS"} /\ msd.src = "resp"
            /\ msd.residue = host.cmd.xfr
            /\ msd.st = "PASS" => msd.len = msd.residue
    /\ IF irq.tx = "none"
       THEN /\ pipe.in = Piece(msd) /\ host.phase = "in"
            /\ host.got = IF host.cmd.op = "READ" THEN Returned(host.cmd.xfr - msd.residue) ELSE <<>>
       ELSE /\ irq.tx = "ok" /\ pipe.in = None
            /\ IF host.cmd.op = "READ"
               THEN /\ host.got = Returned(host.cmd.xfr - msd.residue + msd.len)
                    /\ host.phase = IF msd.len = msd.residue THEN "status" ELSE "in"
               ELSE /\ Len(host.got) = msd.len /\ host.phase \in {"status", "reset"}
                    /\ msd.st = "PASS" => host.phase = "status"

AtDataRx ==
  msd.bot = "DATA_RX" =>
    /\ host.cmd # None /\ host.cmd.op = "WRITE" /\ host.got = <<>> /\ Clean /\ irq.tx = "none"
    /\ msd.st = "PASS" /\ msd.len > 0 /\ msd.len <= msd.residue /\ msd.residue <= host.cmd.xfr
    /\ msd.lba = host.cmd.lba + host.cmd.xfr - msd.residue
    /\ Written(host.cmd.xfr - msd.residue)
    /\ IF irq.rx = "none"
       THEN /\ pipe.out = msd.len /\ host.phase = "out"
            /\ host.sent = host.cmd.xfr - msd.residue
       ELSE /\ irq.rx = "ok" /\ pipe.out = 0 /\ pipe.rx = [i \in 1 .. msd.len |-> host.cmd.num]
            /\ host.sent = host.cmd.xfr - msd.residue + msd.len
            /\ host.phase = IF msd.len = msd.residue THEN "status" ELSE "out"

\* A status of success is that of a command with all of its effect, and no status
\* says that more has been transferred than has.
AtStatus ==
  msd.bot = "SEND_STATUS" =>
    IF irq.tx = "ok" THEN host.phase = "idle" /\ Clean /\ irq.rx = "none"
    ELSE /\ host.cmd # None /\ msd.st \in {"PASS", "FAIL"}
         /\ msd.residue >= host.cmd.xfr - Len(host.got) - host.sent
         /\ msd.st = "PASS" /\ host.cmd.op = "READ" => host.got = Returned(host.cmd.xfr)
         /\ msd.st = "PASS" /\ host.cmd.op = "WRITE" => Written(host.cmd.xfr)
         /\ IF pipe.in = None
            THEN /\ pipe.inHalt
                 /\ host.phase \in {"in", "out", "status", "clearIn", "clearOut", "reset"}
                 /\ pipe.outHalt => host.phase \in {"out", "clearOut"}
                 /\ host.phase \in {"out", "clearOut"} => pipe.outHalt
                 /\ host.phase = "clearIn" <=> irq.tx = "stall"
                 /\ irq.rx = "ok" => FALSE
                 /\ irq.rx = "stall" => host.phase = "clearOut"
            ELSE /\ pipe.in = Csw(msd) /\ ~pipe.outHalt /\ irq.tx = "none" /\ irq.rx = "none"
                 /\ host.phase = IF pipe.inHalt THEN "clearIn" ELSE "status"

AtAbort ==
  msd.bot = "ABORTED" =>
    pipe.in = None /\ host.cmd # None /\ irq.tx # "ok" /\ irq.rx # "ok" /\ host.phase # "command"

IInv ==
  /\ Shapes /\ AtCommand /\ AtIdle /\ AtDataTx /\ AtDataRx /\ AtStatus /\ AtAbort
  /\ ResidueIsSafe
=============================================================================
