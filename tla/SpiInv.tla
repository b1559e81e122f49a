------------------------------- MODULE SpiInv -------------------------------
(***************************************************************************)
(* The inductive invariants of Spi: WireInv, from which its types and       *)
(* InTransit follow whatever the two ends do, PacketInv, from which         *)
(* PacketIsWhole follows as long as the master is as patient as the slave   *)
(* needs (Patient), and ReadInv, from which ReadIsRight follows if also the *)
(* slave's buffer is not too short (LongEnough).  Checked by TLC and proved *)
(* in SpiProofs.                                                            *)
(***************************************************************************)
EXTENDS Spi

Sequential(s) == s \in Seq(ToSet(s))

\* How many frames a FIFO, or a log, holds.
Level(s) == Len(s)

MasterFields ==
  {"pc", "w", "r", "txi", "xfer", "transit", "base", "rd", "tx", "rx", "ovf", "on", "left"}
DriverFields ==
  {"mode", "cmdHandler", "blockHandler", "frameHandler", "cmdDone", "txSize", "txIdx", "rx",
   "rxIdx", "resp", "respSize", "respIdx", "txFrame"}
HardwareFields == {"tx", "rx", "ris", "en", "auto", "cnt", "lim"}

MasterNumbers ==
  /\ DOMAIN m = MasterFields /\ DOMAIN bus = {"sel", "n", "t"}
  /\ m.pc \in {"idle", "ready", "block", "txdone", "rxready", "disabled", "started", "dma"}
  /\ {m.w, m.r, m.txi, m.xfer, m.transit, m.base, m.left} \subseteq Nat
  /\ Sequential(m.tx) /\ Level(m.tx) <= Depth /\ Sequential(m.rx) /\ Level(m.rx) <= Depth
  /\ bus.sel \in BOOLEAN /\ bus.n \in 0..MaxFrames /\ bus.t \in 0..MaxTrans
MasterTypes == MasterNumbers /\ m.ovf \in BOOLEAN

\* The slave's record and its hardware, also within a step of the handler.
SlaveNumbers(x) ==
  /\ DOMAIN x = {"d", "h"} /\ DOMAIN x.d = DriverFields /\ DOMAIN x.h = HardwareFields
  /\ x.d.mode \in {"NONE", "BLOCK", "FRAME"}
  /\ Sequential(x.d.rx) /\ Level(x.d.rx) = RxSize
  /\ {x.d.txSize, x.d.txIdx, x.d.rxIdx, x.d.respSize, x.d.respIdx} \subseteq Nat
  /\ x.d.respIdx <= x.d.respSize
  /\ Sequential(x.h.tx) /\ Level(x.h.tx) <= Depth
  /\ Sequential(x.h.rx) /\ Level(x.h.rx) <= Depth
  /\ x.h.ris \subseteq ToSet(Sources) /\ x.h.en \subseteq ToSet(Sources)
  /\ {x.h.cnt, x.h.lim} \subseteq Nat
SlaveFlags(x) ==
  {x.d.cmdHandler, x.d.blockHandler, x.d.frameHandler, x.d.cmdDone} \subseteq BOOLEAN
SlaveTypes(x) == SlaveNumbers(x) /\ SlaveFlags(x)

LogTypes == DOMAIN log = {"sent", "got", "missed", "fault", "with"} /\ log.fault \in BOOLEAN

\* The frames of a transaction are those that have been shifted and those that wait
\* in the master's FIFO; what a call has still to write fits in the transaction.
Behind == bus.n + Level(m.tx) = m.base + m.txi
Counted ==
  /\ bus.sel <=> m.pc # "idle"
  /\ m.pc \in {"idle", "ready", "rxready", "disabled"} => m.tx = <<>>
  /\ m.pc = "txdone" => m.left = Level(m.tx) /\ bus.n + m.left <= MaxFrames
  /\ m.pc \in {"started", "dma"} =>
       /\ Behind /\ m.txi <= m.w
       /\ m.left + bus.n = m.base + m.w /\ m.base + m.w <= MaxFrames
  /\ m.pc = "block" =>
       /\ Behind /\ m.txi <= m.w + m.r
       /\ m.w + m.r < Wrap /\ m.base + m.w + m.r <= MaxFrames

\* MSS_SPI_transfer_block has as many frames on their way as its receiver has room for.
OnTheirWay ==
  m.pc = "block" => /\ ~m.ovf /\ m.transit <= InFlight
                    /\ m.transit = Level(m.tx) + Level(m.rx)
                    /\ m.xfer + m.transit = m.txi

\* The interrupts that each mode has enabled, and what it leaves of the set-up before it.
\* In frame mode an answer that was shifted out is owed to the FIFO, or is back in it.
\* One that is shifted out before TXDONE is cleared (Clearing) is not owed any more.
Clearing(source) == isr > NSources /\ Sources[isr - NSources] = source
Owed == IF "TXDONE" \in h.ris /\ ~Clearing("TXDONE") THEN 1 ELSE 0
Modes ==
  /\ h.lim = 1 => h.cnt = 0
  /\ bus.t = 0 => ~bus.sel /\ bus.n = 0 /\ h.ris = {} /\ h.rx = <<>> /\ isr = 0
  /\ d.mode = "NONE" =>
       /\ bus.t = 0 /\ h.tx = <<>> /\ h.en \subseteq {"CMD"} /\ h.lim = 1
       /\ ~d.frameHandler /\ d.txSize = 0
  /\ d.mode = "BLOCK" =>
       d.blockHandler /\ {"SSEND", "RXDONE", "TXURUN", "RXOVFLOW"} \subseteq h.en
  /\ d.mode = "FRAME" =>
       /\ h.lim = 1 /\ "CMD" \notin h.en /\ "SSEND" \notin h.en
       /\ d.frameHandler => "RXDONE" \in h.en
       /\ Level(h.tx) + Owed <= 2

MasterSide == MasterTypes /\ Counted /\ OnTheirWay
SlaveSide == SlaveTypes(Here) /\ isr \in 0..2 * NSources /\ LogTypes /\ Modes

WireInv == MasterSide /\ SlaveSide

---------------------------------------------------------------------------
\* The master leaves the slave the time it needs: to serve the end of a packet before
\* the next one, and an overflow before the end of the packet.
Patient == Env = {}

\* The end of the packet is raised by the end of the transaction and pending until the
\* slave is as it was before it; an overflow is a fault, and is served in the transaction.
Over == ~bus.sel /\ ("SSEND" \notin h.ris \/ Clearing("SSEND"))
Ends ==
  /\ "RXOVFLOW" \in h.ris => log.fault
  /\ d.mode = "BLOCK" =>
       /\ IF bus.sel THEN "SSEND" \notin h.ris ELSE "RXOVFLOW" \notin h.ris
       /\ "SSEND" \in h.ris => bus.n > 0
       /\ Clearing("SSEND") => ~bus.sel /\ "SSEND" \in h.ris
       /\ Over => d.rxIdx = 0 /\ h.rx = <<>>

\* What the master sent is split, in order, over what has been taken and the FIFO.
InOrder(k) ==
  /\ k + Level(h.rx) = Level(log.sent)
  /\ \A i \in 1..Level(h.rx) : h.rx[i] = log.sent[k + i]

Packet == [size |-> Level(log.sent),
           data |-> SubSeq(log.sent, 1, Least(Level(log.sent), RxSize))]

\* Block mode: in the buffer, as far as it reaches, and given when the packet has ended.
BlockKept ==
  d.mode = "BLOCK" /\ ~log.fault =>
    IF ~Over \/ bus.n = 0
      THEN /\ log.got = <<>> /\ InOrder(d.rxIdx)
           /\ \A i \in 1..RxSize : i <= d.rxIdx => d.rx[i] = log.sent[i]
      ELSE log.got = <<Packet>>

\* Frame mode: given to the handler; a frame in the FIFO has its interrupt raised, or was
\* there when that was cleared.
FrameKept ==
  d.mode = "FRAME" /\ d.frameHandler =>
    /\ h.rx # <<>> => "RXDONE" \in h.ris \/ log.missed
    /\ ~log.fault => /\ InOrder(Level(log.got))
                     /\ \A i \in 1..Level(log.got) : log.got[i] = log.sent[i]

Sent ==
  /\ Sequential(log.sent)
  /\ d.mode # "FRAME" => Level(log.sent) = bus.n
  /\ Sequential(log.got)
  /\ bus.t = 0 => log.got = <<>> /\ log.sent = <<>>

PacketInv == WireInv /\ Sent /\ Ends /\ BlockKept /\ FrameKept

---------------------------------------------------------------------------
\* The frames of the buffer reach as far as the interrupt that asks for more, or the
\* slave has nothing to say.
LongEnough == \A n \in TxSizes : n = 0 \/ n >= Threshold

\* How the slave is set up: CMD is enabled until the command has been served, and the
\* response belongs to a command that has; a slave with a buffer sends no zeros of its own.
Prepared ==
  /\ d.mode # "FRAME" =>
       /\ "CMD" \in h.en <=> ~d.cmdDone
       /\ ~d.cmdHandler => d.cmdDone
       /\ ~d.cmdHandler \/ ~d.cmdDone => d.respSize = 0
       /\ d.cmdHandler /\ d.cmdDone => d.respSize = RespSize
       /\ d.txFrame = Zero
  /\ d.mode = "NONE" /\ d.cmdHandler => ~d.cmdDone
  /\ d.mode = "BLOCK" =>
       /\ h.lim = Threshold /\ h.cnt < h.lim /\ d.txSize \in TxSizes
       /\ d.txSize > 0 => ~h.auto /\ "TXDONE" \in h.en
       /\ d.cmdHandler => d.txSize > CmdSize
  /\ d.mode = "FRAME" =>
       /\ d.txSize = 0
       /\ d.txFrame # Zero => ~h.auto /\ "TXDONE" \in h.en

\* What the driver has for the p-th frame of a transaction.
Reply(x, p) ==
  IF p <= x.d.txSize THEN <<"tx", p>>
  ELSE IF p <= x.d.txSize + x.d.respSize THEN <<"resp", x.d.resp, p - x.d.txSize>>
  ELSE Zero

\* After n frames, the FIFO has those that follow, and the indices are behind the last.
Holds(s, x, n) == \A j \in 1..Level(s) : s[j] = Reply(x, n + j)
Indexed(x, put) ==
  /\ x.d.txIdx = put \/ (x.d.txIdx >= x.d.txSize /\ put >= x.d.txSize)
  /\ x.d.respIdx = Least(Less(put, x.d.txSize), x.d.respSize)
  /\ x.d.cmdDone \/ put <= x.d.txSize
Loaded(x, n) == Holds(x.h.tx, x, n) /\ Indexed(x, n + Level(x.h.tx))

\* It does not run empty before the interrupt that asks for more.
Fed(x, n) ==
  \/ "TXDONE" \in x.h.ris
  \/ Level(x.h.tx) + x.h.cnt >= x.h.lim
  \/ ~x.d.cmdDone /\ n + Level(x.h.tx) >= x.d.txSize

Commanded(x, n) ==
  x.d.cmdHandler => ("CMD" \in x.h.ris \/ x.d.cmdDone <=> n >= CmdSize)

\* Block mode: in a transaction, unless the slave was too late in it, and before the next.
Answering ==
  /\ d.mode = "BLOCK" /\ d.txSize > 0
  /\ IF bus.sel THEN ~log.fault ELSE Over
At == IF bus.sel THEN bus.n ELSE 0
Answers ==
  Answering => /\ Loaded(Here, At) /\ Fed(Here, At) /\ Commanded(Here, At)
               /\ bus.sel => "TXURUN" \notin h.ris
               /\ d.cmdHandler /\ d.cmdDone => d.resp = log.sent[1]

\* Until its source is cleared, a command that was served is over, and a FIFO that was
\* filled between two transactions is full.
Served ==
  d.mode = "BLOCK" =>
    /\ Clearing("CMD") => d.cmdDone
    /\ Clearing("TXDONE") /\ Answering /\ ~bus.sel => ~Starved

\* Frame mode: the frame is in the FIFO, or the interrupt that asks for it is raised.
FrameReady ==
  d.mode = "FRAME" /\ d.txFrame # Zero /\ ~log.fault =>
    /\ Level(h.tx) + Owed = 1 \/ (h.tx = <<>> /\ Clearing("TXDONE"))
    /\ "TXURUN" \notin h.ris
    /\ \A j \in 1..Level(h.tx) : h.tx[j] = d.txFrame

AsSetUp ==
  /\ bus.sel => log.with = [size |-> d.txSize, cmd |-> d.cmdHandler, frame |-> d.txFrame]
  /\ bus.t = 0 => ~log.fault

\* The master transfers as the slave does, and reads when it has written.
InMode ==
  /\ m.pc = "block" => d.mode = "BLOCK" /\ Level(m.rd) = Less(m.xfer, m.w)
  /\ m.pc \in {"txdone", "rxready"} => d.mode = "FRAME"
  /\ m.pc \in {"block", "ready"} => Sequential(m.rd)
  /\ m.pc \in {"disabled", "started", "dma"} => m.rd = <<>>

\* What it has received, and what it has read of that, is what the slave has to say.
Reads ==
  bus.sel /\ ~log.fault /\ HasToSay =>
    /\ m.pc = "block" => \A j \in 1..Level(m.rx) : m.rx[j] = Said(m.base + m.xfer + j)
    /\ m.pc \in {"txdone", "rxready"} => \A j \in 1..Level(m.rx) : m.rx[j] = log.with.frame
    /\ m.pc \in {"block", "ready"} =>
         \A i \in 1..Level(m.rd) : m.rd[i] = Said(m.base + m.w + i)

\* What the slave has to say is in its FIFO, and what it has said is with the master.
Spoken == Prepared /\ Answers /\ FrameReady /\ AsSetUp
Heard == InMode /\ Reads
ReadInv == PacketInv /\ Spoken /\ Served /\ Heard
=============================================================================
