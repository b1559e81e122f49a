---------------------------- MODULE UsbMsdProofs ----------------------------
(***************************************************************************)
(* The device's mass storage class, for every medium, every set of          *)
(* commands that agree with their CBW, every size of the application's       *)
(* buffers and any number of commands: the state machine never asserts, no   *)
(* status says that more was transferred than was, the host is never left    *)
(* waiting, and the device is a BlockDevice.                                  *)
(*                                                                          *)
(* The invariant says, for each state of the transport, what it makes of the *)
(* command under way: how much of it has been returned or written, where the *)
(* rest is, and what waits in the endpoints.  One lemma per action shows     *)
(* that it is kept; the refinement follows from it step by step.             *)
(***************************************************************************)
EXTENDS UsbMsdInv, TLAPS
USE UsbMsdAssumption
USE DEF Clean, Halts

\* The command the host takes is a CBW, so it is not None.
LEMMA ProperKept ==
  ASSUME NEW n \in Nat, NEW c \in Commands, Matched
  PROVE [num |-> n, op |-> c.op, xfr |-> c.xfr, dir |-> c.dir, alloc |-> c.alloc, lba |-> c.lba, odd |-> c.odd] \in Cbws
BY DEF Cbws

\* HostCommand: the invariant is kept when the host takes a command.
LEMMA HostCommandStep ==
  ASSUME Matched, IInv, NEW c \in Commands, Sensible(c), HostCommand(c)
  PROVE  IInv'
<1> DEFINE C == [num |-> host.num + 1, op |-> c.op, xfr |-> c.xfr, dir |-> c.dir,
                                   alloc |-> c.alloc, lba |-> c.lba, odd |-> c.odd]
<1>0. host.num + 1 \in Nat BY DEF IInv, Shapes
<1>1. C \in Cbws /\ C # None BY <1>0, ProperKept DEF Cbws
<1>2. C.num = host.num + 1 /\ C.op = c.op /\ C.xfr = c.xfr /\ C.dir = c.dir /\ C.alloc = c.alloc /\ C.lba = c.lba
  OBVIOUS
<1>3. host'.cmd = C /\ host'.phase = "command" /\ host'.num = host.num + 1 /\ host'.got = <<>> /\ host'.sent = 0
     /\ host'.answer = host.answer /\ DOMAIN host' = DOMAIN host
     /\ UNCHANGED <<msd, pipe, irq, disk>>
  BY DEF HostCommand, IInv, Shapes
<1>4. msd.bot = "IDLE" /\ irq.rx = "none" BY DEF IInv, AtCommand, HostCommand, Quiet
<1> HIDE DEF C
<1>5. Shapes' BY SMTT(30), <1>3 DEF IInv, Shapes
<1>6. Proper(host.cmd)' BY SMTT(30), <1>1, <1>2, <1>3 DEF Matched, Sensible, Proper, IInv, Shapes
<1>7. AtCommand' BY <1>1, <1>3, <1>4, <1>6 DEF IInv, AtCommand
<1>8. AtIdle' BY <1>3, <1>4 DEF IInv, AtIdle
<1>9. AtDataTx' /\ AtDataRx' /\ AtStatus' /\ AtAbort'
  BY <1>3, <1>4 DEF AtDataTx, AtDataRx, AtStatus, AtAbort
<1>10. ResidueIsSafe' BY <1>3 DEF IInv, ResidueIsSafe
<1> QED BY <1>5, <1>7, <1>8, <1>9, <1>10 DEF IInv

\* A piece of data is not None, and has as many values as its length says.
LEMMA PieceOf ==
  ASSUME Shapes, NEW m, m.len \in Nat, m.lba \in Nat,
         m.src = "resp" \/ (m.src = "media" /\ m.lba + m.len <= Blocks)
  PROVE  /\ Piece(m) \in Data /\ Piece(m) # None /\ Piece(m).kind = "data"
         /\ Piece(m).vals = [i \in 1 .. m.len |-> IF m.src = "media" THEN disk[m.lba + i - 1] ELSE "r"]
         /\ Len(Piece(m).vals) = m.len
<1> DEFINE v == [i \in 1 .. m.len |-> IF m.src = "media" THEN disk[m.lba + i - 1] ELSE "r"]
<1>1. v \in Seq(Nat) \union Seq({"r"}) /\ Len(v) = m.len
  <2>1. CASE m.src = "resp" BY <2>1
  <2>2. CASE m.src = "media" /\ m.lba + m.len <= Blocks
    <3>1. \A i \in 1 .. m.len : m.lba + i - 1 \in 0 .. Blocks - 1 BY <2>2
    <3>2. \A i \in 1 .. m.len : disk[m.lba + i - 1] \in Nat BY <3>1 DEF Shapes
    <3> QED BY SMTT(30), <2>2, <3>2
  <2> QED BY <2>1, <2>2
<1>2. Piece(m) = [kind |-> "data", vals |-> v] BY DEF Piece
<1> HIDE DEF v
<1>3. Piece(m) \in Data BY <1>1, <1>2 DEF Data
<1>4. Piece(m).kind = "data" /\ Piece(m).vals = v BY <1>2
<1> QED BY <1>1, <1>3, <1>4 DEF v

\* A status is not None, and its fields are the driver's.
LEMMA CswOf ==
  ASSUME NEW m, m.tag \in Nat, m.residue \in Nat, m.st \in Statuses
  PROVE  /\ Csw(m) \in Csws /\ Csw(m) # None /\ Csw(m).kind = "csw"
         /\ Csw(m).num = m.tag /\ Csw(m).residue = m.residue /\ Csw(m).status = m.st
BY DEF Csw, Csws

\* While the data go to the host, the piece the driver has cut is one of data.
LEMMA PieceWaits ==
  ASSUME IInv, msd.bot = "DATA_TX"
  PROVE  /\ Piece(msd) # None /\ Piece(msd).kind = "data"
         /\ Piece(msd).vals = [i \in 1 .. msd.len |-> IF msd.src = "media" THEN disk[msd.lba + i - 1] ELSE "r"]
         /\ Len(Piece(msd).vals) = msd.len
         /\ Proper(host.cmd)
<1>1. host.cmd # None /\ Proper(host.cmd) /\ Shapes BY DEF IInv, AtCommand, AtDataTx
<1>2. msd.len \in Nat /\ msd.lba \in Nat BY <1>1 DEF Shapes
<1>3. msd.src = "resp" \/ (msd.src = "media" /\ msd.lba + msd.len <= Blocks)
  BY SMTT(30), <1>1 DEF Proper, Cbws, IInv, AtDataTx, Shapes
<1> QED BY <1>1, <1>2, <1>3, PieceOf

\* What the invariant says of the endpoints leaves a host waiting only after an abort.
LEMMA WaitsOnlyAborted ==
  ASSUME IInv PROVE NeverLeftWaiting
BY PieceWaits
   DEF IInv, NeverLeftWaiting, Waits, Quiet, AtIdle, AtDataTx, AtDataRx, AtStatus, AtCommand,
       Shapes, Piece, Data

\* Two pieces of one sequence, one after the other.
LEMMA Concatenated ==
  ASSUME NEW S, NEW k \in Nat, NEW n \in Nat, NEW f(_), \A i \in 1 .. k + n : f(i) \in S
  PROVE  /\ [i \in 1 .. k |-> f(i)] \o [i \in 1 .. n |-> f(k + i)] = [i \in 1 .. k + n |-> f(i)]
         /\ Len([i \in 1 .. k + n |-> f(i)]) = k + n
OBVIOUS

\* HostIn: what the host has got grows by the piece, in order.
LEMMA HostInStep ==
  ASSUME Matched, IInv, HostIn PROVE IInv'
<1> DEFINE v == Piece(msd).vals
<1>1. /\ msd.bot = "DATA_TX" /\ irq.tx = "none" /\ irq.rx = "none" /\ host.phase = "in"
      /\ pipe.in = Piece(msd)
      /\ host.cmd # None /\ ~Halts /\ host.sent = 0
  BY DEF HostIn, Quiet, IInv, AtCommand, AtIdle, AtDataTx, AtDataRx, AtStatus, AtAbort, Shapes
<1>2. /\ Piece(msd).kind = "data" /\ Len(v) = msd.len /\ Proper(host.cmd)
      /\ v = [i \in 1 .. msd.len |-> IF msd.src = "media" THEN disk[msd.lba + i - 1] ELSE "r"]
  BY <1>1, PieceWaits
<1>3. /\ msd.len \in Nat \ {0} /\ msd.residue \in Nat /\ host.cmd.xfr \in Nat
      /\ host.cmd.lba \in Nat
      /\ msd.residue <= host.cmd.xfr
  BY <1>1, <1>2 DEF IInv, Shapes, AtDataTx, Proper, Cbws
<1>4. CASE host.cmd.op = "READ"
  <2> DEFINE k == host.cmd.xfr - msd.residue
             f(i) == disk[host.cmd.lba + i - 1]
  <2>1. /\ k \in Nat /\ k + msd.len <= host.cmd.xfr /\ msd.lba = host.cmd.lba + k
        /\ host.got = Returned(k)
        /\ msd.src = "media" /\ host.cmd.lba + host.cmd.xfr <= Blocks
    BY <1>1, <1>2, <1>3, <1>4 DEF IInv, AtDataTx, Proper
  <2>2. v = [i \in 1 .. msd.len |-> f(k + i)]
    BY SMTT(30), <1>2, <1>3, <2>1
  <2>3. \A i \in 1 .. k + msd.len : f(i) \in Nat
    <3>1. \A i \in 1 .. k + msd.len : host.cmd.lba + i - 1 \in 0 .. Blocks - 1 BY <1>3, <2>1
    <3> QED BY <3>1 DEF IInv, Shapes
  <2> HIDE DEF k, v
  <2>4. host.got \o v = Returned(k + msd.len) /\ Len(host.got \o v) = k + msd.len
    <3>1. /\ [i \in 1 .. k |-> f(i)] \o [i \in 1 .. msd.len |-> f(k + i)] = [i \in 1 .. k + msd.len |-> f(i)]
          /\ Len([i \in 1 .. k + msd.len |-> f(i)]) = k + msd.len
      <4> HIDE DEF f
      <4> QED BY <1>3, <2>1, <2>3, Concatenated
    <3> QED BY <3>1, <2>1, <2>2 DEF Returned
  <2>5. /\ host'.got = Returned(k + msd.len) /\ host'.phase = IF k + msd.len = host.cmd.xfr THEN "status" ELSE "in"
        /\ host'.cmd = host.cmd /\ host'.sent = host.sent /\ host'.num = host.num
        /\ host'.answer = host.answer
        /\ DOMAIN host' = DOMAIN host
    <3> DEFINE g == host.got \o v
    <3>1. host' = [host EXCEPT !.got = g,
                     !.phase = IF Len(g) > host.cmd.xfr THEN "reset"
                               ELSE IF Len(g) = host.cmd.xfr \/ host.cmd.op # "READ" THEN "status"
                               ELSE "in"]
      BY <1>1, <1>2 DEF HostIn, v
    <3>2. g = Returned(k + msd.len) /\ Len(g) = k + msd.len BY <2>4
    <3> HIDE DEF g
    <3> QED BY SMTT(30), <1>3, <1>4, <2>1, <3>1, <3>2 DEF IInv, Shapes
  <2>6. UNCHANGED <<msd, disk>> /\ pipe' = [pipe EXCEPT !.in = None] /\ irq' = [irq EXCEPT !.tx = "ok"]
    BY DEF HostIn
  <2>7. Returned(k + msd.len)' = Returned(k + msd.len)
     BY <2>5, <2>6 DEF Returned, k
  <2> USE DEF IInv
  <2>8. Shapes' BY <1>1, <2>5, <2>6 DEF Shapes
  <2>9. AtCommand' BY <1>1, <2>5, <2>6 DEF AtCommand, Proper, Shapes
  <2>10. AtDataTx' BY <1>1, <1>3, <1>4, <2>5, <2>6, <2>7 DEF AtDataTx, Shapes, k, Returned
  <2>11. AtIdle' /\ AtDataRx' /\ AtStatus' /\ AtAbort'
    BY <1>1, <2>5, <2>6 DEF AtIdle, AtDataRx, AtStatus, AtAbort, Shapes
  <2>13. ResidueIsSafe' BY <2>5 DEF ResidueIsSafe, Shapes
  <2> QED BY <2>8, <2>9, <2>10, <2>11, <2>13
<1>5. CASE host.cmd.op # "READ"
  <2>1. /\ host.got = <<>> /\ msd.src = "resp" /\ msd.residue = host.cmd.xfr
        /\ msd.st \in {"PASS", "LESSDATAPASS"}
        /\ msd.st = "PASS" => msd.len = msd.residue
    BY <1>1, <1>5 DEF IInv, AtDataTx
  <2>2. v = [i \in 1 .. msd.len |-> "r"] BY <1>2, <2>1
  <2>3. v \in Seq({"r"}) BY <1>3, <2>2
  <2> HIDE DEF v
  <2>4. host.got \o v = v BY <2>1, <2>3
  <2>5. /\ Len(host'.got) = msd.len /\ host'.phase = IF msd.len > host.cmd.xfr THEN "reset" ELSE "status"
        /\ host'.cmd = host.cmd /\ host'.sent = host.sent /\ host'.num = host.num
        /\ host'.answer = host.answer
        /\ DOMAIN host' = DOMAIN host
    BY <1>1, <1>2, <1>3, <1>5, <2>1, <2>4 DEF HostIn, IInv, Shapes, v
  <2>6. UNCHANGED <<msd, disk>> /\ pipe' = [pipe EXCEPT !.in = None] /\ irq' = [irq EXCEPT !.tx = "ok"]
    BY DEF HostIn
  <2> USE DEF IInv
  <2>8. Shapes' BY <1>1, <2>5, <2>6 DEF Shapes
  <2>9. AtCommand' BY <1>1, <2>5, <2>6 DEF AtCommand, Proper, Shapes
  <2>10. AtDataTx' BY <1>1, <1>3, <1>5, <2>1, <2>5, <2>6 DEF AtDataTx, Shapes
  <2>11. AtIdle' /\ AtDataRx' /\ AtStatus' /\ AtAbort'
    BY <1>1, <2>5, <2>6 DEF AtIdle, AtDataRx, AtStatus, AtAbort, Shapes
  <2>13. ResidueIsSafe' BY <2>5 DEF ResidueIsSafe, Shapes
  <2> QED BY <2>8, <2>9, <2>10, <2>11, <2>13
<1> QED BY <1>4, <1>5

\* HostCbw: the CBW reaches an idle device.
LEMMA HostCbwStep ==
  ASSUME Matched, IInv, HostCbw PROVE IInv'
<1>1. msd.bot = "IDLE" /\ irq.rx = "none" /\ host.cmd # None
  BY DEF IInv, AtCommand, HostCbw, Quiet
<1> QED
  <2>5. Shapes' BY <1>1 DEF IInv, Shapes, HostCbw, AtCommand, Proper, Cbws
  <2>7. AtCommand' BY <1>1 DEF IInv, AtCommand, HostCbw, Proper, AtIdle, Shapes, Quiet, Cbws
  <2>8. AtIdle' BY <1>1 DEF IInv, AtIdle, HostCbw, Shapes, AtCommand, Quiet, Proper, Cbws
  <2>9. AtDataTx' /\ AtDataRx' /\ AtStatus' /\ AtAbort'
    BY <1>1 DEF AtDataTx, AtDataRx, AtStatus, AtAbort, HostCbw
  <2>10. ResidueIsSafe' BY  DEF IInv, ResidueIsSafe, HostCbw, Shapes
  <2> QED BY <2>5, <2>7, <2>8, <2>9, <2>10 DEF IInv

\* HostStalled: the host meets a halt.
LEMMA HostStalledStep ==
  ASSUME Matched, IInv, HostStalled PROVE IInv'
<1> USE DEF HostStalled, Quiet, IInv
<1>5. Shapes' BY SMTT(30) DEF Shapes
<1>7. AtCommand' BY SMTT(30) DEF AtCommand, Proper, AtIdle, Shapes
<1>8. AtIdle' BY DEF AtIdle, Shapes, AtCommand
<1>9. AtDataTx' BY DEF Shapes, AtDataTx, AtCommand
<1>10. AtDataRx' BY DEF Shapes, AtDataRx, AtCommand
<1>11. AtStatus'
  <2> SUFFICES ASSUME msd.bot = "SEND_STATUS" PROVE AtStatus' BY DEF AtStatus
  <2>1. /\ pipe.in = None /\ host.cmd # None /\ irq.tx = "none" /\ irq.rx = "none" /\ pipe.inHalt
    BY CswOf DEF AtStatus, AtCommand, Shapes
  <2>2. host'.cmd = host.cmd /\ host'.got = host.got /\ host'.sent = host.sent /\ UNCHANGED <<msd, pipe, disk>>
    BY DEF Shapes
  <2>3. irq'.tx # "ok" BY DEF Shapes
  <2>4. CASE pipe.inHalt /\ host.phase \in {"in", "status"} /\ irq' = [irq EXCEPT !.tx = "stall"] /\ host' = [host EXCEPT !.phase = "clearIn"]
    BY <2>1, <2>2, <2>3, <2>4 DEF AtStatus, Shapes, Returned, Written
  <2>5. CASE host.phase = "out" /\ pipe.outHalt
      /\ irq' = [irq EXCEPT !.rx = "stall"] /\ host' = [host EXCEPT !.phase = "clearOut"]
    BY <2>1, <2>2, <2>3, <2>5 DEF AtStatus, Shapes, Returned, Written
  <2> QED BY <2>4, <2>5
<1>12. AtAbort' BY DEF Shapes, AtAbort, AtCommand
<1>13. ResidueIsSafe' BY  DEF ResidueIsSafe, Shapes
<1> QED BY <1>5, <1>7, <1>8, <1>9, <1>10, <1>11, <1>12, <1>13 DEF IInv

\* HostClears: the halt is cleared, and the status waits or is to come.
LEMMA HostClearsStep ==
  ASSUME Matched, IInv, HostClears PROVE IInv'
<1> USE DEF HostClears, Quiet, IInv
<1>5. Shapes' BY DEF Shapes
<1>7. AtCommand' BY DEF AtCommand, Proper, AtIdle, Shapes
<1>8. AtIdle' BY DEF AtIdle, Shapes, AtCommand
<1>9. AtDataTx' BY DEF Shapes, AtDataTx, AtCommand
<1>10. AtDataRx' BY DEF Shapes, AtDataRx, AtCommand
<1>11. AtStatus' BY DEF Shapes, AtStatus, AtCommand, Returned, Written, Csw
<1>12. AtAbort' BY DEF Shapes, AtAbort, AtCommand
<1>13. ResidueIsSafe' BY  DEF ResidueIsSafe, Shapes
<1> QED BY <1>5, <1>7, <1>8, <1>9, <1>10, <1>11, <1>12, <1>13 DEF IInv

\* BmsReset: all is as at the start, but for the medium and the capacity.
LEMMA BmsResetStep ==
  ASSUME Matched, IInv, BmsReset PROVE IInv'
<1> USE DEF BmsReset, Quiet, IInv, Cleared, Prepared, NoData
<1>1. pipe.in = None BY DEF AtIdle, AtDataTx, AtDataRx, AtStatus, AtAbort, Shapes
<1>5. Shapes' BY DEF Shapes, Statuses
<1>7. AtCommand' BY DEF AtCommand, Proper, AtIdle, Shapes
<1>8. AtIdle' BY <1>1 DEF AtIdle, Shapes, AtCommand
<1>9. AtDataTx' /\ AtDataRx' /\ AtStatus' /\ AtAbort'
  BY DEF Shapes, AtDataTx, AtDataRx, AtStatus, AtAbort
<1>13. ResidueIsSafe' BY  DEF ResidueIsSafe, Shapes
<1> QED BY <1>5, <1>7, <1>8, <1>9, <1>13 DEF IInv

\* Configure: the same, with the FIFO emptied.
LEMMA ConfigureStep ==
  ASSUME Matched, IInv, Configure PROVE IInv'
<1> USE DEF Configure, Quiet, IInv, Cleared, Prepared, NoData
<1>5. Shapes' BY DEF Shapes, Statuses
<1>7. AtCommand' BY DEF AtCommand, Proper, AtIdle, Shapes
<1>8. AtIdle' BY DEF AtIdle, Shapes, AtCommand
<1>9. AtDataTx' /\ AtDataRx' /\ AtStatus' /\ AtAbort'
  BY DEF Shapes, AtDataTx, AtDataRx, AtStatus, AtAbort
<1>13. ResidueIsSafe' BY  DEF ResidueIsSafe, Shapes
<1> QED BY <1>5, <1>7, <1>8, <1>9, <1>13 DEF IInv

\* HostOut: a piece of what the host writes, of the length the driver has prepared for.
LEMMA HostOutStep ==
  ASSUME Matched, IInv, HostOut PROVE IInv'
<1>1. /\ msd.bot = "DATA_RX" /\ irq.rx = "none" /\ host.phase = "out" /\ pipe.out = msd.len
      /\ host.cmd # None /\ ~Halts /\ host.sent = host.cmd.xfr - msd.residue /\ Proper(host.cmd)
      /\ msd.len > 0 /\ msd.len <= msd.residue /\ msd.residue <= host.cmd.xfr
      /\ host.cmd.xfr \in Nat
  BY
     DEF HostOut, Quiet, IInv, AtCommand, AtIdle, AtDataTx, AtDataRx, AtStatus, AtAbort,
         Shapes, Proper, Cbws
<1>2. Least(pipe.out, host.cmd.xfr - host.sent) = msd.len BY <1>1 DEF Least, Shapes, IInv
<1> USE DEF HostOut, Quiet, IInv
<1>5. Shapes' BY SMTT(30), <1>1, <1>2 DEF Shapes
<1>7. AtCommand' BY <1>1 DEF AtCommand, Proper, Shapes
<1>8. AtIdle' /\ AtDataTx' /\ AtStatus' /\ AtAbort'
  BY <1>1 DEF AtIdle, AtDataTx, AtStatus, AtAbort
<1>10. AtDataRx' BY SMTT(30), <1>1, <1>2 DEF Shapes, AtDataRx, Written
<1>13. ResidueIsSafe' BY  DEF ResidueIsSafe, Shapes
<1> QED BY <1>5, <1>7, <1>8, <1>10, <1>13 DEF IInv

\* HostGivesUp: only after an abort.
LEMMA HostGivesUpStep ==
  ASSUME Matched, IInv, HostGivesUp PROVE IInv'
<1>1. msd.bot = "ABORTED" BY WaitsOnlyAborted DEF NeverLeftWaiting, HostGivesUp, Matched
<1> USE DEF HostGivesUp, Quiet, IInv
<1>5. Shapes' BY <1>1 DEF Shapes
<1>7. AtCommand' BY <1>1 DEF AtCommand, Proper, Shapes, AtAbort
<1>8. AtIdle' /\ AtDataTx' /\ AtDataRx' /\ AtStatus' /\ AtAbort'
  BY <1>1 DEF AtIdle, AtDataTx, AtDataRx, AtStatus, AtAbort, Shapes
<1>13. ResidueIsSafe' BY  DEF ResidueIsSafe, Shapes
<1> QED BY <1>5, <1>7, <1>8, <1>13 DEF IInv

\* HostStatus: the status is of the command under way, and its residue is safe.
LEMMA HostStatusStep ==
  ASSUME Matched, IInv, HostStatus PROVE IInv'
<1>1. /\ msd.bot = "SEND_STATUS" /\ irq.tx = "none" /\ irq.rx = "none" /\ pipe.in = Csw(msd)
      /\ ~Halts /\ host.cmd # None /\ msd.st \in {"PASS", "FAIL"} /\ msd.tag = host.cmd.num
      /\ msd.residue >= host.cmd.xfr - Len(host.got) - host.sent
  BY PieceWaits
     DEF HostStatus, Quiet, IInv, AtCommand, AtIdle, AtDataTx, AtDataRx, AtStatus, AtAbort, Shapes
<1>2. /\ Csw(msd).kind = "csw" /\ Csw(msd).num = msd.tag /\ Csw(msd).residue = msd.residue
      /\ Csw(msd).status = msd.st
  BY SMTT(30), <1>1, CswOf DEF IInv, Shapes
<1>3. host' = [host EXCEPT !.phase = "idle", !.cmd = None,
                        !.answer = [num |-> msd.tag, passed |-> msd.st = "PASS", got |-> host.got,
                                    lost |-> msd.residue,
                                    left |-> host.cmd.xfr - Len(host.got) - host.sent]]
  BY <1>1, <1>2 DEF HostStatus
<1>4. /\ host'.phase = "idle" /\ host'.cmd = None /\ host'.num = host.num
      /\ host'.sent = host.sent
      /\ host'.answer.num = msd.tag /\ host'.answer.lost = msd.residue
      /\ host'.answer.left = host.cmd.xfr - Len(host.got) - host.sent
      /\ DOMAIN host' = DOMAIN host
  BY <1>3 DEF IInv, Shapes
<1>6. msd.tag \in 0 .. host.num BY <1>1 DEF IInv, AtCommand, Proper, Shapes
<1>7. pipe' = [pipe EXCEPT !.in = None] /\ irq' = [irq EXCEPT !.tx = "ok"] /\ UNCHANGED <<msd, disk>>
  BY DEF HostStatus
<1> USE DEF IInv
<1>5. Shapes' BY <1>1, <1>4, <1>6, <1>7 DEF Shapes
<1>17. AtCommand' BY <1>1, <1>4, <1>7 DEF AtCommand, Proper, Shapes
<1>8. AtIdle' /\ AtDataTx' /\ AtDataRx' /\ AtStatus' /\ AtAbort'
  BY SMTT(30), <1>1, <1>4, <1>7 DEF AtIdle, AtDataTx, AtDataRx, AtStatus, AtAbort, Shapes
<1>13. ResidueIsSafe' BY <1>1, <1>4 DEF ResidueIsSafe, Shapes
<1> QED BY <1>5, <1>17, <1>8, <1>13 DEF IInv

\* What usbd_msc_process_cbw makes of a command that agrees with its CBW.
LEMMA Processed ==
  ASSUME Matched, Shapes, NEW c, Proper(c), NEW have \in Chunks, NEW r, r = ProcessCbw(c, have)
  PROVE  /\ r.len \in Nat /\ r.lba \in Nat
         /\ \/ r.res = "PASS" /\ r.req = "OUT" /\ c.op = "WRITE" /\ r.len \in 1 .. c.xfr /\ r.lba = c.lba
            \/ /\ r.res = "PASS" /\ r.req = "IN" /\ c.op = "READ" /\ r.src = "media"
               /\ r.len \in 1 .. c.xfr /\ r.lba = c.lba /\ c.dir = "in"
            \/ /\ r.res = "PASS" /\ r.req = "IN" /\ c.op \notin {"READ", "WRITE"} /\ r.src = "resp"
               /\ r.len = c.xfr /\ c.xfr > 0 /\ c.dir = "in"
            \/ r.res = "PASS" /\ r.req = "ZDR" /\ c.op = "TEST_UNIT_READY" /\ c.xfr = 0
            \/ /\ r.res = "LESSDATA" /\ c.op \notin {"READ", "WRITE"} /\ r.src = "resp" /\ r.len > 0
               /\ c.xfr > 0 /\ c.dir = "in"
            \/ r.res \in {"MOREDATA", "INVALID_CDB_FIELD"} /\ c.xfr > 0 /\ c.dir = "in"
            \/ r.res = "NOT_SUPPORTED"
            \/ r.res \in {"INTERNAL_ERROR", "INVALID_CBW"}
            \/ r.res = "LENGTH_MISMATCH" /\ r.req = "ZDR" /\ c.xfr > 0
<1> USE DEF ProcessCbw, Result, Resp, Proper, Cbws, Ops, Shapes
<1>1. have \in Nat OBVIOUS
<1>2. CASE c.op = "INQUIRY" BY <1>1, <1>2 DEF Inquiry
<1>3. CASE c.op = "READ_CAPACITY" BY <1>1, <1>3 DEF ReadCapacity
<1>4. CASE c.op = "FORMAT_CAPACITIES" BY <1>1, <1>4 DEF FormatCapacities
<1>5. CASE c.op = "READ" BY SMTT(30), <1>1, <1>5 DEF Read10, Least
<1>6. CASE c.op = "MODE_SENSE" BY SMTT(30), <1>1, <1>6 DEF ModeSense
<1>7. CASE c.op = "REQUEST_SENSE" BY <1>1, <1>7 DEF RequestSense
<1>8. CASE c.op = "WRITE" BY SMTT(30), <1>1, <1>8 DEF Write10, Least
<1>9. CASE c.op = "TEST_UNIT_READY" BY <1>1, <1>9 DEF TestUnitReady
<1>10. CASE c.op \in {"OTHER", "BAD"} BY <1>1, <1>10
<1> QED BY <1>2, <1>3, <1>4, <1>5, <1>6, <1>7, <1>8, <1>9, <1>10

---------------------------------------------------------------------------
Told(m, bot, st) ==
  /\ msd'.bot = bot /\ msd'.st = st /\ msd'.residue = m.residue /\ msd'.tag = m.tag
  /\ msd'.src = m.src /\ msd'.len = m.len /\ msd'.lba = m.lba /\ msd'.known = m.known
  /\ msd'.failed = m.failed /\ DOMAIN msd' = DOMAIN m

Piped(in, out, inHalt, outHalt) ==
  /\ pipe'.in = in /\ pipe'.out = out /\ (pipe'.inHalt <=> inHalt) /\ (pipe'.outHalt <=> outHalt)
  /\ DOMAIN pipe' = {"in", "out", "rx", "inHalt", "outHalt"}
  /\ pipe'.inHalt \in BOOLEAN /\ pipe'.outHalt \in BOOLEAN

\* The effect of SendData, SendCsw and ReceiveData on a clean endpoint.
LEMMA Sent ==
  ASSUME Shapes, Clean, pipe.out = 0, NEW m, NEW st \in Statuses,
         DOMAIN m = DOMAIN msd
  PROVE  /\ SendData([m EXCEPT !.st = st]) => Told(m, "DATA_TX", st) /\ Piped(Piece(msd'), 0, FALSE, FALSE)
         /\ SendCsw([m EXCEPT !.st = st]) => Told(m, "SEND_STATUS", st) /\ Piped(Csw(msd'), 0, FALSE, FALSE)
         /\ ReceiveData([m EXCEPT !.st = st]) => Told(m, "DATA_RX", st) /\ Piped(None, m.len, FALSE, FALSE)
<1> DEFINE n == [m EXCEPT !.st = st]
<1>1. /\ n.st = st /\ n.residue = m.residue /\ n.tag = m.tag
      /\ n.src = m.src /\ n.len = m.len /\ n.lba = m.lba /\ n.known = m.known
      /\ n.failed = m.failed /\ DOMAIN n = DOMAIN m
  BY DEF Shapes
<1> HIDE DEF n
<1>2. ASSUME NEW bot, msd' = [n EXCEPT !.bot = bot] PROVE Told(m, bot, st)
  BY <1>1, <1>2 DEF Told, Shapes
<1>3. ASSUME SendData(n) PROVE Told(m, "DATA_TX", st) /\ Piped(Piece(msd'), 0, FALSE, FALSE)
  <2>1. msd' = [n EXCEPT !.bot = "DATA_TX"] /\ pipe' = [pipe EXCEPT !.in = Piece(n)]
    BY <1>3 DEF SendData
  <2>2. Told(m, "DATA_TX", st) BY <1>2, <2>1
  <2>3. Piece(n) = Piece(msd') BY <1>1, <2>2 DEF Piece, Told
  <2> QED BY <2>1, <2>2, <2>3 DEF Piped, Shapes
<1>4. ASSUME SendCsw(n) PROVE Told(m, "SEND_STATUS", st) /\ Piped(Csw(msd'), 0, FALSE, FALSE)
  <2>1. msd' = [n EXCEPT !.bot = "SEND_STATUS"] /\ pipe' = [pipe EXCEPT !.in = Csw(n)]
    BY <1>4 DEF SendCsw
  <2>2. Told(m, "SEND_STATUS", st) BY <1>2, <2>1
  <2>3. Csw(n) = Csw(msd') BY <1>1, <2>2 DEF Csw, Told
  <2> QED BY <2>1, <2>2, <2>3 DEF Piped, Shapes
<1>5. ASSUME ReceiveData(n) PROVE Told(m, "DATA_RX", st) /\ Piped(None, m.len, FALSE, FALSE)
  <2>1. msd' = [n EXCEPT !.bot = "DATA_RX"] /\ pipe' = [pipe EXCEPT !.out = m.len]
    BY <1>1, <1>5 DEF ReceiveData
  <2>2. Told(m, "DATA_RX", st) BY <1>2, <2>1
  <2> QED BY <2>1, <2>2 DEF Piped, Shapes
<1> QED BY <1>3, <1>4, <1>5 DEF n

\* The effect of halting endpoints before the status.
LEMMA Stalled ==
  ASSUME Shapes, Clean, pipe.out = 0, NEW m, NEW st \in Statuses, DOMAIN m = DOMAIN msd,
         NEW bot, NEW eps, "in" \in eps, Stall([m EXCEPT !.st = st], bot, eps)
  PROVE  Told(m, bot, st) /\ Piped(None, 0, TRUE, "out" \in eps)
<1> DEFINE n == [m EXCEPT !.st = st]
<1>1. /\ n.st = st /\ n.residue = m.residue /\ n.tag = m.tag
      /\ n.src = m.src /\ n.len = m.len /\ n.lba = m.lba /\ n.known = m.known
      /\ n.failed = m.failed /\ DOMAIN n = DOMAIN m
  BY DEF Shapes
<1>2. msd' = [n EXCEPT !.bot = bot]
      /\ pipe' = [pipe EXCEPT !.inHalt = @ \/ "in" \in eps, !.outHalt = @ \/ "out" \in eps]
        BY DEF Stall
<1> HIDE DEF n
<1>3. Told(m, bot, st) BY <1>1, <1>2 DEF Told, Shapes
<1>4. Piped(None, 0, TRUE, "out" \in eps) BY <1>2 DEF Piped, Shapes
<1> QED BY <1>3, <1>4

\* Command: a CBW is decoded, and data, status, a halt or an abort follow.
LEMMA CommandStep ==
  ASSUME Matched, IInv, Command, irq' = [tx |-> "none", rx |-> "none"], UNCHANGED host
  PROVE  IInv'
<1>1. PICK have \in Chunks :
       LET c == pipe.rx[1]
           r == ProcessCbw(c, have)
           m == [msd EXCEPT !.req = r.req, !.src = r.src, !.len = r.len, !.lba = r.lba,
                            !.cbw = c, !.tag = c.num, !.residue = c.xfr,
                            !.known = @ \/ (c.op = "READ_CAPACITY" /\ r.res = "PASS")]
       IN Respond(m, r.res)
  BY DEF Command
<1> DEFINE c == host.cmd
           r == ProcessCbw(c, have)
           m == [msd EXCEPT !.req = r.req, !.src = r.src, !.len = r.len, !.lba = r.lba,
                            !.cbw = c, !.tag = c.num, !.residue = c.xfr,
                            !.known = @ \/ (c.op = "READ_CAPACITY" /\ r.res = "PASS")]
<1>2. /\ msd.bot = "IDLE" /\ irq.rx = "ok" /\ irq.tx = "none" /\ Clean /\ pipe.out = 0
      /\ host.cmd # None
      /\ pipe.rx[1] = host.cmd /\ Proper(host.cmd) /\ host.got = <<>> /\ host.sent = 0
      /\ host.phase = IF host.cmd.xfr = 0 THEN "status" ELSE host.cmd.dir
  BY DEF Command, IInv, AtIdle, AtCommand
<1>3. Respond(m, r.res) BY <1>1, <1>2
<1>4. /\ r.len \in Nat /\ r.lba \in Nat
         /\ \/ r.res = "PASS" /\ r.req = "OUT" /\ c.op = "WRITE" /\ r.len \in 1 .. c.xfr /\ r.lba = c.lba
            \/ /\ r.res = "PASS" /\ r.req = "IN" /\ c.op = "READ" /\ r.src = "media"
               /\ r.len \in 1 .. c.xfr /\ r.lba = c.lba /\ c.dir = "in"
            \/ /\ r.res = "PASS" /\ r.req = "IN" /\ c.op \notin {"READ", "WRITE"} /\ r.src = "resp"
               /\ r.len = c.xfr /\ c.xfr > 0 /\ c.dir = "in"
            \/ r.res = "PASS" /\ r.req = "ZDR" /\ c.op = "TEST_UNIT_READY" /\ c.xfr = 0
            \/ /\ r.res = "LESSDATA" /\ c.op \notin {"READ", "WRITE"} /\ r.src = "resp" /\ r.len > 0
               /\ c.xfr > 0 /\ c.dir = "in"
            \/ r.res \in {"MOREDATA", "INVALID_CDB_FIELD"} /\ c.xfr > 0 /\ c.dir = "in"
            \/ r.res = "NOT_SUPPORTED"
            \/ r.res \in {"INTERNAL_ERROR", "INVALID_CBW"}
            \/ r.res = "LENGTH_MISMATCH" /\ r.req = "ZDR" /\ c.xfr > 0
  BY <1>2, Processed DEF IInv
<1> HIDE DEF r
<1>5. /\ m.len = r.len /\ m.lba = r.lba /\ m.src = r.src /\ m.req = r.req /\ m.cbw = c
      /\ m.tag = c.num
      /\ m.residue = c.xfr /\ DOMAIN m = DOMAIN msd /\ ~m.failed /\ (msd.known => m.known) /\ m.st = msd.st
      /\ c.num \in Nat /\ c.xfr \in Nat /\ c.lba \in Nat /\ c.dir \in {"in", "out"}
  BY <1>2 DEF IInv, Shapes, Proper, Cbws
<1> HIDE DEF m
<1>6. Shapes BY DEF IInv
<1>7. \/ /\ Told(m, "DATA_RX", "PASS") /\ c.op = "WRITE" /\ r.len \in 1 .. c.xfr /\ r.lba = c.lba
         /\ Piped(None, r.len, FALSE, FALSE)
      \/ /\ Told(m, "DATA_TX", "PASS") /\ c.op = "READ" /\ r.src = "media" /\ r.len \in 1 .. c.xfr /\ r.lba = c.lba
         /\ Piped(Piece(msd'), 0, FALSE, FALSE) /\ c.dir = "in"
      \/ /\ Told(m, "DATA_TX", "PASS") /\ c.op \notin {"READ", "WRITE"} /\ r.src = "resp" /\ r.len = c.xfr /\ c.xfr > 0
         /\ Piped(Piece(msd'), 0, FALSE, FALSE) /\ c.dir = "in"
      \/ /\ Told(m, "DATA_TX", "LESSDATAPASS") /\ c.op \notin {"READ", "WRITE"} /\ r.src = "resp" /\ r.len > 0 /\ c.xfr > 0
         /\ Piped(Piece(msd'), 0, FALSE, FALSE) /\ c.dir = "in"
      \/ /\ Told(m, "SEND_STATUS", "PASS") /\ c.op = "TEST_UNIT_READY" /\ c.xfr = 0
         /\ Piped(Csw(msd'), 0, FALSE, FALSE)
      \/ Told(m, "SEND_STATUS", "FAIL") /\ Piped(None, 0, TRUE, c.xfr # 0 /\ c.dir # "in")
      \/ Told(m, "ABORTED", "PHASE_ERR") /\ Piped(None, 0, TRUE, TRUE)
  <2>1. /\ SendData([m EXCEPT !.st = "PASS"]) => Told(m, "DATA_TX", "PASS") /\ Piped(Piece(msd'), 0, FALSE, FALSE)
        /\ SendCsw([m EXCEPT !.st = "PASS"]) => Told(m, "SEND_STATUS", "PASS") /\ Piped(Csw(msd'), 0, FALSE, FALSE)
        /\ ReceiveData([m EXCEPT !.st = "PASS"]) => Told(m, "DATA_RX", "PASS") /\ Piped(None, r.len, FALSE, FALSE)
        /\ SendData([m EXCEPT !.st = "LESSDATAPASS"]) => Told(m, "DATA_TX", "LESSDATAPASS") /\ Piped(Piece(msd'), 0, FALSE, FALSE)
    BY <1>2, <1>5, <1>6, Sent DEF Statuses
  <2>2. ASSUME NEW eps, "in" \in eps, Stall([m EXCEPT !.st = "FAIL"], "SEND_STATUS", eps)
        PROVE  Told(m, "SEND_STATUS", "FAIL") /\ Piped(None, 0, TRUE, "out" \in eps)
    BY <1>2, <1>5, <1>6, <2>2, Stalled DEF Statuses
  <2>3. ASSUME Stall([m EXCEPT !.st = "PHASE_ERR"], "ABORTED", {"in", "out"})
        PROVE  Told(m, "ABORTED", "PHASE_ERR") /\ Piped(None, 0, TRUE, TRUE)
    <3>1. Told(m, "ABORTED", "PHASE_ERR") /\ Piped(None, 0, TRUE, "out" \in {"in", "out"})
      BY <1>2, <1>5, <1>6, <2>3, Stalled DEF Statuses
    <3> QED BY <3>1 DEF Piped
  <2> HIDE DEF Told
  <2>7. CASE r.res = "PASS"
    BY <1>3, <1>4, <1>5, <2>1, <2>7 DEF Respond
  <2>8. CASE r.res = "LESSDATA"
    BY <1>3, <1>4, <1>5, <2>1, <2>8 DEF Respond
  <2>9. CASE r.res \in {"MOREDATA", "INVALID_CDB_FIELD"}
    <3>1. Stall([m EXCEPT !.st = "FAIL"], "SEND_STATUS", {"in"})
      BY <1>3, <2>9 DEF Respond, StallIn
    <3>2. ("out" \in {"in"}) <=> (c.xfr # 0 /\ c.dir # "in") BY <1>4, <2>9
    <3>3. Told(m, "SEND_STATUS", "FAIL") /\ Piped(None, 0, TRUE, "out" \in {"in"}) BY <2>2, <3>1
    <3> QED BY <3>2, <3>3 DEF Piped
  <2>10. CASE r.res = "NOT_SUPPORTED"
    <3> DEFINE eps == IF c.xfr = 0 \/ c.dir = "in" THEN {"in"} ELSE {"in", "out"}
    <3>1. Stall([m EXCEPT !.st = "FAIL"], "SEND_STATUS", eps)
       BY <1>3, <1>5, <2>10 DEF Respond
    <3>2. "in" \in eps /\ (("out" \in eps) <=> (c.xfr # 0 /\ c.dir # "in")) OBVIOUS
    <3> HIDE DEF eps
    <3>3. Told(m, "SEND_STATUS", "FAIL") /\ Piped(None, 0, TRUE, "out" \in eps)
      BY <2>2, <3>1, <3>2
    <3> QED BY <3>2, <3>3 DEF Piped
  <2>11. CASE r.res \in {"INTERNAL_ERROR", "INVALID_CBW"}
    <3>1. Stall([m EXCEPT !.st = "PHASE_ERR"], "ABORTED", {"in", "out"})
       BY <1>3, <2>11 DEF Respond, Disagree, Abort
    <3> QED BY <2>3, <3>1
  <2>12. CASE r.res = "LENGTH_MISMATCH"
    <3>1. CASE c.dir = "in"
      <4>1. Stall([m EXCEPT !.st = "FAIL"], "SEND_STATUS", {"in"})
        BY <1>3, <1>4, <1>5, <2>12, <3>1 DEF Respond, Disagree, StallIn
      <4>2. Told(m, "SEND_STATUS", "FAIL") /\ Piped(None, 0, TRUE, "out" \in {"in"}) BY <2>2, <4>1
      <4> QED BY <3>1, <4>2 DEF Piped
    <3>2. CASE c.dir # "in"
      <4>1. Stall([m EXCEPT !.st = "PHASE_ERR"], "ABORTED", {"in", "out"})
        BY <1>3, <1>4, <1>5, <2>12, <3>2 DEF Respond, Disagree, Abort
      <4> QED BY <2>3, <4>1
    <3> QED BY <3>1, <3>2
  <2> QED BY <1>4, <2>7, <2>8, <2>9, <2>10, <2>11, <2>12
<1> USE DEF IInv
<1>8. irq'.tx = "none" /\ irq'.rx = "none" /\ DOMAIN irq' = {"tx", "rx"} /\ UNCHANGED <<disk, host>>
  BY DEF Command
<1> USE DEF Told, Piped
<1>9. Shapes'
  <2>1. /\ msd'.bot \in {"DATA_TX", "DATA_RX", "SEND_STATUS", "ABORTED"} /\ msd'.st \in Statuses
        /\ \E n \in Nat : /\ Told(m, msd'.bot, msd'.st)
                           /\ Piped(pipe'.in, n, pipe'.inHalt, pipe'.outHalt)
    BY <1>4, <1>7 DEF Statuses
  <2> QED BY SMTT(30), <1>4, <1>5, <1>6, <1>8, <2>1 DEF Shapes
<1>10. AtCommand' BY <1>2, <1>5, <1>7, <1>8 DEF AtCommand, Proper, Shapes
<1>11. AtIdle' BY <1>7 DEF AtIdle
<1>12. AtDataTx'
  <2>1. Returned(0)' = <<>> /\ host'.cmd.xfr - msd'.residue = (IF msd'.residue = c.xfr THEN 0 ELSE c.xfr - msd'.residue)
    BY <1>5, <1>8 DEF Returned
  <2>7. Piece(msd') = Piece(msd)' BY <1>8 DEF Piece
  <2>2. c.xfr - c.xfr = 0 /\ c.lba + c.xfr - c.xfr = c.lba BY <1>5
  <2>3. /\ Told(m, "DATA_TX", "PASS") /\ c.op = "READ" /\ r.src = "media"
        /\ r.len \in 1 .. c.xfr /\ r.lba = c.lba
        /\ Piped(Piece(msd'), 0, FALSE, FALSE) /\ c.dir = "in"
        => AtDataTx'
    BY <1>2, <1>4, <1>5, <1>8, <2>1, <2>2, <2>7 DEF AtDataTx
  <2>4. /\ Told(m, "DATA_TX", "PASS") /\ c.op \notin {"READ", "WRITE"} /\ r.src = "resp"
        /\ r.len = c.xfr /\ c.xfr > 0
        /\ Piped(Piece(msd'), 0, FALSE, FALSE) /\ c.dir = "in"
        => AtDataTx'
    BY <1>2, <1>4, <1>5, <1>8, <2>7 DEF AtDataTx
  <2>5. /\ Told(m, "DATA_TX", "LESSDATAPASS") /\ c.op \notin {"READ", "WRITE"}
        /\ r.src = "resp" /\ r.len > 0 /\ c.xfr > 0
        /\ Piped(Piece(msd'), 0, FALSE, FALSE) /\ c.dir = "in"
        => AtDataTx'
    BY <1>2, <1>4, <1>5, <1>8, <2>7 DEF AtDataTx
  <2>6. msd'.bot # "DATA_TX" => AtDataTx' BY DEF AtDataTx
  <2> QED BY <1>7, <2>3, <2>4, <2>5, <2>6
<1>13. AtDataRx'
  <2>1. /\ Told(m, "DATA_RX", "PASS") /\ c.op = "WRITE" /\ r.len \in 1 .. c.xfr /\ r.lba = c.lba
        /\ Piped(None, r.len, FALSE, FALSE)
        => AtDataRx'
    <3>1. c.xfr - c.xfr = 0 /\ c.lba + c.xfr - c.xfr = c.lba /\ c.lba + 0 - 1 = c.lba - 1 BY <1>5
    <3>2. Written(0)' BY <1>5, <1>8 DEF Written
    <3>3. c.op = "WRITE" => c.dir = "out" BY <1>2 DEF Proper
    <3> QED BY <1>2, <1>4, <1>5, <1>8, <3>1, <3>2, <3>3 DEF AtDataRx
  <2>2. msd'.bot # "DATA_RX" => AtDataRx' BY DEF AtDataRx
  <2> QED BY <1>7, <2>1, <2>2
<1>14. AtStatus' BY SMTT(30), <1>2, <1>4, <1>5, <1>7, <1>8, CswOf DEF AtStatus, Shapes, Statuses
<1>15. AtAbort' BY <1>2, <1>7, <1>8 DEF AtAbort, Shapes, Proper, Cbws
<1>16. ResidueIsSafe' BY <1>8 DEF ResidueIsSafe
<1> QED BY <1>9, <1>10, <1>11, <1>12, <1>13, <1>14, <1>15, <1>16

\* DataTx: the next piece starts where the last one ended, and the status follows the last.
LEMMA DataTxStep ==
  ASSUME Matched, IInv, DataTx, irq' = [tx |-> "none", rx |-> "none"], UNCHANGED host
  PROVE  IInv'
<1>0. msd.bot = "DATA_TX" /\ irq.tx = "ok" BY Zenon DEF DataTx
<1>1. /\ msd.bot = "DATA_TX" /\ irq.tx = "ok" /\ irq.rx = "none" /\ pipe.in = None /\ ~Halts
      /\ pipe.out = 0 /\ host.cmd # None
      /\ Proper(host.cmd) /\ host.cmd.dir = "in" /\ host.sent = 0 /\ msd.tag = host.cmd.num
      /\ host.cmd.xfr \in Nat /\ host.cmd.lba \in Nat /\ host.phase \in {"in", "status", "reset"}
      /\ msd.len \in Nat \ {0} /\ msd.residue \in Nat /\ msd.lba \in Nat /\ Shapes
  BY SMTT(30), <1>0 DEF IInv, AtDataTx, AtCommand, Shapes, Proper, Cbws
<1>2. irq'.tx = "none" /\ irq'.rx = "none" /\ DOMAIN irq' = {"tx", "rx"} /\ UNCHANGED <<disk, host>>
  BY DEF DataTx
<1> DEFINE Moved(bot, residue) ==
       /\ msd'.bot = bot /\ msd'.st = "PASS" /\ msd'.residue = residue /\ msd'.tag = msd.tag
       /\ msd'.len \in Nat /\ msd'.lba \in Nat
       /\ DOMAIN msd' = DOMAIN msd /\ ~msd'.failed /\ msd'.known = msd.known
<1>3. \/ /\ Moved("SEND_STATUS", msd.residue) /\ host.cmd.op # "READ" /\ host.phase \in {"status", "reset"}
         /\ msd.residue = host.cmd.xfr
         /\ Piped(None, 0, TRUE, FALSE)
      \/ /\ Moved("SEND_STATUS", 0) /\ host.phase = "status"
         /\ Len(host.got) = host.cmd.xfr /\ (host.cmd.op = "READ" => host.got = Returned(host.cmd.xfr))
         /\ Piped(Csw(msd'), 0, FALSE, FALSE)
      \/ /\ Moved("DATA_TX", msd.residue - msd.len) /\ host.cmd.op = "READ" /\ msd.len < msd.residue
         /\ msd'.src = "media" /\ msd'.len \in 1 .. msd.residue - msd.len
         /\ msd'.lba = msd.lba + msd.len
         /\ Piped(Piece(msd'), 0, FALSE, FALSE)
  <2>1. CASE msd.st = "LESSDATAPASS"
    <3>1. StallIn([NoData(msd) EXCEPT !.st = "PASS"]) BY <1>1, <2>1 DEF DataTx
    <3>2. DOMAIN NoData(msd) = DOMAIN msd /\ NoData(msd).residue = msd.residue /\ NoData(msd).tag = msd.tag
          /\ NoData(msd).len = 0 /\ NoData(msd).lba = 0 /\ NoData(msd).known = msd.known
          /\ NoData(msd).failed = msd.failed
       BY <1>1 DEF NoData, Shapes
    <3>3. Told(NoData(msd), "SEND_STATUS", "PASS") /\ Piped(None, 0, TRUE, "out" \in {"in"})
      BY <1>1, <3>1, <3>2, Stalled DEF Statuses, StallIn
    <3>4. host.cmd.op # "READ" /\ msd.residue = host.cmd.xfr BY <1>1, <2>1 DEF IInv, AtDataTx
    <3>5. host.phase \in {"status", "reset"} BY <1>1, <3>4 DEF IInv, AtDataTx
    <3> QED BY <1>1, <3>2, <3>3, <3>4, <3>5 DEF Told, Piped, Shapes
  <2>2. CASE msd.st = "PASS" /\ msd.len = msd.residue
    <3> DEFINE n == NoData([msd EXCEPT !.residue = msd.residue - msd.len])
    <3>1. /\ DOMAIN n = DOMAIN msd /\ n.residue = 0 /\ n.tag = msd.tag /\ n.st = "PASS"
          /\ n.len = 0 /\ n.lba = 0 /\ n.known = msd.known /\ n.failed = msd.failed
       BY <1>1, <2>2 DEF NoData, Shapes
    <3>2. msd.residue - msd.len = 0 /\ ~(msd.residue < msd.len) /\ ~(msd.residue - msd.len > 0)
      BY <1>1, <2>2
    <3>3. SendCsw(n) BY Zenon, <1>0, <2>2, <3>2 DEF DataTx
    <3> HIDE DEF n
    <3>4. msd' = [n EXCEPT !.bot = "SEND_STATUS"] /\ pipe' = [pipe EXCEPT !.in = Csw(n)]
      BY <1>1, <3>3 DEF SendCsw
    <3>5. Moved("SEND_STATUS", 0) /\ Csw(n) = Csw(msd') BY <3>1, <3>4 DEF Csw, Shapes, IInv
    <3>6. Piped(Csw(msd'), 0, FALSE, FALSE) BY <1>1, <3>4, <3>5 DEF Piped, Shapes
    <3>7. host.phase = "status" /\ (host.cmd.op = "READ" => host.got = Returned(host.cmd.xfr)) /\ (host.cmd.op # "READ" => Len(host.got) = host.cmd.xfr)
      BY <1>1, <2>2, <3>2 DEF IInv, AtDataTx
    <3>8. Len(Returned(host.cmd.xfr)) = host.cmd.xfr BY <1>1 DEF Returned
    <3> QED BY <3>5, <3>6, <3>7, <3>8
  <2>3. CASE msd.st = "PASS" /\ msd.len # msd.residue
    <3> DEFINE m == [msd EXCEPT !.residue = msd.residue - msd.len]
    <3>1. host.cmd.op = "READ" /\ msd.len < msd.residue
       BY <1>1, <2>3 DEF IInv, AtDataTx
    <3>2. msd.residue - msd.len \in Nat \ {0} /\ ~(msd.residue < msd.len) BY <1>1, <3>1
    <3>3. PICK have \in Positive :
                 SendData([m EXCEPT !.src = "media", !.lba = @ + msd.len, !.len = Least(have, msd.residue - msd.len)])
      BY Zenon, <1>0, <2>3, <3>2 DEF DataTx
    <3> DEFINE n == [m EXCEPT !.src = "media", !.lba = @ + msd.len, !.len = Least(have, msd.residue - msd.len)]
    <3>4. have \in Nat \ {0} BY DEF Positive
    <3>5. Least(have, msd.residue - msd.len) \in 1 .. msd.residue - msd.len
      BY <3>2, <3>4 DEF Least
    <3>6. /\ DOMAIN n = DOMAIN msd /\ n.residue = msd.residue - msd.len /\ n.tag = msd.tag
          /\ n.st = "PASS" /\ n.src = "media"
          /\ n.len = Least(have, msd.residue - msd.len) /\ n.lba = msd.lba + msd.len
          /\ n.known = msd.known /\ n.failed = msd.failed
       BY <1>1, <2>3 DEF Shapes
    <3>7. SendData(n) BY <3>3
    <3> HIDE DEF n
    <3>8. msd' = [n EXCEPT !.bot = "DATA_TX"] /\ pipe' = [pipe EXCEPT !.in = Piece(n)]
      BY <1>1, <3>7 DEF SendData
    <3>9. Moved("DATA_TX", msd.residue - msd.len) /\ msd'.src = "media" /\ msd'.len \in 1 .. msd.residue - msd.len /\ msd'.lba = msd.lba + msd.len
      BY SMTT(30), <1>1, <3>5, <3>6, <3>8 DEF Shapes, IInv
    <3>10. Piece(n) = Piece(msd') BY <3>6, <3>8, <3>9 DEF Piece, Shapes, IInv
    <3>11. Piped(Piece(msd'), 0, FALSE, FALSE) BY <1>1, <3>8, <3>10 DEF Piped, Shapes
    <3> QED BY <3>1, <3>9, <3>11
  <2> QED BY <1>1, <2>1, <2>2, <2>3 DEF IInv, AtDataTx, Shapes
<1> USE DEF IInv, Piped
<1>9. Shapes' BY SMTT(30), <1>1, <1>2, <1>3 DEF Shapes, Statuses
<1>10. AtCommand' BY SMTT(30), <1>1, <1>2, <1>3 DEF AtCommand, Proper, Shapes
<1>11. AtIdle' BY <1>3 DEF AtIdle
<1>12. AtDataTx'
  <2>1. Piece(msd') = Piece(msd)' BY <1>2 DEF Piece
  <2>2. host.cmd.op = "READ" => host.got = Returned(host.cmd.xfr - msd.residue + msd.len)
    BY <1>1 DEF AtDataTx
  <2>3. host.cmd.op = "READ" => host.phase = IF msd.len = msd.residue THEN "status" ELSE "in"
    BY <1>1 DEF AtDataTx
  <2>4. host.cmd.op = "READ" => msd.lba = host.cmd.lba + host.cmd.xfr - msd.residue /\ msd.residue <= host.cmd.xfr
    BY <1>1 DEF AtDataTx
  <2>5. SUFFICES ASSUME msd'.bot = "DATA_TX" PROVE AtDataTx' BY DEF AtDataTx
  <2>6. msd'.residue = msd.residue - msd.len /\ host.cmd.op = "READ" BY <1>3, <2>5
  <2>7. host.cmd.xfr - msd'.residue = host.cmd.xfr - msd.residue + msd.len BY <1>1, <2>6
  <2>8. Returned(host.cmd.xfr - msd.residue)' = Returned(host.cmd.xfr - msd'.residue)
    BY <1>2 DEF Returned
  <2> QED BY <1>1, <1>2, <1>3, <2>1, <2>2, <2>3, <2>4, <2>5, <2>6, <2>7, <2>8 DEF AtDataTx
<1>13. AtDataRx' BY <1>3 DEF AtDataRx, Shapes, Written
<1>14. AtStatus'
  <2>1. Csw(msd)' = Csw(msd') BY DEF Csw
  <2>2. Returned(host.cmd.xfr)' = Returned(host.cmd.xfr) BY <1>2 DEF Returned
  <2>3. Len(host.got) \in Nat BY <1>1 DEF AtDataTx, Returned
  <2>4. SUFFICES ASSUME msd'.bot = "SEND_STATUS" PROVE AtStatus' BY DEF AtStatus
  <2>5. msd'.tag \in Nat /\ msd'.residue \in Nat /\ msd'.st \in Statuses
    BY <1>1, <1>3, <2>4 DEF Statuses, Shapes
  <2>6. Csw(msd') # None BY <2>5, CswOf
  <2>7. host.cmd.op # "WRITE" BY <1>1 DEF Proper
  <2> QED BY <1>1, <1>2, <1>3, <2>1, <2>2, <2>3, <2>4, <2>6, <2>7 DEF AtStatus
<1>15. AtAbort' BY <1>1, <1>2, <1>3 DEF AtAbort, Shapes, Proper, Cbws
<1>16. ResidueIsSafe' BY <1>2 DEF ResidueIsSafe
<1> QED BY <1>9, <1>10, <1>11, <1>12, <1>13, <1>14, <1>15, <1>16

\* DataRx: the piece is written behind those before it.
LEMMA DataRxStep ==
  ASSUME Matched, IInv, DataRx, irq' = [tx |-> "none", rx |-> "none"], UNCHANGED host
  PROVE  IInv'
<1>0. msd.bot = "DATA_RX" /\ irq.rx = "ok" BY Zenon DEF DataRx
<1>1. /\ irq.tx = "none" /\ Clean /\ pipe.out = 0 /\ host.cmd # None /\ host.got = <<>>
      /\ Proper(host.cmd) /\ host.cmd.op = "WRITE" /\ msd.tag = host.cmd.num /\ msd.st = "PASS"
      /\ host.cmd.xfr \in Nat /\ host.cmd.lba \in Nat /\ host.cmd.num \in Nat
      /\ host.cmd.dir = "out"
      /\ msd.len \in Nat \ {0} /\ msd.residue \in Nat /\ msd.lba \in Nat /\ Shapes
      /\ msd.len <= msd.residue /\ msd.residue <= host.cmd.xfr
      /\ msd.lba = host.cmd.lba + host.cmd.xfr - msd.residue
      /\ host.cmd.lba + host.cmd.xfr <= Blocks
      /\ host.sent = host.cmd.xfr - msd.residue + msd.len
      /\ host.phase = IF msd.len = msd.residue THEN "status" ELSE "out"
      /\ pipe.rx = [i \in 1 .. msd.len |-> host.cmd.num]
  <2>1. /\ irq.tx = "none" /\ Clean /\ pipe.out = 0 /\ host.cmd # None /\ host.got = <<>>
        /\ host.cmd.op = "WRITE" /\ msd.st = "PASS"
        /\ msd.len > 0 /\ msd.len <= msd.residue /\ msd.residue <= host.cmd.xfr
        /\ msd.lba = host.cmd.lba + host.cmd.xfr - msd.residue
        /\ host.sent = host.cmd.xfr - msd.residue + msd.len
        /\ host.phase = IF msd.len = msd.residue THEN "status" ELSE "out"
        /\ pipe.rx = [i \in 1 .. msd.len |-> host.cmd.num]
    BY <1>0 DEF IInv, AtDataRx
  <2>2. Proper(host.cmd) /\ msd.tag = host.cmd.num BY <1>0, <2>1 DEF IInv, AtCommand
  <2>3. /\ host.cmd.xfr \in Nat /\ host.cmd.lba \in Nat /\ host.cmd.num \in Nat
        /\ host.cmd.dir = "out"
        /\ host.cmd.lba + host.cmd.xfr <= Blocks
    BY <2>1, <2>2 DEF Proper, Cbws
  <2>4. msd.len \in Nat /\ msd.residue \in Nat /\ msd.lba \in Nat /\ Shapes BY DEF IInv, Shapes
  <2> QED BY <2>1, <2>2, <2>3, <2>4
<1>7. /\ host.cmd.xfr \in Nat /\ host.cmd.lba \in Nat /\ msd.len \in Nat \ {0}
      /\ msd.residue \in Nat
      /\ msd.lba \in Nat /\ msd.len <= msd.residue /\ msd.residue <= host.cmd.xfr
      /\ msd.lba = host.cmd.lba + host.cmd.xfr - msd.residue
  BY <1>1
<1>8. host.cmd.lba + host.cmd.xfr <= Blocks /\ Blocks \in Nat BY <1>1, UsbMsdAssumption
<1>5. PICK k \in Nat : k = host.cmd.xfr - msd.residue BY <1>7
<1>17. msd.lba = host.cmd.lba + k BY <1>5, <1>7
<1>6. PICK e \in Nat : e = k + msd.len BY <1>5, <1>7
<1>18. e <= host.cmd.xfr /\ host.cmd.xfr - msd.residue + msd.len = e BY <1>5, <1>6, <1>7
<1>19. host.sent = e BY <1>1, <1>18
<1>2. irq'.tx = "none" /\ irq'.rx = "none" /\ DOMAIN irq' = {"tx", "rx"} /\ UNCHANGED host OBVIOUS
<1>3. disk' \in [0 .. Blocks - 1 -> Nat] /\ Written(e)'
  <2>1. disk' = [b \in DOMAIN disk |->
                IF b \in msd.lba..(msd.lba + msd.len - 1) THEN pipe.rx[b - msd.lba + 1] ELSE disk[b]]
    BY Zenon DEF DataRx
  <2>2. \A b \in msd.lba..(msd.lba + msd.len - 1) : pipe.rx[b - msd.lba + 1] = host.cmd.num
    <3> TAKE b \in msd.lba..(msd.lba + msd.len - 1)
    <3>1. b - msd.lba + 1 \in 1 .. msd.len BY <1>7
    <3>2. pipe.rx = [i \in 1 .. msd.len |-> host.cmd.num] BY <1>1
    <3> QED BY <3>1, <3>2
  <2>3. disk' = [b \in 0 .. Blocks - 1 |->
                IF b \in msd.lba..(msd.lba + msd.len - 1) THEN host.cmd.num ELSE disk[b]]
    <3>1. DOMAIN disk = 0 .. Blocks - 1 BY <1>1 DEF Shapes
    <3> QED BY <2>1, <2>2, <3>1
  <2>4. disk' \in [0 .. Blocks - 1 -> Nat]
    <3>1. disk \in [0 .. Blocks - 1 -> Nat] /\ host.cmd.num \in Nat BY <1>1 DEF Shapes
    <3> QED BY <2>3, <3>1
  <2>5. Written(k) BY <1>0, <1>5, Zenon DEF IInv, AtDataRx
  <2>6. ASSUME NEW b \in host.cmd.lba .. host.cmd.lba + e - 1
        PROVE  disk'[b] = host.cmd.num
    <3>1. b \in 0 .. Blocks - 1 BY <1>7, <1>8, <1>18
    <3>2. CASE b \in msd.lba..(msd.lba + msd.len - 1) BY <2>3, <3>1, <3>2
    <3>3. CASE b \notin msd.lba..(msd.lba + msd.len - 1)
      <4>1. b \in host.cmd.lba .. host.cmd.lba + k - 1 BY <1>6, <1>7, <1>17, <3>3
      <4> QED BY <2>3, <2>5, <3>1, <3>3, <4>1 DEF Written
    <3> QED BY <3>2, <3>3
  <2> QED BY <1>2, <2>4, <2>6 DEF Written
<1> DEFINE Moved(bot, residue) ==
       /\ msd'.bot = bot /\ msd'.st = "PASS" /\ msd'.residue = residue /\ msd'.tag = msd.tag
       /\ msd'.len \in Nat /\ msd'.lba \in Nat
       /\ DOMAIN msd' = DOMAIN msd /\ ~msd'.failed /\ msd'.known = msd.known
<1>4. \/ Moved("SEND_STATUS", 0) /\ e = host.cmd.xfr /\ Piped(Csw(msd'), 0, FALSE, FALSE)
      \/ /\ Moved("DATA_RX", msd.residue - msd.len) /\ msd.len < msd.residue
         /\ msd'.len \in 1 .. msd.residue - msd.len /\ msd'.lba = msd.lba + msd.len
         /\ Piped(None, msd'.len, FALSE, FALSE)
  <2> DEFINE m == [msd EXCEPT !.residue = msd.residue - msd.len]
  <2>1. IF msd.residue - msd.len = 0 THEN SendCsw(NoData(m))
        ELSE \E room \in Positive :
               ReceiveData([m EXCEPT !.lba = @ + msd.len, !.len = Least(room, msd.residue - msd.len)])
    BY Zenon DEF DataRx
  <2>2. CASE msd.residue - msd.len = 0
    <3> DEFINE n == NoData(m)
    <3>1. /\ DOMAIN n = DOMAIN msd /\ n.residue = 0 /\ n.tag = msd.tag /\ n.st = "PASS"
          /\ n.len = 0 /\ n.lba = 0 /\ n.known = msd.known /\ n.failed = msd.failed
       BY <1>1, <2>2 DEF NoData, Shapes
    <3>2. SendCsw(n) BY <2>1, <2>2
    <3> HIDE DEF n
    <3>3. msd' = [n EXCEPT !.bot = "SEND_STATUS"] /\ pipe' = [pipe EXCEPT !.in = Csw(n)]
      BY <1>1, <3>2 DEF SendCsw
    <3>4. Moved("SEND_STATUS", 0) /\ Csw(n) = Csw(msd') BY <1>1, <3>1, <3>3 DEF Csw, Shapes
    <3>5. Piped(Csw(msd'), 0, FALSE, FALSE) BY <1>1, <3>3, <3>4 DEF Piped, Shapes
    <3>6. e = host.cmd.xfr BY <1>5, <1>6, <1>7, <2>2
    <3> QED BY <3>4, <3>5, <3>6
  <2>3. CASE msd.residue - msd.len # 0
    <3>1. PICK room \in Positive :
               ReceiveData([m EXCEPT !.lba = @ + msd.len, !.len = Least(room, msd.residue - msd.len)])
      BY <2>1, <2>3
    <3> DEFINE n == [m EXCEPT !.lba = @ + msd.len, !.len = Least(room, msd.residue - msd.len)]
    <3>2. room \in Nat \ {0} BY UsbMsdAssumption DEF Positive
    <3>3. msd.len < msd.residue /\ Least(room, msd.residue - msd.len) \in 1 .. msd.residue - msd.len
      BY <1>7, <2>3, <3>2 DEF Least
    <3>4. /\ DOMAIN n = DOMAIN msd /\ n.residue = msd.residue - msd.len /\ n.tag = msd.tag
          /\ n.st = "PASS"
          /\ n.len = Least(room, msd.residue - msd.len) /\ n.lba = msd.lba + msd.len
          /\ n.known = msd.known /\ n.failed = msd.failed
       BY <1>1 DEF Shapes
    <3>5. ReceiveData(n) BY <3>1
    <3> HIDE DEF n
    <3>6. msd' = [n EXCEPT !.bot = "DATA_RX"] /\ pipe' = [pipe EXCEPT !.out = n.len]
      BY <3>5 DEF ReceiveData
    <3>9. DOMAIN msd = {"bot", "st", "residue", "tag", "req", "src", "len", "lba", "cbw", "known", "failed"}
          /\ ~msd.failed
      BY <1>1 DEF Shapes
    <3>7. Moved("DATA_RX", msd.residue - msd.len) /\ msd'.len = n.len /\ msd'.lba = msd.lba + msd.len
      BY <1>7, <3>3, <3>4, <3>6, <3>9
    <3>8. Piped(None, msd'.len, FALSE, FALSE) BY <1>1, <3>3, <3>4, <3>6, <3>7 DEF Piped, Shapes
    <3> QED BY <3>3, <3>4, <3>7, <3>8
  <2> QED BY <2>2, <2>3
<1> USE DEF IInv, Piped
<1>9. Shapes'
  <2>1. /\ msd'.bot \in {"SEND_STATUS", "DATA_RX"} /\ msd'.st \in Statuses /\ msd'.residue \in Nat
        /\ msd'.tag \in Nat /\ msd'.len \in Nat /\ msd'.lba \in Nat
        /\ DOMAIN msd' = DOMAIN msd /\ ~msd'.failed
    <3>1. msd.tag \in Nat /\ ~msd.failed /\ msd.residue - msd.len \in Nat BY <1>1, <1>7 DEF Shapes
    <3> QED BY <1>4, <3>1 DEF Statuses
  <2>2. DOMAIN pipe' = DOMAIN pipe /\ pipe'.inHalt \in BOOLEAN /\ pipe'.outHalt \in BOOLEAN /\ pipe'.out \in Nat
    BY <1>1, <1>4 DEF Shapes
  <2> QED BY <1>1, <1>2, <1>3, <2>1, <2>2 DEF Shapes
<1>10. AtCommand' BY <1>1, <1>2, <1>4 DEF AtCommand, Proper, Shapes
<1>11. AtIdle' /\ AtDataTx' /\ AtAbort' BY <1>4 DEF AtIdle, AtDataTx, AtAbort
<1>13. AtDataRx'
  <2>1. SUFFICES ASSUME msd'.bot = "DATA_RX" PROVE AtDataRx' BY DEF AtDataRx
  <2>2. msd'.residue = msd.residue - msd.len /\ msd.len < msd.residue BY <1>4, <2>1
  <2>6. msd'.lba = msd.lba + msd.len /\ msd'.len \in 1 .. msd.residue - msd.len /\ msd'.st = "PASS"
        /\ Piped(None, msd'.len, FALSE, FALSE)
    BY <1>4, <2>1
  <2>3. host.cmd.xfr - msd'.residue = e /\ msd'.lba = host.cmd.lba + host.cmd.xfr - msd'.residue
    BY <1>5, <1>6, <1>7, <2>2, <2>6
  <2>4. Written(host.cmd.xfr - msd.residue)' BY <1>2, <1>3, <2>3 DEF Written
  <2>5. msd'.residue <= host.cmd.xfr /\ msd'.len > 0 /\ msd'.len <= msd'.residue
    BY <1>7, <2>2, <2>6
  <2>7. host.phase = "out" BY <1>1, <2>2
  <2>8. pipe'.in = None /\ pipe'.out = msd'.len /\ ~pipe'.inHalt /\ ~pipe'.outHalt BY <2>6
  <2>9. host.cmd # None /\ host.cmd.op = "WRITE" /\ host.got = <<>> BY <1>1
  <2> HIDE DEF IInv, Piped, Moved
  <2> QED BY <1>2, <1>19, <2>3, <2>4, <2>5, <2>6, <2>7, <2>8, <2>9 DEF AtDataRx, Clean, Halts
<1>14. AtStatus'
  <2>1. SUFFICES ASSUME msd'.bot = "SEND_STATUS" PROVE AtStatus' BY DEF AtStatus
  <2>2. Csw(msd)' = Csw(msd') BY DEF Csw
  <2>3. msd'.tag \in Nat /\ msd'.residue \in Nat /\ msd'.st \in Statuses
    BY <1>1, <1>4, <2>1 DEF Statuses, Shapes
  <2>4. Csw(msd') # None BY <2>3, CswOf
  <2>5. host.sent = host.cmd.xfr /\ e = host.cmd.xfr /\ msd'.residue = 0 BY <1>4, <1>19, <2>1
  <2>6. Written(host.cmd.xfr)' BY <1>2, <1>3, <2>5 DEF Written
  <2>7. Len(host.got) = 0 BY <1>1
  <2>8. msd'.st = "PASS" /\ Piped(Csw(msd'), 0, FALSE, FALSE) /\ msd'.bot = "SEND_STATUS"
    BY <1>4, <2>1
  <2>9. /\ host.cmd # None /\ host.cmd.op = "WRITE" /\ host.phase = "status"
        /\ host.cmd.xfr - Len(host.got) - host.sent = 0
    BY SMTT(30), <1>1, <1>5, <1>6, <1>7, <1>18, <2>5, <2>7
  <2>10. pipe'.in = Csw(msd') /\ ~pipe'.inHalt /\ ~pipe'.outHalt BY <2>8
  <2> HIDE DEF IInv, Piped, Moved
  <2> QED BY <1>2, <2>1, <2>2, <2>4, <2>5, <2>6, <2>8, <2>9, <2>10 DEF AtStatus
<1>16. ResidueIsSafe' BY <1>2 DEF ResidueIsSafe
<1> QED BY <1>9, <1>10, <1>11, <1>13, <1>14, <1>16

\* StatusSent: the status has gone, and the driver waits for a CBW.
LEMMA StatusSentStep ==
  ASSUME Matched, IInv, StatusSent, irq' = [tx |-> "none", rx |-> "none"], UNCHANGED host
  PROVE  IInv'
<1> USE DEF StatusSent, IInv, Cleared, Prepared, NoData
<1>1. host.phase = "idle" /\ Clean BY DEF AtStatus
<1>5. Shapes' BY DEF Shapes, Statuses
<1>7. AtCommand' BY <1>1 DEF AtCommand, Proper, Shapes
<1>8. AtIdle' BY <1>1 DEF AtIdle, Shapes
<1>9. AtDataTx' /\ AtDataRx' /\ AtStatus' /\ AtAbort'
  BY DEF Shapes, AtDataTx, AtDataRx, AtStatus, AtAbort
<1>13. ResidueIsSafe' BY  DEF ResidueIsSafe, Shapes
<1> QED BY <1>5, <1>7, <1>8, <1>9, <1>13

\* StatusStalled: the status follows the halt.
LEMMA StatusStalledStep ==
  ASSUME Matched, IInv, StatusStalled, irq' = [tx |-> "none", rx |-> "none"], UNCHANGED host
  PROVE  IInv'
<1>1. /\ msd.bot = "SEND_STATUS" /\ irq.tx = "stall" /\ host.cmd # None
      /\ msd.st \in {"PASS", "FAIL"} /\ pipe.in = None
      /\ pipe.inHalt /\ ~pipe.outHalt /\ host.phase = "clearIn" /\ pipe.out = 0 /\ Shapes
      /\ msd.tag = host.cmd.num
  BY DEF StatusStalled, IInv, AtStatus, AtCommand, Shapes
<1>2. irq'.tx = "none" /\ irq'.rx = "none" /\ DOMAIN irq' = {"tx", "rx"} /\ UNCHANGED <<disk, host>>
  BY DEF StatusStalled
<1>3. SendCsw([msd EXCEPT !.st = msd.st]) BY <1>1 DEF StatusStalled, Shapes
<1>4. Told(msd, "SEND_STATUS", msd.st) /\ Csw([msd EXCEPT !.st = msd.st]) = Csw(msd')
  BY <1>1, <1>3 DEF SendCsw, Told, Shapes, Csw
<1>5. Piped(Csw(msd'), 0, TRUE, FALSE) BY <1>1, <1>3, <1>4 DEF SendCsw, Piped, Shapes
<1>6. msd'.tag \in Nat /\ msd'.residue \in Nat /\ msd'.st \in Statuses
  BY <1>1, <1>4 DEF Statuses, Shapes, Told
<1>7. Csw(msd') # None /\ Csw(msd)' = Csw(msd') BY <1>6, CswOf DEF Csw
<1> USE DEF IInv, Piped, Told
<1>9. Shapes' BY <1>1, <1>2, <1>4, <1>5 DEF Shapes, Statuses
<1>10. AtCommand' BY <1>1, <1>2, <1>4, <1>5 DEF AtCommand, Proper, Shapes
<1>11. AtIdle' /\ AtDataTx' /\ AtDataRx' /\ AtAbort'
  BY <1>4 DEF AtIdle, AtDataTx, AtDataRx, AtAbort
<1>14. AtStatus'
  <2>1. Returned(host.cmd.xfr)' = Returned(host.cmd.xfr) BY <1>2 DEF Returned
  <2>2. Written(host.cmd.xfr)' <=> Written(host.cmd.xfr) BY <1>2 DEF Written
  <2> QED BY <1>1, <1>2, <1>4, <1>5, <1>7, <2>1, <2>2 DEF AtStatus
<1>16. ResidueIsSafe' BY <1>2 DEF ResidueIsSafe
<1> QED BY <1>9, <1>10, <1>11, <1>14, <1>16

\* Unexpected: no assertion is reached; only an aborted command is aborted again.
LEMMA UnexpectedStep ==
  ASSUME Matched, IInv, Unexpected, irq.tx # "none" \/ irq.rx # "none",
         irq' = [tx |-> "none", rx |-> "none"], UNCHANGED host
  PROVE  IInv'
<1>1. \/ msd.bot = "SEND_STATUS" /\ irq.tx = "none" /\ UNCHANGED <<msd, pipe>>
      \/ msd.bot = "ABORTED" /\ Abort(msd)
  BY DEF Unexpected, IInv, AtIdle, AtDataTx, AtDataRx, Shapes
<1>2. irq'.tx = "none" /\ irq'.rx = "none" /\ DOMAIN irq' = {"tx", "rx"} /\ UNCHANGED <<disk, host>>
  BY DEF Unexpected
<1>3. CASE msd.bot = "SEND_STATUS" /\ irq.tx = "none" /\ UNCHANGED <<msd, pipe>>
  <2> USE DEF IInv
  <2>1. host.phase = "clearOut" /\ pipe.in = None /\ pipe.inHalt
    BY <1>3, CswOf DEF AtStatus, AtCommand, Shapes
  <2>2. Shapes' BY <1>2, <1>3 DEF Shapes
  <2>3. AtCommand' BY <1>2, <1>3, <2>1 DEF AtCommand, Proper, Shapes
  <2>4. AtStatus' BY <1>2, <1>3, <2>1 DEF AtStatus, Returned, Written
  <2>5. AtIdle' /\ AtDataTx' /\ AtDataRx' /\ AtAbort'
    BY <1>3 DEF AtIdle, AtDataTx, AtDataRx, AtAbort
  <2>6. ResidueIsSafe' BY <1>2 DEF ResidueIsSafe
  <2> QED BY <2>2, <2>3, <2>4, <2>5, <2>6
<1>4. CASE msd.bot = "ABORTED" /\ Abort(msd)
  <2> USE DEF IInv
  <2>1. msd' = [[msd EXCEPT !.st = "PHASE_ERR"] EXCEPT !.bot = "ABORTED"]
       /\ pipe' = [pipe EXCEPT !.inHalt = TRUE, !.outHalt = TRUE]
     BY <1>4 DEF Abort, Stall, Shapes
  <2>2. Shapes' BY <1>2, <2>1 DEF Shapes, Statuses
  <2>3. AtCommand' BY <1>2, <1>4, <2>1 DEF AtCommand, Proper, Shapes, AtAbort
  <2>4. AtAbort' BY <1>2, <1>4, <2>1 DEF AtAbort, Shapes
  <2>5. AtIdle' /\ AtDataTx' /\ AtDataRx' /\ AtStatus'
    BY <2>1 DEF AtIdle, AtDataTx, AtDataRx, AtStatus, Shapes
  <2>6. ResidueIsSafe' BY <1>2 DEF ResidueIsSafe
  <2> QED BY <2>2, <2>3, <2>4, <2>5, <2>6
<1> QED BY <1>1, <1>3, <1>4

\* The invariant holds at the start.
LEMMA InitInvariant == Init => IInv
BY
   DEF Init, IInv, Shapes, AtCommand, AtIdle, AtDataTx, AtDataRx, AtStatus, AtAbort,
       ResidueIsSafe, Statuses

\* A step that changes nothing keeps the invariant.
LEMMA StutterStep ==
  ASSUME IInv, UNCHANGED vars PROVE IInv'
<1> USE DEF vars, IInv
<1>1. Shapes' BY DEF Shapes
<1>2. AtCommand' /\ AtIdle' BY DEF AtCommand, Proper, AtIdle
<1>3. AtDataTx' BY DEF AtDataTx, Returned, Piece
<1>4. AtDataRx' BY DEF AtDataRx, Written
<1>5. AtStatus' BY DEF AtStatus, Returned, Written, Csw
<1>6. AtAbort' /\ ResidueIsSafe' BY DEF AtAbort, ResidueIsSafe
<1> QED BY <1>1, <1>2, <1>3, <1>4, <1>5, <1>6

\* Every step keeps the invariant.
LEMMA NextInvariant ==
  ASSUME Matched, IInv, [Next]_vars PROVE IInv'
<1>1. CASE BotFsm
  <2>1. irq' = [tx |-> "none", rx |-> "none"] /\ UNCHANGED host /\ (irq.tx # "none" \/ irq.rx # "none")
    BY <1>1 DEF BotFsm
  <2> QED BY <1>1, <2>1, CommandStep, DataTxStep, DataRxStep, StatusSentStep, StatusStalledStep, UnexpectedStep
          DEF BotFsm
<1>2. CASE HostGoesOn
  BY <1>2, HostCbwStep, HostStalledStep, HostClearsStep, HostInStep, HostOutStep, HostStatusStep,
     HostGivesUpStep, BmsResetStep DEF HostGoesOn
<1>3. CASE Configure BY <1>3, ConfigureStep
<1>4. CASE \E c \in Commands : Sensible(c) /\ HostCommand(c) BY <1>4, HostCommandStep
<1>5. CASE UNCHANGED vars BY <1>5, StutterStep
<1> QED BY <1>1, <1>2, <1>3, <1>4, <1>5 DEF Next

\* The inductive invariant holds for every medium, set of commands and buffer size.
THEOREM InvariantHolds == ASSUME Matched PROVE Spec => []IInv
<1>1. Init => IInv BY InitInvariant
<1>2. IInv /\ [Next]_vars => IInv' BY NextInvariant
<1> QED BY <1>1, <1>2, PTL DEF Spec

\* No ASSERT of usbd_msc_bot_fsm fails, and the endpoints are as its state has them
\* (mss_usb_device_msd.c:937, 1031, 1446).
THEOREM TypeCorrect == ASSUME Matched PROVE Spec => []TypeOK
<1>1. IInv => TypeOK
  <2> SUFFICES ASSUME IInv PROVE TypeOK OBVIOUS
  <2>1. CASE msd.bot = "DATA_TX" BY <2>1, PieceWaits DEF IInv, Shapes, TypeOK, AtDataTx
  <2>2. CASE msd.bot # "DATA_TX" BY <2>2 DEF IInv, Shapes, TypeOK, AtIdle, AtDataRx
  <2> QED BY <2>1, <2>2
<1> QED BY <1>1, InvariantHolds, PTL

\* The status never says that more was transferred than was (mss_usb_device_msd.c:766,
\* 955, 1052).
THEOREM ResidueIsSafeHolds == ASSUME Matched PROVE Spec => []ResidueIsSafe
<1>1. IInv => ResidueIsSafe BY DEF IInv
<1> QED BY <1>1, InvariantHolds, PTL

\* The host is never left waiting for a device that has nothing to do, but for one that
\* has asked for a reset (mss_usb_device_msd.c:1446).
THEOREM NeverLeftWaitingHolds == ASSUME Matched PROVE Spec => []NeverLeftWaiting
<1>1. IInv => NeverLeftWaiting BY WaitsOnlyAborted
<1> QED BY <1>1, InvariantHolds, PTL

\* The host takes a command: a Take of the BlockDevice.
LEMMA TakesCommand ==
  ASSUME Matched, IInv, NEW c \in Commands, HostCommand(c) PROVE Device!Take
<1> DEFINE C == [num |-> host.num + 1, op |-> c.op, xfr |-> c.xfr, dir |-> c.dir,
                 alloc |-> c.alloc, lba |-> c.lba, odd |-> c.odd]
<1>1. host.num \in Nat /\ host.answer.num \in 0 .. host.num BY DEF IInv, Shapes
<1>2. C \in Cbws /\ C # None
  <2>1. host.num + 1 \in Nat BY <1>1
  <2> QED BY <2>1, ProperKept
<1>3. host.cmd = None BY DEF HostCommand, IInv, AtCommand
<1>4. C.num = host.num + 1 OBVIOUS
<1>5. host'.cmd = C /\ host'.answer = host.answer /\ disk' = disk BY DEF HostCommand, IInv, Shapes
<1> HIDE DEF C
<1> QED BY <1>1, <1>2, <1>3, <1>4, <1>5 DEF Device!Take

\* BOT_DATA_RX: a Store, of the blocks of the piece.
LEMMA StoresPiece ==
  ASSUME Matched, IInv, DataRx, UNCHANGED host PROVE Device!Store
<1>1. /\ host.cmd # None /\ host.cmd.op = "WRITE" /\ Proper(host.cmd) /\ Shapes
      /\ pipe.rx = [i \in 1 .. msd.len |-> host.cmd.num]
      /\ msd.len <= msd.residue /\ msd.residue <= host.cmd.xfr
      /\ msd.lba = host.cmd.lba + host.cmd.xfr - msd.residue
  BY DEF DataRx, IInv, AtDataRx, AtCommand
<1>2. /\ host.cmd.xfr \in Nat /\ host.cmd.lba \in Nat /\ msd.len \in Nat /\ msd.lba \in Nat
      /\ msd.residue \in Nat /\ host.cmd.lba + host.cmd.xfr <= Blocks
  BY <1>1 DEF Proper, Cbws, Shapes
<1> DEFINE piece == msd.lba .. (msd.lba + msd.len - 1)
<1>3. piece \in SUBSET (host.cmd.lba .. (host.cmd.lba + host.cmd.xfr - 1) \intersect 0 .. (Blocks - 1))
  <2> SUFFICES ASSUME NEW b \in piece
               PROVE  b \in host.cmd.lba .. (host.cmd.lba + host.cmd.xfr - 1) /\ b \in 0 .. (Blocks - 1)
    OBVIOUS
  <2>1. msd.len <= msd.residue /\ msd.residue <= host.cmd.xfr
        /\ msd.lba = host.cmd.lba + host.cmd.xfr - msd.residue
    BY <1>1
  <2>2. b \in Nat /\ msd.lba <= b /\ b < msd.lba + msd.len BY <1>2
  <2> HIDE DEF piece
  <2> QED BY <1>2, <2>1, <2>2
<1>4. disk' = [b \in DOMAIN disk |-> IF b \in piece THEN pipe.rx[b - msd.lba + 1] ELSE disk[b]]
  BY Zenon DEF DataRx
<1>5. \A b \in piece : pipe.rx[b - msd.lba + 1] = host.cmd.num
  <2> TAKE b \in piece
  <2>1. b - msd.lba + 1 \in 1 .. msd.len BY <1>2
  <2> QED BY <1>1, <2>1
<1>6. DOMAIN disk = 0 .. (Blocks - 1) BY <1>1 DEF Shapes
<1> HIDE DEF piece
<1>7. disk' = [b \in 0 .. (Blocks - 1) |-> IF b \in piece THEN host.cmd.num ELSE disk[b]]
  BY <1>4, <1>5, <1>6
<1>8. UNCHANGED <<host.cmd, [num |-> host.answer.num, passed |-> host.answer.passed, got |-> host.answer.got]>>
  OBVIOUS
<1> QED BY <1>1, <1>3, <1>7, <1>8, Zenon DEF Device!Store, Device!RangeOf

\* The status is received: an Answer, of a command with all of its effect if it passed.
LEMMA AnswersCommand ==
  ASSUME Matched, IInv, HostStatus PROVE Device!Answer
<1>1. /\ msd.bot = "SEND_STATUS" /\ pipe.in = Csw(msd) /\ Proper(host.cmd) /\ host.cmd # None
      /\ msd.st \in {"PASS", "FAIL"} /\ msd.tag = host.cmd.num /\ Shapes
      /\ msd.st = "PASS" => /\ host.cmd.op = "READ" => host.got = Returned(host.cmd.xfr)
                            /\ host.cmd.op = "WRITE" => Written(host.cmd.xfr)
  BY DEF HostStatus, Quiet, IInv, AtCommand, AtIdle, AtDataTx, AtDataRx, AtStatus, AtAbort, Shapes
<1>2. Csw(msd).kind = "csw" /\ Csw(msd).num = msd.tag /\ Csw(msd).residue = msd.residue /\ Csw(msd).status = msd.st
  BY <1>1, CswOf DEF Statuses, Shapes
<1>3. host' = [host EXCEPT !.phase = "idle", !.cmd = None,
                 !.answer = [num |-> pipe.in.num, passed |-> pipe.in.status = "PASS", got |-> host.got,
                             lost |-> pipe.in.residue, left |-> host.cmd.xfr - Len(host.got) - host.sent]]
  BY <1>1, <1>2 DEF HostStatus
<1>4. host'.cmd = None /\ host'.answer.num = msd.tag /\ host'.answer.got = host.got
  BY <1>1, <1>2, <1>3 DEF Shapes
<1>5. host'.answer.passed = (msd.st = "PASS")
  BY <1>1, <1>2, <1>3, Zenon DEF Shapes
<1>6. disk' = disk BY DEF HostStatus
<1> QED BY <1>1, <1>4, <1>5, <1>6 DEF Device!Answer, Device!Contents, Device!RangeOf, Returned, Written

\* Every step is one of the BlockDevice, or changes nothing the host can see.
LEMMA StepsAsDevice ==
  ASSUME Matched, IInv, [Next]_vars
  PROVE  [Device!Next]_<<disk, host.cmd, [num |-> host.answer.num, passed |-> host.answer.passed, got |-> host.answer.got]>>
<1> DEFINE Stutters == disk' = disk /\ host'.cmd = host.cmd /\ host'.answer = host.answer
<1> USE DEF Device!Next
<1>0. Stutters => UNCHANGED <<disk, host.cmd, [num |-> host.answer.num, passed |-> host.answer.passed, got |-> host.answer.got]>>
  OBVIOUS
<1>1. CASE BotFsm
  <2>1. CASE DataRx BY SMTT(30), <1>1, <2>1, StoresPiece DEF BotFsm
  <2>2. CASE Command \/ DataTx \/ StatusSent \/ StatusStalled \/ Unexpected
    <3>1. Stutters BY <1>1, <2>2 DEF BotFsm, Command, DataTx, StatusSent, StatusStalled, Unexpected
    <3> QED BY SMTT(30), <1>0, <3>1
  <2> QED BY <1>1, <2>1, <2>2 DEF BotFsm
<1>2. CASE HostStatus BY <1>2, AnswersCommand
<1>3. CASE HostCbw \/ HostStalled \/ HostClears \/ HostIn \/ HostOut \/ HostGivesUp
  <2>1. DOMAIN host = {"phase", "cmd", "got", "sent", "num", "answer"} BY DEF IInv, Shapes
  <2>2. Stutters
    BY <1>3, <2>1 DEF HostCbw, HostStalled, HostClears, HostIn, HostOut, HostGivesUp
  <2> QED BY <1>0, <2>2
<1>4. CASE BmsReset \/ Configure
  <2>1. host'.cmd = None /\ host'.answer = host.answer /\ disk' = disk
    BY <1>4 DEF BmsReset, Configure, IInv, Shapes
  <2>2. CASE host.cmd = None BY <1>0, <2>1, <2>2
  <2>3. CASE host.cmd # None BY <2>1, <2>3 DEF Device!GiveUp
  <2> QED BY <2>2, <2>3
<1>5. CASE \E c \in Commands : Sensible(c) /\ HostCommand(c) BY <1>5, TakesCommand
<1>6. CASE UNCHANGED vars BY <1>0, <1>6 DEF vars
<1> QED BY <1>1, <1>2, <1>3, <1>4, <1>5, <1>6 DEF Next, HostGoesOn

\* The refinement: the transport, its pieces, halts and resets implement a BlockDevice, for
\* every medium and any number of commands.
THEOREM ImplementsBlockDeviceHolds == ASSUME Matched PROVE Spec => ImplementsBlockDevice
<1>1. Init => Device!Init
  <2> SUFFICES ASSUME Init PROVE Device!Init OBVIOUS
  <2>1. disk = [b \in 0 .. (Blocks - 1) |-> 0] BY DEF Init
  <2>2. host.cmd = None /\ host.answer.num = 0 /\ host.answer.passed = FALSE /\ host.answer.got = <<>>
    BY DEF Init
  <2> QED BY <2>1, <2>2, Zenon DEF Device!Init
<1>2. IInv /\ [Next]_vars
        => [Device!Next]_<<disk, host.cmd, [num |-> host.answer.num, passed |-> host.answer.passed, got |-> host.answer.got]>>
  BY StepsAsDevice
<1> QED BY <1>1, <1>2, InvariantHolds, PTL DEF Spec, ImplementsBlockDevice, Device!Spec
=============================================================================
