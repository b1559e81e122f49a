------------------------------ MODULE ComblkInv ------------------------------
(***************************************************************************)
(* The inductive invariant of Comblk, for an environment in which answers  *)
(* can be told apart.  Checked by TLC and proved in EnvmUsersProofs.       *)
(***************************************************************************)
EXTENDS Comblk

\* No byte of an answer reads like the digest opcode, and the answer of a paged
\* command is the opcode and a status, as that of the ISP is.
Legible ==
  /\ "DIGEST_BYTE" \notin Hazards
  /\ \A r \in Requests : r.kind = "paged" => r.rsize <= 2

\* ... and answers on their way have another opcode than the command that is sent.
Env == Legible /\ "CONFUSABLE" \notin Hazards

\* A step of a program over this driver: one of the driver or of the controller, a
\* message of another kind, or one elsewhere in the program.
Elsewhere == done' = Nobody /\ UNCHANGED <<drv, cpu, en, txq, rxq, sys>>
Step ==
  \/ Next
  \/ \E message \in Unsolicited : Tells(message)
  \/ Elsewhere

Sending == cpu \in {"opcode", "pointer", "command"}
Busy    == drv.handler # "none"

\* The opcode of the answer has been recognised.
Begun == drv.state = "RX_RESPONSE" /\ Busy /\ ~Sending

Cur(w)      == w.tag = "cur"
Harmless(w) == Cur(w) \/ (w.tag = "event" /\ w.cmd)
Limit       == IF drv.req.rsize = 0 THEN 2 ELSE drv.req.rsize

\* The driver: it has a handler to call from the time a command is sent, and is then
\* in a state in which its answer will be noticed.
Control ==
  /\ drv.prog <=> Busy
  /\ Busy => drv.req \in Requests
  /\ Sending => Busy /\ en = {}
  /\ cpu = "pointer" => drv.req.kind = "ptr"
  /\ cpu = "isr_command" => drv.state = "TX_CMD"
  /\ cpu = "isr_data" => drv.state = "TX_PAGED_DATA"
  /\ ~Sending =>
       /\ Busy => drv.state # "IDLE"
       /\ drv.state \notin {"IDLE", "RX_RESPONSE"} => Busy
       /\ drv.state = "TX_PAGED_DATA" => drv.req.kind = "paged"
       /\ drv.state = "RX_RESPONSE" => drv.rx # <<>>
       /\ drv.state = "RX_RESPONSE" /\ ~Busy => EndsDigestError
  /\ Begun =>
       /\ \A i \in DOMAIN drv.rx : Cur(drv.rx[i]) /\ drv.rx[i].n = i
       /\ ~EndsDigestError
       /\ Len(drv.rx) < Limit

\* A word on its way from the controller: of the answer to the command, the opcode
\* and then the bytes; of another command, another opcode; of none, an event.
Readable(w) ==
  /\ Cur(w) => /\ w.n \in 1 .. Limit
               /\ w.cmd <=> w.n = 1
               /\ w.val = IF w.n = 1 THEN drv.req.op ELSE "byte"
  /\ w.tag = "old" /\ w.cmd => w.val # drv.req.op
  /\ w.tag = "event" => w.val \in Unsolicited

\* The controller has the command, or has answered it, only if its frame has left
\* the transmit FIFO; older frames leave it before and are for other commands.
Frames ==
  /\ sys.tag = "cur" => drv.req \in Requests /\ cpu # "opcode"
  /\ sys.req # NoReq =>
       /\ sys.out = <<>>
       /\ IF sys.tag = "cur" THEN sys.req = drv.req ELSE sys.req.op # drv.req.op
  /\ \A i \in DOMAIN txq : txq[i].first =>
       /\ sys.tag = "old" /\ txq[i].req \in Requests
       /\ IF Cur(txq[i])
          THEN /\ txq[i].req = drv.req /\ drv.req \in Requests /\ cpu # "opcode"
               /\ \A j \in i + 1 .. Len(txq) : ~txq[j].first
          ELSE txq[i].req.op # drv.req.op

\* Words of the answer come when the controller has given it, behind all the older
\* ones and followed by none that could be taken for its bytes.
Mail ==
  /\ \A i \in DOMAIN rxq : Readable(rxq[i])
  /\ \A i \in DOMAIN sys.out :
       /\ Readable(sys.out[i])
       /\ Cur(sys.out[i]) <=> sys.tag = "cur"
       /\ Cur(sys.out[i]) => sys.out[i].n = sys.out[1].n + i - 1
  /\ \A i \in DOMAIN rxq : Cur(rxq[i]) =>
       /\ sys.tag = "cur" /\ sys.req = NoReq
       /\ \A j \in i + 1 .. Len(rxq) : Harmless(rxq[j])
  /\ Begun =>
       /\ sys.tag = "cur" /\ sys.req = NoReq
       /\ \A i \in DOMAIN rxq : Harmless(rxq[i])

\* Nothing older is left when a paged command, which does not look at the opcode, is
\* sent, unless it may be taken for its answer.
Alone ==
  "CONFUSABLE" \notin Hazards /\ Busy /\ drv.req.kind = "paged" =>
    /\ \A i \in DOMAIN rxq : Harmless(rxq[i])
    /\ \A i \in DOMAIN sys.out : Harmless(sys.out[i])
    /\ \A i \in DOMAIN txq : txq[i].first => Cur(txq[i])
    /\ sys.req # NoReq => sys.tag = "cur"

\* The bytes of the answer arrive in order: n, at place j of the receive FIFO, is the
\* next one behind those in the FIFO or, if there are none, behind the k received.
Follows(n, q, j, k) ==
  /\ k < n /\ \A h \in 1 .. j - 1 : Cur(q[h]) => q[h].n < n
  /\ \/ k = 0 /\ \A h \in 1 .. j - 1 : ~Cur(q[h])
     \/ k > 0 /\ n = k + 1
     \/ \E h \in 1 .. j - 1 : Cur(q[h]) /\ q[h].n + 1 = n

Ordered(q, out, k) ==
  /\ \A j \in DOMAIN q : Cur(q[j]) => Follows(q[j].n, q, j, k)
  /\ out # <<>> /\ Cur(out[1]) => Follows(out[1].n, q, Len(q) + 1, k)

Received == IF Begun THEN Len(drv.rx) ELSE 0

InOrder == Ordered(rxq, sys.out, Received)

Outcome ==
  /\ done.answer = "foreign" => "CONFUSABLE" \in Hazards /\ drv.req.kind = "paged"
  /\ NothingLeftBehind

IInv == TypeOK /\ Control /\ Frames /\ Mail /\ Alone /\ InOrder /\ Outcome
=============================================================================
