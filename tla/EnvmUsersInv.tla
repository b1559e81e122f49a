---------------------------- MODULE EnvmUsersInv ----------------------------
(***************************************************************************)
(* Two inductive invariants, over that of Comblk.  The one of SysServices: a *)
(* call is sent only when nothing of the last one is left, so that each gets *)
(* its own answer; and the messages of Flash*Freeze come one after the       *)
(* other, which the clock follows.  The one of EnvmUsers: who has set        *)
(* ENVM_CR and what the setting found was, and how far a call of the eNVM    *)
(* driver is.  Checked by TLC and proved in EnvmUsersProofs.                 *)
(***************************************************************************)
EXTENDS EnvmUsers, ComblkInv

---------------------------------------------------------------------------
(* The services: SInv.                                                     *)

\* The fabric is not frozen, nor programmed, while it is frozen; and no ISP takes the
\* standby clock, whose divisors nothing puts back.
Steady ==
  /\ "REFREEZE" \notin Hazards
  /\ \A r \in Requests : r.op # "isp_program"

Shapes ==
  /\ DOMAIN svc = {"main", "call", "todo", "busy", "got", "saved"}
  /\ DOMAIN chip = {"freeze", "clock", "div", "kept", "locked"}
  /\ svc.main \in {"free", "spin", "wait"} /\ svc.busy \in BOOLEAN

---------------------------------------------------------------------------
(* The call.                                                               *)

\* What of a service is still to come follows what is called.
Chain(call, todo) ==
  /\ todo \in Seq(Requests)
  /\ \A i \in 0 .. Len(todo) :
       LET op == IF i = 0 THEN call.op ELSE todo[i].op
       IN /\ op \in Locking => i < Len(todo) /\ todo[i + 1].op = "number_of_keys"
          /\ i < Len(todo) /\ todo[i + 1].op \in {"freeze", "iap"} =>
               todo[i + 1].op = "iap" /\ op = "digest"

\* The flag is set while a command that the driver has been given is not ended; that of
\* an ISP for ever.  Whoever waits for the flag has been given nothing yet, or its
\* own answer.
InCall ==
  /\ svc.main = "free" => svc.call = NoReq
  /\ svc.main # "free" => svc.call \in Requests /\ Chain(svc.call, svc.todo)
  /\ svc.main = "wait" =>
       /\ svc.call.handler = "request" /\ drv.req = svc.call
       /\ svc.busy => drv.handler = "request" /\ svc.got = "none"
       /\ ~svc.busy => svc.got = "own"
  /\ svc.main # "wait" /\ svc.busy => drv.req \in Requests /\ drv.req.handler = "isp"
  /\ Busy => svc.busy /\ drv.handler = drv.req.handler

\* Nothing is left of an older command; nor of the last one when the flag is clear.
Fresh ==
  /\ \A i \in DOMAIN rxq : rxq[i].tag # "old"
  /\ \A i \in DOMAIN sys.out : sys.out[i].tag # "old"
  /\ \A i \in DOMAIN txq : IF txq[i].first THEN Cur(txq[i]) ELSE txq[i].req = NoReq
  /\ sys.req # NoReq => sys.tag = "cur"

Answered == sys.tag = "cur" /\ sys.req = NoReq

Clear ==
  ~svc.busy =>
    /\ sys.req = NoReq /\ \A i \in DOMAIN txq : ~txq[i].first
    /\ \A i \in DOMAIN rxq : ~Cur(rxq[i])
    /\ \A i \in DOMAIN sys.out : ~Cur(sys.out[i])
    /\ svc.main = "wait" => Answered

\* The transmit interrupt is for paged commands.
Quiet ==
  Busy /\ ~Sending /\ drv.req.kind # "paged" =>
    "TX" \notin en /\ cpu \notin {"tx", "isr_command", "isr_data"}

---------------------------------------------------------------------------
(* The chip.                                                               *)

\* eNVM-1 is locked from the answer of a command that locks it to that of the count of
\* keys, which follows.
Locked ==
  chip.locked =>
    \/ svc.main = "wait" /\ svc.call.op \in Locking
    \/ /\ svc.main # "free" /\ svc.call.op = "number_of_keys"
       /\ svc.main = "wait" => ~Answered

\* standby[i] is whether the processor is to run from the standby clock behind the
\* first i words of the receive FIFO: each message of Flash*Freeze changes it, and
\* behind the last one it is as the fabric is.
Turning(w) == w.val \in {"shutdown", "exit"}
Course(q, from, to) ==
  \E standby \in [0 .. Len(q) -> BOOLEAN] :
    /\ standby[0] = from
    /\ \A i \in 0 .. Len(q) :
         (\A j \in DOMAIN q : j > i => ~Turning(q[j])) => standby[i] = to
    /\ \A i \in DOMAIN q :
         IF Turning(q[i])
         THEN standby[i] = (q[i].val = "shutdown") /\ standby[i - 1] = ~standby[i]
         ELSE standby[i] = standby[i - 1]

Alternate ==
  /\ \A i \in DOMAIN sys.out : ~Turning(sys.out[i])
  /\ Course(rxq, chip.clock = "standby", chip.freeze = "frozen")

\* The fabric works when a check of the digest is answered, and while an IAP runs; and
\* the messages that say so are read before the answer.
Settled ==
  /\ svc.call.op = "iap" => chip.freeze = "no"
  /\ svc.main = "wait" /\ svc.call.op \in {"digest", "iap"} /\ Answered =>
       /\ chip.freeze = "no"
       /\ \A i, j \in DOMAIN rxq : Turning(rxq[i]) /\ Cur(rxq[j]) => i < j
       /\ Begun \/ ~svc.busy => \A i \in DOMAIN rxq : ~Turning(rxq[i])

Divisors ==
  DivisorsFitClock /\ chip.div \in {"design", "unit"} /\ chip.kept = "design"

SInv ==
  /\ IInv /\ Shapes
  /\ InCall /\ Fresh /\ Clear /\ Quiet
  /\ Locked /\ Alternate /\ Settled /\ Divisors

---------------------------------------------------------------------------
(* The eNVM driver beside them: UInv.                                      *)

\* The program starts no eNVM call while an ISP goes on, unlocks no page of the second
\* block, and leaves byte 0 alone where the area it is in is protected.
Careful ==
  /\ "ISP_AND_NVM" \notin Hazards
  /\ \A c \in NvmCalls :
       /\ c.op = "unlock" => c.start + c.length <= NVM1_BOTTOM
       /\ c.start = 0 => (\A p \in Protections : p[0] = "rw")

Records ==
  /\ DOMAIN drv = {"state", "req", "cmd", "data", "pages", "rx", "handler", "prog"}
  /\ DOMAIN svc = {"main", "call", "todo", "busy", "got", "saved"}
  /\ DOMAIN nvm = DOMAIN Idle
  /\ drv.handler \in {"request", "isp", "none"}
  /\ svc.main \in {"free", "spin", "wait"} /\ svc.busy \in BOOLEAN

---------------------------------------------------------------------------
(* The request flag and ENVM_CR.                                           *)

\* While an ISP goes on the flag is set and nobody waits for it to clear: only the
\* handler that a service waits for clears it.
Flag ==
  /\ drv.handler = "isp" => svc.busy
  /\ svc.main = "wait" => drv.handler # "isp"
  /\ svc.busy /\ svc.main # "wait" => drv.handler # "request"

Plan ==
  /\ svc.main = "free" => svc.call = NoReq
  /\ svc.main # "free" => svc.call \in Requests
  /\ svc.main = "wait" => svc.call.handler # "isp"
  /\ svc.todo \in Seq(Requests)
  /\ \A i \in 1 .. Len(svc.todo) - 1 : svc.todo[i].op \notin Programming
  /\ svc.call.op \in Programming => svc.todo = <<>>

\* The setting is that of the design, or is saved while it is another.
Overwritten == envm = "programming" /\ svc.saved = "design"
Setting ==
  IF svc.call.op \in Programming
  THEN (svc.main = "spin" /\ svc.busy) \/ Overwritten
  ELSE IF drv.handler = "isp" THEN Overwritten
  ELSE nvm.pc = "idle" => envm = "design"

---------------------------------------------------------------------------
(* The eNVM driver.                                                        *)

\* What a call has been checked for: the bytes exist, and no protected area has one
\* of its pages.
PagesOf(call) ==
  call.start \div BYTES_PER_PAGE .. (call.start + call.length - 1) \div BYTES_PER_PAGE
Permitted(call, device, protection) ==
  /\ call.length > 0 /\ call.start + call.length - 1 < Layout(device).reserved
  /\ \A a \in Layout(device).areas : protection[a.id] # "rw" =>
       PagesOf(call) \cap (a.from \div BYTES_PER_PAGE .. a.to \div BYTES_PER_PAGE) = {}

Working == {"request", "pages", "program", "verify", "unlock", "count"}
Offset  == nvm.call.start + nvm.call.length - nvm.left
Written == UNION {r[1] .. r[2] : r \in nvm.wrote}

\* A call runs by itself, and behind it is the setting it has found.
AtCall ==
  /\ nvm.pc = "idle" => nvm = Idle
  /\ nvm.pc # "idle" =>
       /\ nvm.pc \in Working \cup {"end"}
       /\ nvm.call.op \in {"write", "unlock", "count"}
       /\ nvm.call.start \in Nat /\ nvm.call.length \in Nat
       /\ svc.main = "free" /\ drv.handler # "isp"
       /\ IF nvm.call.op = "count" THEN envm = "design"
          ELSE envm = "programming" /\ nvm.saved = "design"

\* How far it is: the bytes before the offset, and those of the page at hand, are
\* written; a warning is remembered, and an error ends it.
AtWork ==
  nvm.pc \in Working =>
    /\ nvm.status \in Going /\ (nvm.worn <=> nvm.status = "WRITE_THRESHOLD_WARNING")
    /\ nvm.flags \subseteq Flags
    /\ nvm.pc \in {"program", "verify"} => nvm.call.op = "write"
    /\ nvm.pc \in {"unlock", "count"} => nvm.call.op = nvm.pc
    /\ IF nvm.pc = "request"
       THEN nvm.held \subseteq Blocks(nvm.call) /\ nvm.held # Blocks(nvm.call) /\ nvm.cmd = NoCmd
       ELSE nvm.held = Blocks(nvm.call)
    /\ nvm.pc \in {"request", "pages"} => nvm.flags = {}
    /\ nvm.call.op = "count" => nvm.cmd = NoCmd
    /\ nvm.call.op # "count" =>
         /\ Permitted(nvm.call, nvm.device, nvm.protection)
         /\ nvm.device \in Devices /\ nvm.protection \in Protections
    /\ nvm.call.op = "unlock" =>
         nvm.page \in PagesOf(nvm.call) /\ nvm.call.start + nvm.call.length <= NVM1_BOTTOM
    /\ nvm.call.op = "write" =>
         /\ nvm.left \in 1 .. nvm.call.length
         /\ Written = nvm.call.start ..
                      IF nvm.pc \in {"program", "verify"}
                        THEN Offset + RemainingPageLength(Offset, nvm.left) - 1 ELSE Offset - 1

\* Each command that has been given is safe, also behind the end of the call.
Safe(cmd) ==
  /\ cmd.block \in Blocks(nvm.call)
  /\ cmd.block * PAGES_PER_BLOCK + cmd.page = cmd.meant
  /\ cmd.seeded \cup cmd.data = 0 .. BYTES_PER_PAGE - 1
  /\ cmd.meant * BYTES_PER_PAGE < Layout(nvm.device).reserved
  /\ \A a \in Layout(nvm.device).areas :
       nvm.protection[a.id] # "rw" =>
         cmd.meant \notin a.from \div BYTES_PER_PAGE .. a.to \div BYTES_PER_PAGE
  /\ cmd.envm = "programming"

AtCommand == nvm.cmd # NoCmd => nvm.held = Blocks(nvm.call) /\ Safe(nvm.cmd)

UInv ==
  /\ Records /\ Flag /\ Plan /\ Setting
  /\ AtCall /\ AtWork /\ AtCommand /\ WritesWhatWasAsked
=============================================================================
