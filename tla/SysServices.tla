---------------------------- MODULE SysServices ----------------------------
(***************************************************************************)
(* The System Services driver (drivers/mss_sys_services/mss_sys_services.c) *)
(* over the COMM_BLK driver: one main loop calls the services; all but     *)
(* MSS_SYS_start_isp wait in the call for their completion handler.  Some    *)
(* services are more than one request.  IAP and ISP change the eNVM and      *)
(* clock registers for the time they run, and the events of Flash*Freeze     *)
(* change the divisors of the bus clocks inside the interrupt.               *)
(***************************************************************************)
EXTENDS Comblk, EnvmCr

CONSTANT Services  \* the services that the main loop calls: sequences of requests

VARIABLES
  svc,
  \* main, where the main loop is: out of a call ("free"), in
  \*   signal_request_start ("spin"), in wait_for_request_completion ("wait");
  \* call, the request it makes, and todo, those that follow in the same service;
  \* busy, g_request_in_progress of this driver; got, what the handler was given;
  \* saved, the setting in g_initial_envm_cr (and g_initial_mssddr_facc2_cr, which
  \*   is saved and set with it)
  chip
  \* freeze, how far the fabric's Flash*Freeze is; clock, the one that is selected;
  \* div, whose divisors MSSDDR_FACC1_CR holds; kept, those in
  \*   g_initial_mssddr_facc1_cr; locked, whether the controller holds eNVM-1

svars == <<vars, svc, envm, chip>>

---------------------------------------------------------------------------
(* The services: what each one sends and what answer it waits for.  Those    *)
(* of execute_service send an opcode and a pointer to their parameters.      *)

Pointer(op, rsize) == [kind |-> "ptr", op |-> op, size |-> 1, data |-> 0, pages |-> 0,
                       rsize |-> rsize, handler |-> "request"]
Bytes(op, length, rsize) == [kind |-> "cmd", op |-> op, size |-> length - 1, data |-> 0,
                           pages |-> 0, rsize |-> rsize, handler |-> "request"]

DesignServices ==
  {<<Pointer(op, 6)>> : op \in {"serial_number", "user_code", "design_version",
                               "device_certificate", "secondary_certificate"}}
CryptoServices ==
  {<<Pointer(op, 6)>> : op \in {"aes128", "aes256", "sha256", "hmac"}}
KeyServices == {<<Pointer(op, 6)>> : op \in {"key_tree", "challenge_response"}}
NrbgServices ==
  {<<Pointer(op, 6)>> : op \in {"nrbg_instantiate", "nrbg_generate", "nrbg_reseed"}}
NrbgCommands == {<<Bytes("nrbg_reset", 4, 2)>>, <<Bytes("nrbg_self_test", 1, 2)>>}
Uninstantiate == {<<Bytes("nrbg_uninstantiate", 2, 3)>>}
\* The processor is reset behind it, or gets an answer that it has no room for.
Zeroize == {<<Bytes("zeroize", 1, 0)>>}

\* The controller keeps eNVM-1 locked behind those that change the PUF's codes;
\* counting the keys makes it let go.
CountKeys == Pointer("number_of_keys", 6)
Locking == {"activation_code", "enroll_key", "delete_key"}
CountsKeys == {<<CountKeys>>}
ActivationCode == {<<Pointer("activation_code", 2), CountKeys>>}
EnrollKey == {<<Pointer("enroll_key", 6), CountKeys>>}
DeleteKey == {<<Pointer("delete_key", 6), CountKeys>>}
PufServices ==
  {<<Pointer(op, 6)>> : op \in {"fetch_key", "export_keycodes", "import_keycodes",
                               "ecc_public_key"}}
PufSeed == {<<Pointer("puf_seed", 6)>>}
EccServices ==
  {<<Pointer(op, 6)>> : op \in {"point_multiplication", "point_addition"}}

\* The controller alone looks at what follows the opcode: a monitor to start or to
\* stop, the power of the PUF, a failure to clear.
TamperControl == Bytes("tamper_control", 2, 2)
ClockMonitor == {<<TamperControl>>}
PufPowerDown == {<<TamperControl>>}
ClearFailures == {<<TamperControl>>}

FlashFreeze == <<Bytes("freeze", 2, 2)>>
CheckDigest == <<Bytes("digest", 2, 2)>>
InitiateIap == {<<Bytes("iap", 6, 2)>>, CheckDigest \o <<Bytes("iap", 6, 2)>>}
\* MSS_SYS_start_isp: op is "isp" to authenticate, or "isp_program", behind the check
\* of the digest when it verifies.
StartIsp(op, pages) ==
  <<[kind |-> "paged", op |-> op, size |-> 1, data |-> 0, pages |-> pages,
     rsize |-> 2, handler |-> "isp"]>>

Programming == {"iap", "isp", "isp_program"}

\* request_completion_handler waits; isp_sys_completion_handler, which MSS_SYS_start_isp
\* alone gives, does not.  A request that programs is the last of its service; the keys are
\* counted behind one that locks eNVM-1, and only an IAP comes behind the check of the
\* digest.
ASSUME ServicesAssumption ==
  /\ \A r \in Requests : /\ r.handler \in {"request", "isp"}
                         /\ r.handler = "isp" <=> r.kind = "paged"
                         /\ r.handler = "isp" <=> r.op \in {"isp", "isp_program"}
  /\ Services \subseteq Seq(Requests) \ {<<>>}
  /\ \A s \in Services : \A i \in 1 .. Len(s) - 1 : s[i].op \notin Programming
  /\ \A s \in Services : \A i \in 1 .. Len(s) :
       s[i].op \in Locking => i < Len(s) /\ s[i + 1].op = "number_of_keys"
  /\ \A s \in Services : \A i \in 2 .. Len(s) :
       s[i].op \in {"freeze", "iap"} => s[i].op = "iap" /\ s[i - 1].op = "digest"

---------------------------------------------------------------------------
SInit ==
  /\ Init
  /\ svc = [main |-> "free", call |-> NoReq, todo |-> <<>>, busy |-> FALSE,
            got |-> "none", saved |-> "design"]
  /\ envm = "design"
  /\ chip = [freeze |-> "no", clock |-> "main", div |-> "design", kept |-> "design",
             locked |-> FALSE]

\* The first of the requests is made.  The programming services save the registers
\* and overwrite them, and MSS_SYS_flash_freeze and IAP keep the divisors, before
\* they wait for the service in progress.
Starts(requests) ==
  LET r == Head(requests)
  IN /\ svc' = [svc EXCEPT !.main = "spin", !.call = r, !.todo = Tail(requests),
                           !.saved = IF r.op \in Programming THEN envm ELSE @]
     /\ envm' = IF r.op \in Programming THEN "programming" ELSE envm
     /\ chip' = [chip EXCEPT !.kept = IF r.op \in {"freeze", "iap"} THEN chip.div ELSE @]

Call(s) ==
  /\ svc.main = "free"
  /\ \/ chip.freeze = "no" /\ chip.clock = "main"
     \/ "REFREEZE" \in Hazards \/ Head(s).op \notin {"freeze", "iap"}
  /\ Starts(s)
  /\ done' = Nobody
  /\ UNCHANGED <<drv, cpu, en, txq, rxq, sys>>

\* signal_request_start finds the flag clear, and the command is sent.
EnterUntaken == \* mutant: the flag is not taken
  /\ svc.main = "spin" /\ ~svc.busy
  /\ Send(svc.call)
  /\ svc' = [svc EXCEPT !.got = "none",
                        !.main = IF svc.call.handler = "isp" THEN "free" ELSE "wait",
                        !.call = IF svc.call.handler = "isp" THEN NoReq ELSE @]
  /\ UNCHANGED <<envm, chip>>

Enter ==
  /\ svc.main = "spin" /\ ~svc.busy
  /\ Send(svc.call)
  /\ svc' = [svc EXCEPT !.busy = TRUE, !.got = "none",
                        !.main = IF svc.call.handler = "isp" THEN "free" ELSE "wait",
                        !.call = IF svc.call.handler = "isp" THEN NoReq ELSE @]
  /\ UNCHANGED <<envm, chip>>

\* wait_for_request_completion finds the flag clear: the request that follows, or
\* the end of the service; MSS_SYS_initiate_iap restores the registers.
Return ==
  /\ svc.main = "wait" /\ ~svc.busy
  /\ IF svc.todo # <<>> THEN Starts(svc.todo)
     ELSE LET iap == svc.call.op = "iap"
          IN /\ svc' = [svc EXCEPT !.main = "free", !.call = NoReq]
             /\ envm' = IF iap THEN svc.saved ELSE envm
             /\ chip' = [chip EXCEPT !.div = IF iap THEN chip.kept ELSE @]
  /\ done' = Nobody
  /\ UNCHANGED <<drv, cpu, en, txq, rxq, sys>>

\* What the completion handler that the step calls does.
Handled ==
  CASE done'.handler = "request" ->
         svc' = [svc EXCEPT !.busy = FALSE, !.got = done'.answer] /\ UNCHANGED envm
    [] done'.handler = "isp" -> envm' = svc.saved /\ UNCHANGED svc
    [] OTHER -> UNCHANGED <<svc, envm>>

\* asynchronous_event_handler, when the step reads an event of Flash*Freeze: it
\* waits until the clock has changed over and sets the divisors.
Read(event) == Len(rxq') < Len(rxq) /\ Head(rxq).val = event

\* isp_page_read_handler, when the step fetches a page of a command that programs or
\* verifies: at the first one it waits for the standby clock and sets the divisors,
\* which isp_sys_completion_handler does not restore.
FetchesPage == drv'.pages < drv.pages /\ drv.req.op = "isp_program"

Clocked ==
  IF Read("shutdown") \/ FetchesPage
  THEN [chip EXCEPT !.clock = "standby", !.div = "unit"]
  ELSE IF Read("exit") THEN [chip EXCEPT !.clock = "main", !.div = chip.kept]
  ELSE chip

SDriver == Driver /\ Handled /\ chip' = Clocked

---------------------------------------------------------------------------
(* The controller.  It freezes the fabric for MSS_SYS_flash_freeze and while *)
(* it checks a digest, and says so before the clock changes over.            *)

Freezing == {"freeze", "digest"}

\* Not between the words of another message.
Turns(message, from, to) ==
  /\ sys.out = <<>> /\ Tells(message)
  /\ chip.freeze = from /\ chip' = [chip EXCEPT !.freeze = to]
  /\ UNCHANGED <<svc, envm>>

Freezes == sys.req.op \in Freezing /\ sys.need = 0 /\ Turns("shutdown", "no", "frozen")
Thaws   == /\ chip.clock = "standby"
           /\ Turns("exit", "frozen", IF sys.req.op \in Freezing THEN "thawed" ELSE "no")

\* A digest is answered when the fabric works again, a freeze while it is frozen.
SAnswer ==
  /\ Answer
  /\ sys.req.op = "digest" => chip.freeze = "thawed"
  /\ sys.req.op = "freeze" => chip.freeze \in {"frozen", "thawed"}
  /\ chip' = [chip EXCEPT
               !.locked = (@ \/ sys.req.op \in Locking) /\ sys.req.op # "number_of_keys",
               !.freeze = IF @ = "thawed" THEN "no" ELSE @,
               !.clock = IF sys.req.op = "isp_program" THEN "main" ELSE @]
  /\ UNCHANGED <<svc, envm>>

SController ==
  \/ (Take \/ Refuse \/ Emit \/ Notify) /\ UNCHANGED <<svc, envm, chip>>
  \/ SAnswer \/ Freezes \/ Thaws

SNext == (\E s \in Services : Call(s)) \/ Enter \/ Return \/ SDriver \/ SController

SSpec == SInit /\ [][SNext]_svars

\* The processor runs, and takes an interrupt that is enabled and pending; the
\* controller takes in, answers and sends what it has, whatever else it sends.
Fairness ==
  /\ WF_svars(Enter) /\ WF_svars(Return)
  /\ WF_svars(SDriver)
  /\ WF_svars(Take /\ UNCHANGED <<svc, envm, chip>>) /\ WF_svars(SAnswer)
  /\ SF_svars(Emit /\ UNCHANGED <<svc, envm, chip>>) /\ SF_svars(Freezes) /\ SF_svars(Thaws)

LiveSpec == SSpec /\ Fairness

---------------------------------------------------------------------------
(* Properties.                                                              *)

\* The COMM_BLK driver under the services, and the services' own state, have
\* their types.
STypeOK ==
  /\ TypeOK
  /\ svc \in [main : {"free", "spin", "wait"}, call : Requests \cup {NoReq},
              busy : BOOLEAN, got : Answers \cup {"none"},
              todo : {<<>>} \cup {Tail(s) : s \in Services},
              saved : EnvmSettings]
  /\ envm \in EnvmSettings
  /\ chip \in [freeze : {"no", "frozen", "thawed"}, clock : {"main", "standby"},
               div : {"design", "unit"}, kept : {"design", "unit"}, locked : BOOLEAN]

\* The divisors of the bus clocks are those that the selected clock needs, whatever
\* services run while the fabric is frozen (mss_sys_services.c:217-223, 255-256).
DivisorsFitClock == chip.div = "unit" <=> chip.clock = "standby"

\* When a service has returned the controller does not hold eNVM-1
\* (mss_sys_services.c:1231-1238).
EnvmReleased == svc.main = "free" => ~chip.locked

\* While no programming service is called or running, the eNVM frequency range
\* and the clocks are those of the hardware design.
RegistersRestored ==
  svc.call.op \notin Programming /\ drv.handler # "isp" => envm = "design"

\* Whoever waits for the flag to clear waits for a completion handler that the
\* COMM_BLK driver still has to call.
WaitIsServed ==
  svc.main # "free" /\ svc.busy => drv.handler # "none"

\* To its caller a service is a call that gets the status in the answer to its
\* own command, whole, and returns: what happens in the two FIFOs, in interrupts
\* and to an ISP in the background only delays it.
ABS == INSTANCE ServiceCall WITH
         Services <- Requests,
         None     <- NoReq,
         call     <- IF svc.main = "wait" THEN svc.call ELSE NoReq,
         status   <- IF svc.main = "wait" THEN svc.got ELSE "none"

ImplementsServiceCall == ABS!Spec
=============================================================================
