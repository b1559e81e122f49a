------------------------------- MODULE Comblk -------------------------------
(***************************************************************************)
(* The COMM_BLK driver (drivers/mss_sys_services/mss_comblk.c): it carries *)
(* one command at a time to the System Controller through a transmit FIFO, *)
(* reads the answer and the unsolicited messages out of a receive FIFO     *)
(* from its interrupt handler, and calls the completion handler of the     *)
(* command.                                                                *)
(*                                                                         *)
(* The System Controller and the two FIFOs are external.  A word carries   *)
(* what the driver looks at, its command mark and its value, and a tag     *)
(* that says whose it is: of the request in hand ("cur"), of an earlier    *)
(* one ("old") or of none ("event").                                       *)
(***************************************************************************)
EXTENDS Integers, Sequences, SequencesExt

CONSTANTS
  Requests, \* the commands that clients send
  Fifo,     \* words that fit in the transmit FIFO
  RxFifo,   \* words that fit in the receive FIFO
  Page,     \* bytes of a page of a paged command
  Hazards   \* what the controller and the clients may do, among:

AllHazards ==
  {"ABORT",       \* a client sends a command while another is in progress
   "CONFUSABLE",  \* ... even if words still to come can be taken for its answer
   "OVERSIZED",   \* a command does not fit in what room the FIFO has
   "DIGEST",      \* the controller reports a digest error of the power up
   "EVENT",       \* the controller sends messages of one byte
   "REFUSAL",     \* the controller refuses a paged command before its last page
   "LATE_ISR",    \* ... or answers it before the driver has seen the last page
   "DIGEST_BYTE", \* a byte of an answer has the value of the digest opcode
   "REFREEZE",    \* the fabric is frozen, or programmed, while it is frozen
   "ISP_AND_NVM"} \* the main loop writes the eNVM while an ISP runs

Kinds == {"ptr", "cmd", "paged"}
POR_DIGEST_ERROR_OPCODE == "F1"

\* The words of messages that answer no command: the digest error with its flags, a
\* message of one byte, and the two of Flash*Freeze.
Unsolicited == {POR_DIGEST_ERROR_OPCODE, "flags", "event", "shutdown", "exit"}

ASSUME ComblkAssumption ==
  /\ \A r \in Requests :
       /\ r.kind \in Kinds /\ {r.size, r.data, r.pages} \subseteq Nat
       /\ r.rsize \in Nat \ {1}
       /\ r.handler # "none" /\ r.op \notin Unsolicited \cup {"byte", "none"}
       /\ r.kind = "ptr" => r.size = 1
       /\ r.kind # "cmd" => r.data = 0
       /\ r.kind # "paged" => r.pages = 0
  /\ {Fifo, RxFifo, Page} \subseteq Nat \ {0}
  /\ Hazards \subseteq AllHazards

VARIABLES
  drv,  \* the driver's globals: state; req, the command it was given (opcode,
        \* sizes); cmd, data, pages, what is left of it to send; rx, the bytes
        \* in the response buffer; handler; prog, g_request_in_progress
  cpu,  \* where the code is: in none of it ("idle"), or in a loop that waits
        \* on the transmit FIFO, or between the two halves of the handler ("tx")
  en,   \* the interrupts COMBLK->INT_ENABLE lets through
  txq,  \* the transmit FIFO
  rxq,  \* the receive FIFO
  sys,  \* the controller: the command it takes in, the words it still needs of
        \* it, the words of its messages that have not left yet
  done  \* history: the completion handler the last step called, and with what

vars == <<drv, cpu, en, txq, rxq, sys, done>>

States  == {"IDLE", "TX_CMD", "TX_DATA", "WAIT_RESPONSE", "RX_RESPONSE", "TX_PAGED_DATA"}
Answers == {"own", "foreign", "short", "aborted"}
Nobody  == [handler |-> "none", answer |-> "none"]
NoReq   == [kind |-> "none", op |-> "none", size |-> 0, data |-> 0, pages |-> 0,
            rsize |-> 0, handler |-> "none"]

Room == Len(txq) < Fifo

---------------------------------------------------------------------------
(* MSS_COMBLK_init.  The digest error of the power up, if any, was sent     *)
(* before the processor runs.                                               *)

Event(value, cmd) == [cmd |-> cmd, val |-> value, tag |-> "event", n |-> 0]
DigestError == <<Event(POR_DIGEST_ERROR_OPCODE, TRUE), Event("flags", FALSE)>>

Init ==
  /\ drv = [state |-> "IDLE", req |-> NoReq, cmd |-> 0, data |-> 0, pages |-> 0,
            rx |-> <<>>, handler |-> "none", prog |-> FALSE]
  /\ cpu = "idle"
  /\ en = {"RX"}
  /\ txq = <<>>
  /\ rxq = <<>>
  /\ sys \in [req : {NoReq}, tag : {"old"}, need : {0},
              out : {<<>>} \cup (IF "DIGEST" \in Hazards THEN {DigestError} ELSE {})]
  /\ done = Nobody

---------------------------------------------------------------------------
(* complete_request, given the driver's record d after the rest of the      *)
(* step: the handler is called and forgotten.                               *)

Completed(d) == [d EXCEPT !.handler = "none",
                          !.prog = IF d.handler # "none" THEN FALSE ELSE @]

Called(answer) ==
  IF drv.handler = "none" THEN Nobody ELSE [handler |-> drv.handler, answer |-> answer]

\* What the bytes handed to the handler are worth to it.
Worth(bytes) ==
  IF Len(bytes) < drv.req.rsize THEN "short"
  ELSE IF \A i \in 1..Len(bytes) : bytes[i].tag = "cur" /\ bytes[i].n = i THEN "own"
  ELSE "foreign"

---------------------------------------------------------------------------
(* MSS_COMBLK_send_cmd_with_ptr, MSS_COMBLK_send_cmd and                    *)
(* MSS_COMBLK_send_paged_cmd: mask the interrupt, abort the command in      *)
(* progress, which flushes the transmit FIFO, and set the globals.  The     *)
(* words follow, one step each, as the FIFO has room.                       *)

Aged(words)  == [i \in DOMAIN words |->
                   IF words[i].tag = "cur" THEN [words[i] EXCEPT !.tag = "old"] ELSE words[i]]
Unflushed    == IF drv.prog THEN <<>> ELSE txq

\* Opcodes whose answer is on its way or may yet be sent.
Owed == {w.val : w \in Range(rxq) \cup Range(sys.out)} \cup {sys.req.op}
          \cup {Unflushed[i].req.op : i \in DOMAIN Unflushed}

Distinguishable(r) ==
  /\ r.op \notin Owed
  /\ r.kind = "paged" => Owed \subseteq {"none"}

Allowed(r) ==
  /\ "ABORT" \in Hazards \/ ~drv.prog
  /\ "CONFUSABLE" \in Hazards \/ Distinguishable(r)
  /\ "OVERSIZED" \in Hazards \/ Len(Unflushed) + 1 + r.size + r.data <= Fifo

Send(r) ==
  /\ cpu = "idle"
  /\ Allowed(r)
  /\ done' = IF drv.prog THEN Called("aborted") ELSE Nobody
  /\ txq' = Aged(Unflushed)
  /\ rxq' = Aged(rxq)
  /\ sys' = [sys EXCEPT !.tag = "old", !.out = Aged(@)]
  /\ drv' = [drv EXCEPT !.req = r, !.cmd = r.size, !.data = r.data, !.pages = r.pages,
                        !.rx = <<>>, !.handler = r.handler, !.prog = TRUE]
  /\ en' = {}
  /\ cpu' = "opcode"

\* send_cmd_opcode: the busy wait for room, then the word that starts a frame.
SendOpcode ==
  /\ cpu = "opcode" /\ Room
  /\ txq' = Append(txq, [req |-> drv.req, tag |-> "cur", first |-> TRUE])
  /\ cpu' = IF drv.req.kind = "ptr" THEN "pointer" ELSE "command"
  /\ done' = Nobody
  /\ UNCHANGED <<drv, en, rxq, sys>>

Word == [req |-> NoReq, tag |-> "cur", first |-> FALSE]

SendPointerStateless == \* mutant: g_comblk_state is not set
  /\ cpu = "pointer" /\ Room
  /\ txq' = Append(txq, Word)
  /\ drv' = [drv EXCEPT !.cmd = 0]
  /\ en' = {"RX"}
  /\ cpu' = "idle"
  /\ done' = Nobody
  /\ UNCHANGED <<rxq, sys>>

SendPointer ==
  /\ cpu = "pointer" /\ Room
  /\ txq' = Append(txq, Word)
  /\ drv' = [drv EXCEPT !.cmd = 0, !.state = "WAIT_RESPONSE"]
  /\ en' = {"RX"}
  /\ cpu' = "idle"
  /\ done' = Nobody
  /\ UNCHANGED <<rxq, sys>>

\* fill_tx_fifo: what is left of the command or of the data or page goes out
\* until the FIFO is full; the controller may be emptying it meanwhile.
Filling == IF cpu \in {"command", "isr_command"} THEN "cmd" ELSE "data"

FillWord ==
  /\ cpu \in {"command", "isr_command", "isr_data"} /\ Room
  /\ drv[Filling] > 0
  /\ txq' = Append(txq, Word)
  /\ drv' = [drv EXCEPT ![Filling] = @ - 1]
  /\ done' = Nobody
  /\ UNCHANGED <<cpu, en, rxq, sys>>

\* The state after the last byte of the command: the data, or the answer.
AfterCommand == IF drv.data > 0 THEN "TX_DATA" ELSE "WAIT_RESPONSE"

\* The ends of MSS_COMBLK_send_cmd and MSS_COMBLK_send_paged_cmd.
CommandFilled ==
  /\ cpu = "command" /\ (drv.cmd = 0 \/ ~Room)
  /\ \/ /\ drv.req.kind = "cmd"
        /\ drv' = [drv EXCEPT !.state = IF drv.cmd > 0 THEN "TX_CMD" ELSE AfterCommand]
        /\ en' = {"RX"}
     \/ /\ drv.req.kind = "paged"
        /\ drv' = [drv EXCEPT !.state = IF drv.cmd > 0 THEN "TX_CMD" ELSE "TX_PAGED_DATA"]
        /\ en' = {"RX", "TX"}
  /\ cpu' = "idle"
  /\ done' = Nobody
  /\ UNCHANGED <<txq, rxq, sys>>

---------------------------------------------------------------------------
(* ComBlk_IRQHandler, first half: handle_rx_okay_irq reads one word.  The   *)
(* status was read once, so the second half runs if there was room then.    *)

RxPending == "RX" \in en /\ rxq # <<>>

Receive(state) ==
  /\ cpu = "idle" /\ RxPending
  /\ drv.state \in state
  /\ rxq' = Tail(rxq)
  /\ cpu' = IF "TX" \in en /\ Room THEN "tx" ELSE "idle"
  /\ UNCHANGED <<en, txq, sys>>

\* Keeps the first word of a digest error, passes another message on.
RxIdle ==
  /\ Receive({"IDLE"})
  /\ LET w == Head(rxq)
     IN drv' = IF w.cmd /\ w.val = POR_DIGEST_ERROR_OPCODE
               THEN [drv EXCEPT !.rx = <<w>>, !.state = "RX_RESPONSE"] ELSE drv
  /\ done' = Nobody

\* The answer starts with the opcode of the command; the rest is passed on
\* or dropped.
StartsAnswerAny(w) == w.cmd \* mutant: the opcode is not compared
StartsAnswer(w) == w.cmd /\ w.val = drv.req.op

RxWaitResponse ==
  /\ Receive({"WAIT_RESPONSE"})
  /\ drv' = IF StartsAnswer(Head(rxq))
            THEN [drv EXCEPT !.rx = <<Head(rxq)>>, !.state = "RX_RESPONSE"] ELSE drv
  /\ done' = Nobody

EndsDigestError == Last(drv.rx).val = POR_DIGEST_ERROR_OPCODE

Grown(w) == IF Len(drv.rx) < drv.req.rsize THEN Append(drv.rx, w) ELSE drv.rx

RxResponse ==
  /\ Receive({"RX_RESPONSE"})
  /\ LET w == Head(rxq)
     IN \/ /\ w.cmd
           /\ drv' = drv /\ done' = Nobody
        \/ /\ ~w.cmd /\ EndsDigestError
           /\ drv' = [drv EXCEPT !.state = "IDLE"] /\ done' = Nobody
        \/ /\ ~w.cmd /\ ~EndsDigestError
           /\ IF Len(Grown(w)) = drv.req.rsize
              THEN /\ drv' = Completed([drv EXCEPT !.rx = Grown(w), !.state = "IDLE"])
                   /\ done' = Called(Worth(Grown(w)))
              ELSE /\ drv' = [drv EXCEPT !.rx = Grown(w)]
                   /\ done' = Nobody

\* A data byte ends a paged command early: it becomes the status at index 1.
RxPaged ==
  /\ Receive({"TX_PAGED_DATA"})
  /\ IF Head(rxq).cmd
     THEN drv' = drv /\ done' = Nobody
     ELSE /\ drv' = Completed([drv EXCEPT !.state = "IDLE"])
          /\ done' = Called(IF Head(rxq).tag = "cur" THEN "own" ELSE "foreign")

\* Messages are passed on, other bytes dropped.
RxSending ==
  /\ Receive({"TX_CMD", "TX_DATA"})
  /\ drv' = drv
  /\ done' = Nobody

---------------------------------------------------------------------------
(* ComBlk_IRQHandler, second half: handle_tx_okay_irq.  The TX interrupt is *)
(* enabled for paged commands only, so the state TX_DATA never gets here.   *)

Transmit(state) ==
  /\ \/ cpu = "tx"
     \/ cpu = "idle" /\ "TX" \in en /\ Room /\ ~RxPending
  /\ drv.state \in state
  /\ UNCHANGED <<txq, rxq, sys>>

TxCommand ==
  /\ Transmit({"TX_CMD"})
  /\ cpu' = "isr_command"
  /\ done' = Nobody
  /\ UNCHANGED <<drv, en>>

IsrCommandFilled ==
  /\ cpu = "isr_command" /\ (drv.cmd = 0 \/ ~Room)
  /\ drv' = [drv EXCEPT !.state = IF drv.cmd > 0 THEN @ ELSE AfterCommand]
  /\ cpu' = "idle"
  /\ done' = Nobody
  /\ UNCHANGED <<en, txq, rxq, sys>>

\* A page is fetched when the last one is out; none left ends the command.
TxPaged ==
  /\ Transmit({"TX_PAGED_DATA"})
  /\ IF drv.data = 0 /\ drv.pages = 0
     THEN /\ en' = en \ {"TX"}
          /\ drv' = [drv EXCEPT !.state = "WAIT_RESPONSE"]
          /\ cpu' = "idle"
     ELSE /\ en' = en
          /\ drv' = IF drv.data > 0 THEN drv
                    ELSE [drv EXCEPT !.data = Page, !.pages = @ - 1]
          /\ cpu' = "isr_data"
  /\ done' = Nobody

IsrDataFilled ==
  /\ cpu = "isr_data" /\ (drv.data = 0 \/ ~Room)
  /\ cpu' = "idle"
  /\ done' = Nobody
  /\ UNCHANGED <<drv, en, txq, rxq, sys>>

\* The default case: the command is completed with an empty answer.
TxUnexpected ==
  /\ Transmit({"IDLE", "WAIT_RESPONSE", "RX_RESPONSE"})
  /\ en' = en \ {"TX"}
  /\ drv' = Completed([drv EXCEPT !.state = "IDLE"])
  /\ done' = Called("short")
  /\ cpu' = "idle"

Driver ==
  \/ SendOpcode \/ SendPointer \/ FillWord \/ CommandFilled
  \/ RxIdle \/ RxWaitResponse \/ RxResponse \/ RxPaged \/ RxSending
  \/ TxCommand \/ IsrCommandFilled \/ TxPaged \/ IsrDataFilled \/ TxUnexpected

---------------------------------------------------------------------------
(* The System Controller.                                                   *)

\* It takes a word in; one that starts a frame puts an end to the last frame,
\* and one of no frame is dropped.
Take ==
  /\ txq # <<>> /\ sys.out = <<>>
  /\ ~(sys.req # NoReq /\ sys.need = 0)
  /\ LET w == Head(txq)
     IN sys' = IF w.first
               THEN [sys EXCEPT !.req = w.req, !.tag = w.tag,
                                !.need = w.req.size + w.req.data + w.req.pages * Page]
               ELSE IF sys.req # NoReq THEN [sys EXCEPT !.need = @ - 1] ELSE sys
  /\ txq' = Tail(txq)
  /\ done' = Nobody
  /\ UNCHANGED <<drv, cpu, en, rxq>>

\* Of at least two bytes: the opcode and a status.
Message(length, digest) ==
  [i \in 1..(IF length = 0 THEN 2 ELSE length) |->
     [cmd |-> i = 1, tag |-> sys.tag, n |-> i,
      val |-> IF i = 1 THEN sys.req.op
              ELSE IF i = digest THEN POR_DIGEST_ERROR_OPCODE ELSE "byte"]]

\* It has the whole command and answers it.
Answer ==
  /\ sys.req # NoReq /\ sys.need = 0
  /\ \/ "LATE_ISR" \in Hazards
     \/ sys.req.kind = "paged" /\ sys.tag = "cur" => drv.state = "WAIT_RESPONSE"
  /\ \E digest \in {0} \cup (IF "DIGEST_BYTE" \in Hazards THEN 2..sys.req.rsize ELSE {}) :
       sys' = [sys EXCEPT !.out = @ \o Message(sys.req.rsize, digest), !.req = NoReq]
  /\ done' = Nobody
  /\ UNCHANGED <<drv, cpu, en, txq, rxq>>

\* It has the command, not all its pages, and answers already.
Refuse ==
  /\ "REFUSAL" \in Hazards
  /\ sys.req.kind = "paged" /\ sys.need \in 1..(sys.req.pages * Page)
  /\ sys' = [sys EXCEPT !.out = @ \o Message(2, 0), !.req = NoReq]
  /\ done' = Nobody
  /\ UNCHANGED <<drv, cpu, en, txq, rxq>>

Emit ==
  /\ sys.out # <<>> /\ Len(rxq) < RxFifo
  /\ rxq' = Append(rxq, Head(sys.out))
  /\ sys' = [sys EXCEPT !.out = Tail(@)]
  /\ done' = Nobody
  /\ UNCHANGED <<drv, cpu, en, txq>>

Tells(message) ==
  /\ Len(rxq) < RxFifo
  /\ rxq' = Append(rxq, Event(message, TRUE))
  /\ done' = Nobody
  /\ UNCHANGED <<drv, cpu, en, txq, sys>>

Notify == "EVENT" \in Hazards /\ Tells("event")

Controller == Take \/ Answer \/ Refuse \/ Emit

Next == (\E r \in Requests : Send(r)) \/ Driver \/ Controller \/ Notify

Spec == Init /\ [][Next]_vars

---------------------------------------------------------------------------
(* Properties.                                                              *)

TxWords == [req : Requests \cup {NoReq}, tag : {"cur", "old"}, first : BOOLEAN]
RxWords == [cmd : BOOLEAN, tag : {"cur", "old", "event"}, n : Nat,
            val : {r.op : r \in Requests} \cup Unsolicited \cup {"byte"}]

Globals == [state : States, req : Requests \cup {NoReq}, cmd : Nat, data : Nat,
            pages : Nat, rx : Seq(RxWords),
            handler : {r.handler : r \in Requests} \cup {"none"}, prog : BOOLEAN]
Peer    == [req : Requests \cup {NoReq}, tag : {"cur", "old"}, need : Nat,
            out : Seq(RxWords)]

\* Every variable has its type; the response buffer never holds more bytes than
\* the client gave room for (or the one of the opcode, which is stored without
\* looking), and the FIFOs no more words than they can.
TypeOK ==
  /\ drv \in Globals
  /\ drv.prog => Len(drv.rx) <= drv.req.rsize \/ Len(drv.rx) = 1
  /\ cpu \in {"idle", "opcode", "pointer", "command", "isr_command", "isr_data", "tx"}
  /\ en \subseteq {"RX", "TX"}
  /\ txq \in Seq(TxWords) /\ Len(txq) <= Fifo
  /\ rxq \in Seq(RxWords) /\ Len(rxq) <= RxFifo
  /\ sys \in Peer
  /\ done \in [handler : {r.handler : r \in Requests} \cup {"none"},
               answer : Answers \cup {"none"}]

\* A completion handler that is told of an answer of full length finds in the
\* buffer, in order, the bytes of the answer to its own command: never those of
\* a command aborted before it, nor those of a message nobody asked for.
AnswerIsOwn == done.answer # "foreign"

\* Once a command has been sent the driver does not go back to the idle state,
\* in which an answer is not recognised, before it has called the handler.
NotStranded == drv.handler # "none" /\ cpu = "idle" => drv.state # "IDLE"

\* When the handler gets its own answer nothing of that answer is left behind,
\* in the receive FIFO or in the controller, for the next command to meet.
NothingLeftBehind ==
  done.answer = "own" =>
    /\ \A w \in Range(rxq) \cup Range(sys.out) : w.tag # "cur"
    /\ ~(sys.req # NoReq /\ sys.tag = "cur")

\* A command is neither forgotten before its end nor remembered behind it.
EndsWhole == NotStranded /\ NothingLeftBehind
=============================================================================
