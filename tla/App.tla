-------------------------------- MODULE App --------------------------------
(***************************************************************************)
(* The application: the loop of main.c, the delay of msdelay.c with its     *)
(* timer interrupt, the set-up of the image sensor (ar0330.c), and the       *)
(* commands that the host sends to the HID class, which USB_PCKHandler       *)
(* executes inside the USB interrupt.  All interrupts have one priority: the *)
(* USB interrupt stops the loop and holds the timer's interrupt back, for    *)
(* seconds when it configures the audio chip.                                *)
(***************************************************************************)
EXTENDS Board, Camera

CONSTANTS
  None,
  Commands, \* the packets of the host: op, the first byte, val, what follows it, and words,
            \*   what the packet carries from its eighth byte on
  Addrs,    \* the words of memory that bulk commands reach, 0..n
  Words,    \* the words of g_rx_data from its eighth byte on, (1024 - 7) \div 4
  ReplyWords, \* the words of g_tx_data, 1024 \div 4
  MaxCmds,  \* bound: commands the host sends
  Env       \* what the environment does besides: see EnvKinds

\* "stream": the host does not wait for the end of a bulk write, which has no reply;
\* "loopback": the audio loop-back may fail to start; "pins": a demo selection may come
\* between the halves of a change of GPIO_OUT; "early": the host sends before main has
\* reached its loop; "nack": the camera may fail to acknowledge a write.
EnvKinds == {"stream", "loopback", "pins", "early", "nack"}

\* The words that a bulk read takes: i <= No_of_Bytes, in steps of four.
WordsRead(c) == c.val.bytes \div 4 + 1

\* No read is longer than g_tx_data, which the code does not test.
ASSUME AppAssumption ==
  /\ Addrs \subseteq Nat /\ 0 \in Addrs /\ MaxCmds \in Nat /\ Env \subseteq EnvKinds
  /\ {Words, ReplyWords} \subseteq Nat
  /\ \A c \in Commands : /\ c.op \in 0..14 /\ DOMAIN c.words \subseteq 1..Words
                         /\ c.op = 1 => WordsRead(c) <= ReplyWords
  /\ None \notin Commands

VARIABLES
  main,   \* at, the step of Program; delay, where it is in msdelay; seen, the GPIO_OUT
          \*   it has read; mode, the argument of the set-up
  change, \* mode_change and mode_val
  board,  \* the memory controller (see Board); i2c, the controllers set up; hdmi and
          \*   tables, whether the transmitter and the tables of the fabric are
  gpio,   \* the pins; see Board
  timer,  \* Timer 1 (see Board) with done, timerdone
  camera, \* what the camera was told; see Camera
  fabric, \* the registers that commands set
  ram,    \* the memory that bulk commands reach; ptr, DMA_Address_ptr
  audio,  \* done, audio_config_done; runs, whether the loop-back was started
  hid,    \* in, whether the USB interrupt executes; ready, g_rx_complete_status;
          \*   rx and data, the head of g_rx_data and its words from the eighth byte
          \*   on; tx, the head of g_tx_data
  wire,   \* out, the packet in the OUT endpoint; dma, a reply that the DMA has to
          \*   copy; reply, the packet in the IN endpoint
  host    \* up, the device is there; asked, the command that waits for a reply, and
          \*   got, the last reply; mem, the memory as it wrote it, None where it cannot
          \*   know it, and set, the settings that were acknowledged; sent, a count

Usb == <<fabric, ram, audio, hid, wire, host>>
appVars == <<main, change, board, gpio, timer, camera, Usb>>

Modes == 0..5
Zeros == <<0>>
ZeroWord == "0"
Registers == {"gain", "hue", "sharpness", "loopback", "logo", "alpha", "run"}
Settings == Registers \cup {"mux"}

---------------------------------------------------------------------------
(* main, as a sequence of steps: what is done, and to what.                  *)

S(do, to) == [do |-> do, to |-> to]
Wait == S("wait", None)

SetUpColorFirst == \* mutant: the trims, which write two of the colours, come after the mode
  <<S("low", "camera"), Wait, S("high", "camera"), S("i2c", 0), Wait, S("tell", "pll"),
    Wait, S("tell", "color"), Wait, S("tell", "sequencer"), S("tell", "window"),
    S("tell", "patch"), S("tell", "flips"), Wait, S("tell", "patch"), Wait,
    S("tell", "stream")>>

\* parallel_ar0330_1080_720_30fps.
SetUp ==
  <<S("low", "camera"), Wait, S("high", "camera"), S("i2c", 0), Wait, S("tell", "pll"),
    Wait, Wait, S("tell", "sequencer"), S("tell", "color"), S("tell", "window"),
    S("tell", "patch"), S("tell", "flips"), Wait, S("tell", "patch"), Wait,
    S("tell", "stream")>>

\* sensor_clock_override.
Override == <<S("drive_high", "clock"), Wait, S("drive_low", "clock"), Wait>>

\* SystemInit, and main up to the first set-up.
StartUp ==
  <<S("workarounds", None), S("ddr", None), S("settle", None), S("timer", None),
    S("gpio", None), S("config", "camera"), S("config", "clock")>>

\* HDMI_tx_init, sincos_mem_init and MOUSE_init, which starts the USB device, and the
\* values that main leaves in the fabric.
BringUp ==
  <<Wait, S("i2c", 1), Wait, S("hdmi", None), Wait, S("tables", None), S("config", "usb"),
    S("low", "usb"), S("usb", None), S("config", "mux"), S("defaults", None)>>

\* The loop: its test, the set-up again, and the sensor's clock held and let go.
FirstSetUp == StartUp \o SetUp
Boot == FirstSetUp \o BringUp
Program == Boot \o <<S("test", None)>> \o SetUp \o Override
Test == Len(Boot) + 1
Overrides == Test + Len(SetUp) + 1
Step == Program[main.at]

Follow(at) == IF at = Len(Program) THEN Test ELSE at + 1
Goes == main' = [main EXCEPT !.at = Follow(@), !.delay = "no", !.seen = None]

AppInit ==
  /\ main = [at |-> 1, delay |-> "no", seen |-> None, mode |-> 0]
  /\ change = [mode_change |-> FALSE, mode_val |-> 0]
  /\ \E revision \in Revisions, remapped \in BOOLEAN :
       board = [mem |-> OutOfReset(revision, remapped), i2c |-> {}, hdmi |-> FALSE,
                tables |-> FALSE]
  /\ gpio = GpioInit
  /\ timer = [done |-> FALSE, tim1 |-> Tim1Init]
  /\ camera = Blank
  /\ fabric = [r \in Registers |-> None]
  /\ ram = [mem |-> [a \in Addrs |-> None], ptr |-> 0]
  /\ audio = [done |-> FALSE, runs |-> FALSE]
  /\ hid = [in |-> FALSE, ready |-> TRUE, rx |-> None, tx |-> Zeros,
            data |-> [i \in 1..Words |-> ZeroWord]]
  /\ wire = [out |-> None, dma |-> FALSE, reply |-> None]
  /\ host = [up |-> FALSE, asked |-> None, got |-> None, sent |-> 0,
              mem |-> [a \in Addrs |-> None], set |-> [r \in Settings |-> None]]

---------------------------------------------------------------------------
(* msdelay and Timer1_IRQHandler.                                            *)

Thread == ~hid.in

Delays == Thread /\ Step.do = "wait"

DelayClears ==
  /\ Delays /\ main.delay = "no"
  /\ timer' = [timer EXCEPT !.done = FALSE]
  /\ main' = [main EXCEPT !.delay = "cleared"]
  /\ UNCHANGED <<change, board, gpio, camera, Usb>>

\* The timer is left enabled by the delay before, and counts as soon as it is loaded.
DelayLoads ==
  /\ Delays /\ main.delay = "cleared"
  /\ timer' = [timer EXCEPT !.tim1 = Tim1LoadImmediate(@)]
  /\ main' = [main EXCEPT !.delay = "loaded"]
  /\ UNCHANGED <<change, board, gpio, camera, Usb>>

DelayStarts ==
  /\ Delays /\ main.delay = "loaded"
  /\ timer' = [timer EXCEPT !.tim1 = Tim1Start(Tim1EnableIrq(@))]
  /\ main' = [main EXCEPT !.delay = "started"]
  /\ UNCHANGED <<change, board, gpio, camera, Usb>>

DelayEnds ==
  /\ Delays /\ main.delay = "started" /\ timer.done
  /\ timer' = [timer EXCEPT !.tim1 = Tim1DisableIrq(@)]
  /\ Goes
  /\ UNCHANGED <<change, board, gpio, camera, Usb>>

Expires ==
  /\ Tim1Runs(timer.tim1)
  /\ timer' = [timer EXCEPT !.tim1 = Tim1Expired(@)]
  /\ UNCHANGED <<main, change, board, gpio, camera, Usb>>

Timer1_IRQHandler ==
  /\ Thread /\ Tim1Irq(timer.tim1)
  /\ timer' = [done |-> TRUE, tim1 |-> Tim1ClearIrq(timer.tim1)]
  /\ UNCHANGED <<main, change, board, gpio, camera, Usb>>

---------------------------------------------------------------------------
(* The steps of main.                                                       *)

\* The start-up code.  The memory is awaited by polling.
Starts ==
  /\ Thread
  /\ \/ Step.do = "workarounds" /\ board' = [board EXCEPT !.mem = SiliconWorkarounds(@)]
     \/ Step.do = "ddr" /\ board' = [board EXCEPT !.mem = ConfigDdr(@)]
     \/ Step.do = "settle" /\ DdrIsReady(board.mem) /\ UNCHANGED board
  /\ Goes
  /\ UNCHANGED <<change, gpio, timer, camera, Usb>>

DdrGetsReady ==
  /\ DdrStarts(board.mem)
  /\ board' = [board EXCEPT !.mem.ddr = "ready"]
  /\ UNCHANGED <<main, change, gpio, timer, camera, Usb>>

\* msdelay_init, MSS_GPIO_init and MSS_GPIO_config.
Configures ==
  /\ Thread /\ Step.do \in {"timer", "gpio", "config"}
  /\ timer' = IF Step.do = "timer" THEN [timer EXCEPT !.tim1 = Tim1Init] ELSE timer
  /\ gpio' = CASE Step.do = "gpio" -> GpioInit
               [] Step.do = "config" -> GpioConfig(gpio, Step.to)
               [] OTHER -> gpio
  /\ Goes
  /\ UNCHANGED <<change, board, camera, Usb>>

\* A pin is changed in two halves, which an interrupt may come between.
ChangesPin == Thread /\ Step.do \in {"low", "high", "drive_low", "drive_high"}

PinSeen ==
  /\ ChangesPin /\ main.seen = None
  /\ main' = [main EXCEPT !.seen = gpio.out]
  /\ UNCHANGED <<change, board, gpio, timer, camera, Usb>>

\* The camera forgets everything when it is reset.
PinWritten ==
  /\ ChangesPin /\ main.seen # None
  /\ LET value == IF Step.do \in {"high", "drive_high"} THEN 1 ELSE 0
     IN gpio' = IF Step.do \in {"low", "high"}
                THEN OutputSet(gpio, main.seen, Step.to, value)
                ELSE InoutDriven(gpio, main.seen, Step.to, value)
  /\ camera' = IF Level(gpio', "camera") = 0 THEN Blank ELSE camera
  /\ Goes
  /\ UNCHANGED <<change, board, timer, Usb>>

\* What the camera is told, over I2C, of which the writes after one that it does not
\* acknowledge are still made.
Writes(what) ==
  CASE what = "pll" -> PllSettings [] what = "sequencer" -> V5Sequencer
    [] what = "color" -> ColorMode(main.mode) [] what = "window" -> Window
    [] what = "patch" -> SequencerShortened [] what = "stream" -> <<<<"stream", TRUE>>>>
Without(writes, i) == SubSeq(writes, 1, i - 1) \o SubSeq(writes, i + 1, Len(writes))

\* A camera that is held in reset takes nothing; without MSS_I2C_init the driver waits
\* for ever.
Talks == Thread /\ Step.do = "tell" /\ 0 \in board.i2c
Heard(writes) ==
  IF Level(gpio, "camera") # 1 THEN {camera}
  ELSE {Takes(camera, writes)} \cup
       (IF "nack" \in Env THEN {Takes(camera, Without(writes, i)) : i \in 1..Len(writes)}
        ELSE {})

TellsClearingLate == \* mutant: mode_change is cleared when the set-up is over
  /\ Talks
  /\ IF Step.to = "flips" THEN camera' = WithFlips(camera)
     ELSE camera' \in Heard(Writes(Step.to))
  /\ change' = [change EXCEPT !.mode_change = @ /\ Step.to # "stream"]
  /\ Goes
  /\ UNCHANGED <<board, gpio, timer, Usb>>

Tells ==
  /\ Talks
  /\ IF Step.to = "flips" THEN camera' = WithFlips(camera)
     ELSE camera' \in Heard(Writes(Step.to))
  /\ Goes
  /\ UNCHANGED <<change, board, gpio, timer, Usb>>

I2cInit ==
  /\ Thread /\ Step.do = "i2c"
  /\ board' = [board EXCEPT !.i2c = @ \cup {Step.to}]
  /\ Goes
  /\ UNCHANGED <<change, gpio, timer, camera, Usb>>

\* HDMI_tx_init, behind its MSS_I2C_init and its delay: the multiplexer of the bus is set
\* and every register of the transmitter is written and read back.
HdmiWritten ==
  /\ Thread /\ Step.do = "hdmi" /\ 1 \in board.i2c
  /\ board' = [board EXCEPT !.hdmi = TRUE]
  /\ Goes
  /\ UNCHANGED <<change, gpio, timer, camera, Usb>>

SincosMemInit ==
  /\ Thread /\ Step.do = "tables"
  /\ board' = [board EXCEPT !.tables = TRUE]
  /\ Goes
  /\ UNCHANGED <<change, gpio, timer, camera, Usb>>

\* MOUSE_init starts the USB device, whose transceiver must be out of reset.
UsbStarts ==
  /\ Thread /\ Step.do = "usb"
  /\ host' = [host EXCEPT !.up = Level(gpio, "usb") = 0]
  /\ Goes
  /\ UNCHANGED <<change, board, gpio, timer, camera, fabric, ram, audio, hid, wire>>

Defaults ==
  /\ Thread /\ Step.do = "defaults"
  /\ fabric' = [r \in Registers |-> IF r \in {"logo", "alpha", "gain", "hue", "sharpness"}
                                 THEN 0 ELSE fabric[r]]
  /\ ram' = [ram EXCEPT !.ptr = 0]
  /\ Goes
  /\ UNCHANGED <<change, board, gpio, timer, camera, audio, hid, wire, host>>

\* while (1): the mode is taken, or the clock is held again.
LoopTest ==
  /\ Thread /\ Step.do = "test"
  /\ main' = IF change.mode_change
              THEN [main EXCEPT !.at = Test + 1, !.mode = change.mode_val]
              ELSE [main EXCEPT !.at = Overrides]
  /\ change' = [change EXCEPT !.mode_change = FALSE]
  /\ UNCHANGED <<board, gpio, timer, camera, Usb>>

---------------------------------------------------------------------------
(* USB_PCKHandler.  Each command is [ram, fabric, gpio, audio, change, tx,      *)
(* replies, ready]: what it leaves, whether it replies, and g_rx_complete_status.       *)

Now == [ram |-> ram, fabric |-> fabric, gpio |-> gpio, audio |-> audio, change |-> change,
        tx |-> hid.tx, replies |-> TRUE, ready |-> TRUE]

\* The memory with words written from an address on.
Filled(mem, addr, words) ==
  [a \in Addrs |-> IF a - addr + 1 \in DOMAIN words THEN words[a - addr + 1] ELSE mem[a]]

\* Bulk write (0): every word of g_rx_data behind the head goes to the memory, whatever
\* the packet carries: behind its words, what earlier packets left there.  No reply.
BulkWrite(c) ==
  [Now EXCEPT !.ram = [mem |-> Filled(@.mem, c.val.addr, hid.data),
                       ptr |-> c.val.addr + Words],
              !.replies = FALSE]

\* Bulk read (1).
Fetched(addr, n) ==
  [i \in 1..n |-> IF addr + i - 1 \in Addrs THEN ram.mem[addr + i - 1] ELSE None]

BulkReadOn(c) == \* mutant: the address of the command is not taken
  [Now EXCEPT !.ram.ptr = @ + WordsRead(c), !.tx = <<"memory", Fetched(ram.ptr, WordsRead(c))>>]

BulkRead(c) ==
  [Now EXCEPT !.ram.ptr = c.val.addr + WordsRead(c),
              !.tx = <<"memory", Fetched(c.val.addr, WordsRead(c))>>]

\* Brightness and contrast (2), saturation and hue (3), sharpness (4): a register, and
\* zeros as the reply.
Setting(register, c) == [Now EXCEPT !.fabric[register] = c.val, !.tx = Zeros]

\* The image (12), its alpha (13) and its movement (14).
ImageSetting(register, c) == Setting(register, c)

DemoSelectionStaysBusy(c) == \* mutant: g_rx_complete_status is not set again
  [Now EXCEPT !.gpio = OutputSet(@, @.out, "mux", IF c.val = 1 THEN 1 ELSE 0), !.ready = FALSE]

\* Demo selection (5) and audio start and stop (7): the reply is what g_tx_data held.
DemoSelection(c) ==
  [Now EXCEPT !.gpio = OutputSet(@, @.out, "mux", IF c.val = 1 THEN 1 ELSE 0)]
AudioLoop(c) ==
  [Now EXCEPT !.fabric["loopback"] = CASE c.val = 1 -> TRUE [] c.val = 2 -> FALSE [] OTHER -> @]

\* Camera test mode (6).
TestMode(c) == [Now EXCEPT !.change = [mode_change |-> TRUE, mode_val |-> c.val]]

\* Configure audio (8): TW_Audio_Init succeeds, or has been called before, or fails.
ConfigureAudio ==
  {Now} \cup
  {[Now EXCEPT !.audio = [done |-> TRUE, runs |-> @.runs \/ starts]] :
     starts \in {TRUE} \cup (IF "loopback" \in Env THEN {FALSE} ELSE {})}

\* Connect (9), the state of the audio (10), the version of the fabric (11), which
\* writes the sharpness as well.
Connect == [Now EXCEPT !.tx = <<9, 10>>]
AudioState == [Now EXCEPT !.tx = <<10, audio.done>>]
Version(c) == [Now EXCEPT !.fabric["sharpness"] = c.val, !.tx = <<11>>]

Executed(c) ==
  CASE c.op = 0 -> {BulkWrite(c)}
    [] c.op = 1 -> {BulkRead(c)}
    [] c.op = 2 -> {Setting("gain", c)}
    [] c.op = 3 -> {Setting("hue", c)}
    [] c.op = 4 -> {Setting("sharpness", c)}
    [] c.op = 5 -> {DemoSelection(c)}
    [] c.op = 6 -> {TestMode(c)}
    [] c.op = 7 -> {AudioLoop(c)}
    [] c.op = 8 -> ConfigureAudio
    [] c.op = 9 -> {Connect}
    [] c.op = 10 -> {AudioState}
    [] c.op = 11 -> {Version(c)}
    [] c.op = 12 -> {ImageSetting("logo", c)}
    [] c.op = 13 -> {ImageSetting("alpha", c)}
    [] c.op = 14 -> {ImageSetting("run", c)}

---------------------------------------------------------------------------
(* The USB interrupt: the packet is read and its FIFO is free, then          *)
(* usbd_hid_rx_cb has it executed and flushes the FIFO.                      *)

\* g_rx_data with a packet: behind what it carries, nothing is cleared.
Received(c) ==
  [i \in 1..Words |-> IF i \in DOMAIN c.words THEN c.words[i] ELSE hid.data[i]]

RxIrq ==
  /\ Thread /\ wire.out # None
  /\ main.seen # None /\ wire.out.op = 5 => "pins" \in Env
  /\ hid' = [hid EXCEPT !.in = TRUE, !.rx = wire.out, !.data = Received(wire.out)]
  /\ wire' = [wire EXCEPT !.out = None]
  /\ UNCHANGED <<main, change, board, gpio, timer, camera, fabric, ram, audio, host>>

\* usbd_hid_rx_cb: what arrives while the command is executed is flushed with it.
RxCb ==
  /\ hid.in
  /\ IF hid.ready
     THEN \E e \in Executed(hid.rx) :
            /\ ram' = e.ram /\ fabric' = e.fabric /\ audio' = e.audio /\ change' = e.change
            /\ gpio' = e.gpio
            /\ hid' = [hid EXCEPT !.in = FALSE, !.tx = e.tx, !.ready = e.ready]
            /\ wire' = [wire EXCEPT !.out = None, !.dma = @ \/ e.replies]
     ELSE /\ hid' = [hid EXCEPT !.in = FALSE]
          /\ UNCHANGED <<ram, fabric, gpio, audio, change, wire>>
  /\ UNCHANGED <<main, board, timer, camera, host>>

\* The reply, which MSS_USBD_tx_ep_write leaves to the DMA.
TxDma ==
  /\ wire.dma
  /\ wire' = [wire EXCEPT !.dma = FALSE, !.reply = hid.tx]
  /\ UNCHANGED <<main, change, board, gpio, timer, camera, fabric, ram, audio, hid, host>>

---------------------------------------------------------------------------
(* The host sends a command when it has the reply of the one before; a bulk  *)
(* write has none, and only a host that paces itself waits for its end.      *)

\* What the host knows of the memory once a write is done: the words that it sent; the
\* others that the write goes over, it forgets.
Blanks == [i \in 1..Words |-> None]
Knows(c) == Filled(Filled(host.mem, c.val.addr, Blanks), c.val.addr, c.words)

HostSends ==
  /\ host.up /\ host.asked = None /\ host.sent < MaxCmds
  /\ main.at < Test => "early" \in Env
  /\ wire.out = None /\ (hid.in => "stream" \in Env)
  /\ \E c \in Commands :
       /\ wire' = [wire EXCEPT !.out = c]
       /\ host' = [host EXCEPT !.sent = @ + 1, !.got = None,
                              !.asked = IF c.op = 0 THEN None ELSE c,
                              !.mem = IF c.op = 0 THEN Knows(c) ELSE @]
  /\ UNCHANGED <<main, change, board, gpio, timer, camera, fabric, ram, audio, hid>>

\* The setting that a command is for, and what it means.
SetBy ==
  [op \in {2, 3, 4, 5, 7, 12, 13, 14} |->
     CASE op = 2 -> "gain" [] op = 3 -> "hue" [] op = 4 -> "sharpness" [] op = 5 -> "mux"
       [] op = 7 -> "loopback" [] op = 12 -> "logo" [] op = 13 -> "alpha" [] op = 14 -> "run"]
Sets(c) == c.op \in DOMAIN SetBy
Meant(c) == CASE c.op = 5 -> (IF c.val = 1 THEN 1 ELSE 0) [] c.op = 7 -> c.val = 1
              [] OTHER -> c.val

HostTakes ==
  /\ wire.reply # None
  /\ wire' = [wire EXCEPT !.reply = None]
  /\ host' = [host EXCEPT !.asked = None, !.got = [to |-> host.asked, says |-> wire.reply],
                          !.set = IF Sets(host.asked)
                                  THEN [@ EXCEPT ![SetBy[host.asked.op]] = Meant(host.asked)]
                                  ELSE @]
  /\ UNCHANGED <<main, change, board, gpio, timer, camera, fabric, ram, audio, hid>>

Main == Starts \/ Configures \/ DelayClears \/ DelayLoads \/ DelayStarts \/ DelayEnds
        \/ PinSeen \/ PinWritten \/ Tells \/ I2cInit \/ HdmiWritten \/ SincosMemInit
        \/ UsbStarts \/ Defaults \/ LoopTest
AppNext == Main \/ DdrGetsReady \/ Expires \/ Timer1_IRQHandler \/ RxIrq \/ RxCb \/ TxDma
        \/ HostSends \/ HostTakes

\* The processor executes, the memory controller, Timer 1 and the DMA run, and the host
\* polls for replies; nothing makes it send.
AppFairness ==
  /\ WF_appVars(Main) /\ WF_appVars(DdrGetsReady) /\ WF_appVars(Expires)
  /\ WF_appVars(Timer1_IRQHandler) /\ SF_appVars(RxIrq) /\ WF_appVars(RxCb) /\ WF_appVars(TxDma)
  /\ WF_appVars(HostTakes)

AppSpec == AppInit /\ [][AppNext]_appVars /\ AppFairness

---------------------------------------------------------------------------
\* Every variable has the values that the code gives it; while a delay counts, the
\* timer runs, has expired, or has been served (msdelay.c:23-57).
AppTypeOK ==
  /\ main.at \in DOMAIN Program /\ main.delay \in {"no", "cleared", "loaded", "started"}
  /\ main.mode \in Modes /\ main.seen \in [Pins -> 0..1] \cup {None}
  /\ change \in [mode_change : BOOLEAN, mode_val : Modes]
  /\ DOMAIN camera = DOMAIN Blank /\ gpio.out \in [Pins -> 0..1]
  /\ hid.in \in BOOLEAN /\ hid.rx \in Commands \cup {None}
  /\ wire.out \in Commands \cup {None} /\ wire.dma \in BOOLEAN
  /\ host.asked \in Commands \cup {None}
  /\ main.delay = "started" => timer.done \/ Tim1Runs(timer.tim1) \/ Tim1Irq(timer.tim1)

\* A reply to a read, as far as the host knows the memory.
Answered(c, says) ==
  /\ says[1] = "memory"
  /\ \A i \in 1..WordsRead(c) : LET a == c.val.addr + i - 1
                               IN host.mem[a] # None => says[2][i] = host.mem[a]

\* The reply that the host takes belongs to its command: a read returns, of its words,
\* what the host wrote there, unless a later bulk write went over them with more than
\* it carried; and the audio is reported as configured only when its loop-back was
\* started (main.c:200-237, main.c:344-377).
ReplyIsOwn ==
  host.got # None =>
    /\ host.got.to # None
    /\ host.got.to.op = 1 => Answered(host.got.to, host.got.says)
    /\ host.got.to.op = 9 => host.got.says = <<9, 10>>
    /\ host.got.to.op = 10 => host.got.says \in {<<10, FALSE>>, <<10, audio.runs>>}
    /\ host.got.to.op = 11 => host.got.says = <<11>>

\* A setting that the host was told is made stays made until it sends another one for
\* the same thing, whatever main does to the registers and pins meanwhile, and the
\* fabric has the tables that a hue needs (main.c:133-171, main.c:238-310).
SettingsKept ==
  \A r \in Settings :
    host.set[r] # None /\ ~(host.asked # None /\ Sets(host.asked) /\ SetBy[host.asked.op] = r)
      => /\ board.tables /\ Trigonometric
         /\ host.set[r] = IF r = "mux" THEN Level(gpio, "mux") ELSE fabric[r]

\* What a command is answered is its own answer, and what it sets is set.
CommandsObeyed == ReplyIsOwn /\ SettingsKept

\* Every command with a reply is answered, however long the interrupt lasts
\* (mss_usb_device_hid.c:356-371).
CommandsAnswered == (host.asked # None) ~> (host.asked = None)

\* The camera ends up in every mode that the host leaves selected, whole: no part of its
\* set-up is lost, or done before what undoes it; and its clock runs again.
Follows(mode) == Shows(camera, mode) /\ Level(gpio, "clock") # 1

ModeApplied ==
  \A m \in Modes : (change.mode_val = m) ~> (Follows(m) \/ change.mode_val # m)

---------------------------------------------------------------------------
(* What the commands are, and the host that waits, for the theorem about them. *)

\* The host and the camera are as they should be, but that a write may not be acknowledged.
Unhurried == Env \subseteq {"nack"}

\* Bulk commands stay within the memory, the audio is started or stopped, and the command
\* that asks for the version leaves the sharpness as it is.
Proper ==
  /\ \A c \in Commands :
       /\ c.op = 0 => c.val.addr .. c.val.addr + Words - 1 \subseteq Addrs
       /\ c.op = 1 => c.val.addr .. c.val.addr + WordsRead(c) - 1 \subseteq Addrs
       /\ c.op \in {0, 1} => c.val.addr \in Addrs
       /\ c.op = 1 => c.val.bytes \in Nat
       /\ c.op = 7 => c.val \in {1, 2}
  /\ \A c, e \in Commands : c.op = 4 /\ e.op = 11 => e.val = c.val
============================================================================
