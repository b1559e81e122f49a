# A verification development for the parallel reference design

The repository is the firmware of a camera-to-HDMI reference design on a
SmartFusion2 (one Cortex-M3, no operating system): an application, and the
hardware platform it is linked with, whose drivers are most of the code.  This
directory models the drivers and the application in TLA+, checks the models with
TLC and proves theorems about most of them with TLAPS.

Paths below are relative to `src/`; `drivers/` is
`vga_display_mss_MSS_CM3_hw_platform/drivers/` and `app/` is
`vga_display_mss_MSS_CM3_app/`.

## 1. Inventory

How the parts interact.  `app/main.c` brings up the sensor and the HDMI
transmitter over the I2C driver, then the USB device as a HID; from there its
main loop reconfigures the sensor whenever the USB interrupt asks for it
(`mode_change`, `mode_val`).  Commands arrive as HID reports and are executed in
the USB interrupt itself (`USB_PCKHandler`), audio commands included, which go
through the HBI library, its SPI port and the audio processor's firmware loader.
The HPDMA, the system services, the eNVM, the USB host and the other USB classes
are built with the platform and not called by this application: their contract
is that of their header files.  Everything concurrent is an interrupt handler
against the thread it interrupts, or either against a peripheral; data is handed
over in global variables and device registers.

| Component | State it keeps | Operations | What is hard | What makes it correct |
|---|---|---|---|---|
| HPDMA driver, `drivers/mss_hpdma` | one transfer (addresses, size left, status, handler); two descriptor counters; four hardware descriptors | init, start, pause, resume, abort, set_handler; complete and error interrupts | chunks chained by a loop, then by the interrupt; both share the counters; the end is deduced from interrupt masks; abort clears one descriptor at a time | all chunks once and in order; completed means copied; abort stops; every transfer ends |
| I2C driver, `drivers/mss_i2c` | the request and its indices, the request pended, status of master and slave, time-outs | init, write, read, write_read, wait_complete, slave enable and disable, system_tick, the interrupt routine | master and slave on one bus; arbitration; pended requests; AA shared by two uses; time-outs; held bus | a success was transferred; no request is lost; buffers; the slave stays reachable |
| COMM_BLK driver, `drivers/mss_sys_services/mss_comblk.c` | state of 6 values, what is left to send, response buffer, handler | three ways to send a command; interrupt handler with two halves | late answers, asynchronous messages, FIFOs filling while they are emptied, aborting a command | the handler gets its own answer, whole; nothing is left over |
| System services, `drivers/mss_sys_services/mss_sys_services.c` | one request flag, last status, saved eNVM and clock registers | about 30 services of one protocol; IAP and ISP | waiting for the flag; registers overwritten before the wait | a service is a call that returns its own status; registers restored |
| SPI driver, `drivers/mss_spi` | per block: buffers, indices, handlers, slave state | block, frame and DMA transfers of the master; block, command and frame modes of the slave, in its interrupt | the bus goes on while the interrupt looks at one source after the other; FIFOs overflow and run empty; the answer to a command is made while it is clocked out | each packet whole, with its size; the answer is that to this command; the master never overruns |
| eNVM driver, `drivers/mss_nvm` | locks held, saved ENVM_CR, page buffer | write, unlock, count of writes | error returns between pages; areas and controllers with boundaries; busy waits | locks are released; what was asked is written; nothing forbidden is commanded |
| USB device stack, `mss_usb_device*.c`, `mss_usb_common_cif.c` | control endpoint state machine, endpoints, device state | requests, endpoint transfers, reset, suspend, stall | everything in the interrupt, re-armed by call-backs | stages of control transfers; no transfer is forgotten |
| USB HID class | report in flight, idle rate | tx_report, class requests | receives into a buffer still being read | a report is sent once |
| USB mass storage (device) | command and status wrappers, stage | bulk-only transport | error recovery, short data | residue and status match the data |
| USB CDC, printer, vendor classes | little | adaptations of the stack | - | - |
| USB host stack and mass storage class | enumeration state, pipes, class stage | 1 ms task, pipe transfers | time-outs, disconnects in every state | every enumeration ends |
| GPIO and timer drivers | none of their own | register writes | outputs are read, changed and written back, by the loop and by an interrupt | a pin keeps what was asked for |
| Application, `app/main.c`, `app/usb_hid` | shared flags, receive and send buffers | main loop, commands | flags shared with the interrupt; not volatile | the last mode asked for is programmed |
| Audio bring-up, `app/audio/audio.c` | whether it is initialised | init, loop-back, firmware and configuration load | early returns that keep instances open | instances are closed |
| HBI library and SPI port, `app/audio/vproc_sdk_trunk` | instances, devices, reference counts | init, open, read, write, close, terminate | limits of the tables, paged access | counts match; a page is selected before its registers |
| Sensor, HDMI and sine table set-up | what the sensor has been told | sequences of register writes, with delays | later writes undo earlier ones; no status is looked at | the picture is that of the mode |
| Start-up, CMSIS, HAL, configuration | silicon revision, memory controller | SystemInit | a wait for a controller whose clock a workaround turns on | start-up ends |
| SDK examples and tools, Linux driver | - | not part of the firmware | - | - |

`PROJECT.json` lists the same components with the status of each, and under
"hazards" the places in the code where an interleaving, an order, a limit or a
stale value matters, each with the properties that would catch it.

## 2. The modules

| Module | Role |
|---|---|
| `Hpdma` | the HPDMA driver, its interrupt handlers and the controller |
| `HpdmaInv` | the inductive invariant of `Hpdma` |
| `HpdmaProofs` | the theorems about `Hpdma` and their proofs |
| `Spi` | the SPI driver, as master and as slave, and the bus between |
| `SpiInv`, `SpiProofs` | its inductive invariants, and the theorems about it with their proofs |
| `I2c` | the I2C driver, its interrupt routine, the controller and the bus |
| `Comblk` | the COMM_BLK driver, the two FIFOs and the System Controller |
| `ComblkInv` | its inductive invariant, proved in `EnvmUsersProofs` |
| `SysServices` | the services over `Comblk` (EXTENDS it and `EnvmCr`) |
| `ServiceCall` | what a caller of a service may count on; `SysServices` implements it |
| `EnvmCr` | the register that the services and the eNVM driver both change |
| `Nvm` | the eNVM driver and the two controllers (EXTENDS `EnvmCr`) |
| `EnvmUsers` | `SysServices` and `Nvm` in one program |
| `EnvmUsersInv`, `EnvmUsersProofs` | the inductive invariants of the services and of both drivers, and the theorems with their proofs: about `Comblk`, then the services, then both |
| `UsbClasses` | the descriptors of the five device classes and the endpoints they configure |
| `UsbControl` | endpoint 0 of the USB device, bus events, and what the classes do there (EXTENDS `UsbClasses`) |
| `UsbControlInv`, `UsbControlProofs` | its inductive invariant, and the theorems about it with their proofs |
| `UsbEndpoint` | a bulk or interrupt endpoint of the USB device, and the class that uses it |
| `UsbPipe` | a data pipe of the USB host, and the target (EXTENDS `UsbEndpoint`) |
| `UsbMsd` | the mass storage class of the device, over endpoints that carry a piece in a step |
| `BlockDevice` | what a disk promises its host; `UsbMsd` implements it |
| `UsbMsdInv`, `UsbMsdProofs` | the inductive invariant of `UsbMsd`, the theorems about it, and its refinement of `BlockDevice` |
| `UsbHost` | the USB host stack: control pipe, enumeration, allocation of the class |
| `UsbHostMsc` | the mass storage class of the host (EXTENDS `UsbHost`) |
| `UsbHostMscProofs` | the inductive invariant of the two, and the theorems about them with their proofs |
| `Hbi` | the three layers under the audio functions: HBI driver, SSL, SPI port |
| `HbiFrame` | the frames of a register access, and what the chip takes them for |
| `Audio` | the audio functions and the chip's mailbox (EXTENDS `Hbi`, `HbiFrame`) |
| `AudioProofs` | the inductive invariants of `Audio` and of the layers, and the theorems about them |
| `Board` | start-up, pins, Timer 1 and the sine tables: what the loop stands on |
| `Camera` | the sensor: what `ar0330.c` writes to it, and the picture that comes of it |
| `App` | the program from reset on, the delay and the commands of the host (EXTENDS `Board`, `Camera`) |
| `AppProofs` | the inductive invariants of `I2c` and of `App`, and the theorems with their proofs: about the driver, then the application |
| `MC...` | the values TLC gives to constants that a `.cfg` file cannot write |

Each module uses the names of the C code where there are any.  Ghost variables
are marked "history" where they are declared: no guard of the driver or of a
peripheral reads one, with three exceptions that bound the environment: a client
calls only to initialise after an event that voids the driver's promises (see
`tainted` and `upset`); the rarer bus events of `I2c` come only before one; and,
without `LATE_ISR`, the controller of `Comblk` answers the request in hand only
once the driver waits for the answer.  A definition commented "mutant" is a plausible mistake
in the definition that follows it; no module uses it.

The constants `Hazards`, `Overlap` and `Env` name what the environment may do
besides the plain course of things.  Each value is code that runs in the model,
never a step that the model forces; section 5 lists those that a run leaves out
because the code does not stand them.  Every module states its type invariant
(`TypeOK`, `STypeOK`), which holds in the instance of its run and is not listed
there: the run checks what says more.  Those of
`Hpdma`, `I2c`, `Comblk`, `Spi` and `UsbMsd` are proved.

### Hpdma

State: `g_transfer` is `state`, `next` (both addresses), `left` (`xfr_size`) and
`handler`; `end` and `cur` are the two descriptor counters.  Sizes and addresses
are in chunks of 64 KB, what a descriptor takes at most, so the last chunk of a
request may be short without the model noticing; what matters there, that the
addresses do not advance after it, is kept.  The thread is in steps (`pc`):
`Start`, then `LoopTest`, `LoopCall`, `LoopInc` for each turn of the loop;
`Abort`, then `AbortClear` for each descriptor, then `AbortEnd`.  The interrupt
handlers are atomic up to their call of the completion handler, since on one
Cortex-M3 nothing of the driver interrupts them: `CompleteMore`, `CompleteWait`
and `CompleteEnd` are the three ways through `HPDMA_Complete_IRQHandler`;
`ErrorIRQ` and `ErrorClear` are the two parts of `HPDMA_Error_IRQHandler`, before
and after it calls the client.  The completion handler may return or start
another transfer (`HandlerReturn`, `HandlerRestart`).

External: the controller works on one descriptor at a time, takes the next valid
one round the ring, and halts on a descriptor that is paused or faulty; writing
`DCP_CLR` clears a descriptor and its interrupt enables.  One kind of error is
present at a time.  When both interrupts are pending, the complete interrupt
(number 27) goes before the error interrupt (number 28).

`Preempt` says whether an interrupt may be taken inside `MSS_HPDMA_start` and
`MSS_HPDMA_abort`.  The driver does not mask its interrupts there, and with
`Preempt` TRUE it does not work (section 5).  With FALSE it is called
with interrupts masked, or from an interrupt of the same or a higher priority.

`tainted` marks two behaviours after which the promises are void until
`MSS_HPDMA_init`, and no document says otherwise:
- an abort while the complete interrupt is pending leaves the interrupt, and
  `xfr_size`, behind: the handler then programs a chunk of the aborted transfer,
  or completes the transfer that was started next;
- a transfer started by the completion handler from the error interrupt is wiped
  out when the interrupt goes on and clears every descriptor: its status stays
  in progress and nothing moves.

### I2c

State: `m` is the fields of `mss_i2c_instance_t` that control anything, `hw` is the
controller: the bits the driver writes, the status it reads, the NVIC mask and
the phase of the bus.  A byte is named by its index in its buffer, which is what
lets the history `acked` and `got` tell that every byte went out once, in order,
and came to its place.  A request (`Request`) is one step: the code runs with
the interrupt disabled.  Each `Isr...` action is one group of `case` labels of
`mss_i2c_isr` with the code after the `switch` folded in (SI is cleared unless the
bus is to be held).  The general call statuses share their labels with the
addressed ones and are not told apart.  The first bytes that another master
writes to this slave, any of `SlaveBytes`, are an offset: `random_read_addr` takes
each in (`OffsetWith`) with no bound but its own width, `Wrap`, and `slave_tx_idx` is
set to it at the end of the write, also beyond `slave_tx_size`; from there the slave
sends 0xFF (`mss_i2c.c:893, 915, 1021`).

`Hazards` names what the bus and the client may do besides plain transfers:
arbitration lost (`LOST_ARB`), lost to a master that writes (`SLV_LA`) or reads
(`SLARW_LA`) this device, an SMBus slave time-out (`SLV_RST`), a bus error, a
request that times out (`TIMEOUT`) and a held bus (`HOLD`).  Some of them make
the driver break one promise; `upset` then records which, the properties that
name it step back, and the client may only initialise the driver again:
- `LOST_ARB`: a write-read that loses arbitration at its repeated START retries
  its read without sending the offset again, since `dir` has changed already;
- `SLARW_LA`: the request is neither pended nor failed (section 5);
- `SLV_RST`: the request pended behind the slave transaction is not started;
- `BUS_ERROR`: `is_transaction_pending` is left set, so a failed request may be
  started again by a later slave transaction, and AA may be left clear after a
  read, so the slave no longer answers;
- `TIMEOUT`: the controller is not told, so the late end of the request writes
  its success over the status of the next one;
- `HOLD`: `bus_status` is never set back, so a later request clears an SI that may
  be of another event.

### Spi

Both ends are this driver.  The master is a thread: `Select`, then `TransferBlock` with
`BlockTurn` for each turn of its polling loop, `TransferFrame`, or a DMA in the steps of
`mss_spi.h:193-206`.  The slave is `mss_spi_isr`, which looks for its six sources in the
order of `Sources`.  It serves a source in one step and clears it in another (`IsrServes`,
`IsrClears`), or finds it not raised (`IsrSkips`); between any two of these the bus moves
frames each way (`Shift`).  A source that is raised again before it is cleared is lost:
`log.missed` says that RXDONE was cleared with frames in the FIFO, as it is when one comes
between the last reading of `RX_FIFO_EMPTY` (`mss_spi.c:1160`) and `INT_CLEAR` (1192), and
that frame waits there for the next one (section 5).  A loop over a FIFO is one step, the
last reading of its status: a frame that comes earlier is read by the loop.  `d` is the
slave's `mss_spi_instance_t`, `h` its FIFOs, interrupts and AUTOFILL.  A frame is named by
who made it and which it is, so that a frame of an earlier transaction, or an answer to an
earlier command, is told from the right one.  A slave that was too late (its FIFO
overflowed, or ran empty while an interrupt waited or because TXDONE was cleared so late
that it could not be raised again, `Starved`) is `fault`: the properties ask nothing of
that transaction, and everything of the next one.

### Comblk

State: `drv` is the driver's globals, `cpu` where the code is (the loops that wait for
room in the FIFO are steps of their own, in which the controller goes on), `en` the
interrupt enables, `txq` and `rxq` the FIFOs, `sys` the controller. `ComBlk_IRQHandler`
reads the status once: `Receive` takes a word and goes on to the second half (`cpu =
"tx"`) only if there was room at that moment. Words carry a tag, "cur", "old" or "event",
that says whose they are; the driver never reads it, the history `done` and the properties
do.  The branch of `handle_tx_okay_irq` for `COMBLK_TX_DATA` cannot be reached, since the
transmit interrupt is enabled for paged commands only, and has no action.

External: the controller takes whole frames, answers each once with the opcode
and as many bytes as its caller expects, drops a frame that another one
interrupts, and may send one-byte messages at any time and the digest error of
the power up first.  `Hazards` names what it and the clients may do:
- `ABORT`, `CONFUSABLE`: a command replaces one in progress; and may do so while
  words to come could be taken for its answer.  Only the opcode tells answers
  apart, so two commands in a row with the same opcode are confused: `Comblk.cfg`
  leaves `CONFUSABLE` out;
- `OVERSIZED`: a command longer than the room in the FIFO.  The rest of such a
  command of `MSS_COMBLK_send_cmd` is never sent, as only the receive interrupt is
  enabled; a paged one is ended with an empty answer.  The services send at most
  6 bytes and the hardware FIFO has 8;
- `REFUSAL`, `LATE_ISR`: a paged command refused before its last page, or answered before
  the driver has noticed that the last page is out.  The byte may then be lost, and the
  handler is never called: `NotStranded`, a part of `EndsWhole`, is not about this, since
  the driver waits for the answer and not in idle;
- `DIGEST`, `EVENT`, `DIGEST_BYTE`: unsolicited messages; an answer with a byte
  0xF1 (section 5).

An answer of 0 or 1 bytes never completes (`ComblkAssumption` excludes it); only
`MSS_SYS_zeroize_device` asks for that, and the device is reset when it works.

### SysServices and ServiceCall

One main loop calls the services.  A service is a sequence of requests
(`DesignServices` ... `StartIsp`, one definition for each group of functions of the
header), since the services of the key codes count the keys at their end and IAP
may check the digest first.  `Call` is the part before
`signal_request_start` (IAP and ISP save and overwrite registers there), `Enter`
the flag found clear and the command sent, `Return` the flag found clear in
`wait_for_request_completion`, `Handled` the completion handlers, composed with the
step of `Comblk` that calls them (`SDriver`).  `MSS_SYS_start_isp` returns at once.

`chip` is the part of the device that Flash*Freeze touches: the controller says
"shutdown" and "exit" (`Freezes`, `Thaws`), and `Clocked` is
`asynchronous_event_handler`, which changes the divisors of the bus clocks inside
the interrupt, and `isp_page_read_handler`, which changes them at the first page.
`REFREEZE` in `Hazards` allows a freeze to be asked for while one is on.

`ServiceCall` is the abstract machine: ask, get the status of one's own answer,
return.  The refinement mapping is the call of the loop while it waits, and the
status its handler was given.

### Nvm and EnvmUsers

`Nvm` has the addresses of the hardware: what can go wrong are its limits.
`Begin` is a call up to the check of the parameters and of the protection
(`CheckProtection`, with the areas of each device in `Layout`); `Request` takes
one controller, or gives both back when another master keeps it; `ProgramPage` and
`UnlockPage` give a command, `GetReady` is the controller with what it has met, and
`Programmed`, `Verified` and `PageUnlocked` go on with the word of `STATUS` that
`wait_nvm_ready` returns (the first one may be wrong, by the erratum it works
around); `End` releases the controllers and restores `ENVM_CR`.  The page buffer is
the set of bytes that come from the user (`data`) and from the page (`seeded`).
External: the flags, and the other masters.

`EnvmUsers` composes both drivers as a program does that calls them from one
loop: the calls exclude each other, an ISP that goes on behind its call and the
interrupts do not.  `EnvmLeftAsFound` is `RegistersRestored` and `EnvmReleased`
of `SysServices` while no call of `Nvm` is under way, and `DivisorsFitClock`.

### UsbControl

State: `d` is the driver, the class and the registers of the core; `irq` the interrupt
registers; `host` the host's transfer and what it knows of the device. `Isr` is the whole
of the interrupt handler of `mss_usb_common_cif.c`: bus events in its order, then the
control endpoint, whose call-back goes through the states of `mss_usb_device.c` to the
standard requests and the class; `IsrAfterDelay` is the rest of a `SET_ADDRESS`, which
waits in the interrupt.  A packet is what it is part of and its number of bytes.  `Builds`
are the programs: the class, the speed the application asks for and that of the bus.  A
request that is taken with no data to answer it (a report descriptor of a class that has
none) is answered with a zero-length packet (`DataOf`).  `UsbClasses` has each class's
configuration descriptor as the lengths of its parts, the bytes that the init call-backs
take packet sizes from, and the endpoints they configure with the test of
`MSS_USBD_tx_ep_configure`.  The host makes legal transfers of `Requests`, and may give
one up, reset, suspend, resume and unplug.

`Overlap` says what may happen before an earlier interrupt is served.  With none,
the interrupt is served before the host's next move, which is what the time
between packets on the bus gives a handler that is not held up.

### UsbEndpoint

One endpoint in one of the configurations of `Configs`: the class, the direction, the
type, DMA or processor, and a final ZLP or none.  `Configure` is the init call-back of the
class, `Start` what the class or the application starts (`TxEpWrite`, `RxEpReadPrepare`);
a transfer is carried packet by packet by `EpTxCompleteCb`, `EpRxCb` and the DMA
call-backs, which tell the class (`HidTxComplete` ... `VendorRx`); that may start the next
transfer, or flush the FIFO.  A call-back works on a record of the variables (`Now`), since
the driver, the class and the driver again change them in one interrupt.  A packet is
its length and the place in the buffer it came from and goes to.  `EpStall` and
`EpClrStall` halt the endpoint and clear it; `Env` says when (section 5).

### UsbPipe

The same core, DMA and handlers in host mode: a configuration of class `"pipe"` is a bulk
pipe.  Its owner configures it (`ConfigurePipe`, with the registers that say which endpoint
of which device it speaks to), writes, reads (`WriteOutPipe`, `ReadInPipe`) and, after an
error, aborts it (`AbortOutPipe`, `AbortInPipe`); `PipeTxCompleteCb`, `PipeRxCb` and
`PipeDmaHandlerCb` are the call-backs of `mss_usb_host.c`.  The target takes and sends
packets, stalls, does not answer, or lets the NAK limit pass (`TargetFails`).  `AUTOSET`,
the requests that AutoReq makes and the NAK time-out are part of the state, since the end
of a transfer is deduced from what they leave in the FIFO.

### UsbMsd and BlockDevice

`BotFsm` is `usbd_msc_bot_fsm` with the SCSI commands it decodes and the media
call-backs of the application, which may give or take fewer blocks at a time
(`Chunks`).  The host goes by the bulk-only transport: command, data, status, the
halts it clears, the class reset.  It asks for lengths that differ from
what the device has (`Commands`); `BlockDevice` is what it counts on.  A block
holds the number of the command that wrote it.

### UsbHost and UsbHostMsc

The application calls `MSS_USBH_task` and `MSS_USBH_MSC_task` over and over
(`Task` is one state of one of them), a tick is a millisecond scaled (`Short`), and the
interrupts of the pipes come between them (`CepIrq`, `OutDone`, `InDone`).
Devices of six kinds are plugged in and out at any moment.  `ReadOrWrite` is the
application's request once the disk is ready; `Suspend` and `Resume` are its power
management, and a request may be made of a suspended bus.  `TdevEps` finds the pipes in
the descriptor.  A transfer of a pipe is one step here (`UsbPipe` has its packets), and is
what it is for: the device of the model knows what it expects next, and a transfer it does
not expect is stalled or times out.  `Released` is what the release of the class sets back:
state, address, pipes, status wrapper and capacity, and not the events.

### Hbi and Audio

`Hbi` has the tables of the three layers as functions, and their calls as
operators from the state of the layers to a new state and a status, since each
returns into the middle of the one above.  `Audio` has the functions of
`audio.c` as programs of such calls and chip commands; a host command goes to the
mailbox, its parameter before it to the register that will hold its result, and
the chip executes it later or not before the driver gives up.  One
other user of the library comes in between.  A caller with a device also reads
and writes registers, puts the chip to sleep and resets it.  `HbiFrame` makes the
words of an access (`tw_hbi_tp_frame_hdr`) and decodes them as the chip does, with
the page that it has selected: a register of page *n* is reached through page
*n* - 1, except those of page 255, and page 0 without a page.

### App

`Program` is `SystemInit` and `main` as a sequence of steps, with the set-up of the sensor
in it twice: `Boot` before the loop, then the loop's own with its mode and the override of
the sensor's clock.  A step is one call; a write of a pin is two (`PinSeen`,
`PinWritten`), since the driver reads the outputs first, and a delay is four
(`DelayClears` to `DelayEnds`), beside `Expires` and `Timer1_IRQHandler`. `Camera` keeps
what the picture depends on: PLL, window, colours, pattern, flips, whether it streams;
`Picture` is what comes of it and `Expected` what the mode asks for.  `RxIrq` begins the
USB interrupt with the packet received, `RxCb` is `USB_PCKHandler` with the fifteen
commands and the report it sends back, `TxDma` the DMA that copies the report.  The
interrupt stops the loop and holds the timer's back (`Thread`).  The host waits for the
reply of a command that has one, and remembers what it has set (`host.set`) and what it
has written (`host.mem`).  A bulk write copies every word of `g_rx_data` behind the head
(`Words` of them) whatever the packet carries: behind its words, what earlier packets left
(`Received`).  So the host, after a write, knows the words it sent and forgets the others
that the write went over (`Knows`).  A bulk read takes a word more than its count when
that is a multiple of four (`WordsRead`).  The specification is `AppSpec`: `AppProofs` is
about this module and `I2c`.

## 3. The runs

| Run | Checks | Shows |
|---|---|---|
| `hpdma` (MCHpdma, `Hpdma.cfg`) | 4 invariants, `Terminates` | 550 000 states: up to 2N chunks over N descriptors are copied once and in order, across aborts, errors, pauses and transfers started by the handler; every transfer ends |
| `i2c` (`I2c.cfg`) | 4 invariants | 5 100 000 states, in the environment with every hazard: a success was transferred, requests are kept, the slave stays reachable |
| `spi` (MCSpi, `Spi.cfg`) | 3 invariants | 7 600 000 states: two transactions of up to six frames in FIFOs of four, of every kind, in every mode of the slave, the bus going on between any two steps of the handler, also between the service of a source and its clearing |
| `i2c_live` (`I2cLive.cfg`) | `RequestEnds` | every request ends, whatever arbitration and slave transactions do |
| `comblk` (MCComblk, `Comblk.cfg`) | 2 invariants | 20 000 states: commands of three kinds in every order get their own answers only and end with nothing left behind |
| `envm_users` (MCEnvmUsers, `EnvmUsers.cfg`) | 3 invariants, `ImplementsServiceCall` | 470 000 states: the services refine the plain call, safety and liveness, and both drivers leave the eNVM and the clocks as found |
| `usb_control` (MCUsbControl, `UsbControl.cfg`) | 3 invariants, `TransferEnds` | 74 000 states: 27 requests in every order under the five classes, through resets, suspends, unplugging and transfers given up |
| `usb_endpoint` (MCUsbEndpoint, `UsbEndpoint.cfg`) | 2 invariants, `TransferEnds` | 12 000 states: nineteen endpoints of the five classes and of none and five pipes of the host, all lengths up to three packets and a half, three transfers in a row, halts, failures of the target and aborts |
| `usb_host` (`UsbHost.cfg`) | 2 invariants, `ServedOrRefused`, `RequestEnds` | 980 000 states: six kinds of devices plugged in and out at any moment, and the bus suspended and resumed |
| `usb_msd` (MCUsbMsd, `UsbMsd.cfg`) | 2 invariants, `ImplementsBlockDevice` | 240 000 states: four commands in a row, of matching and of wrong lengths, with short pieces and resets |
| `audio` (MCAudio, `Audio.cfg`) | 4 invariants | 240 000 states: the five functions in every order with every error return, beside another user, and eight accesses at the edges of pages and lengths |
| `app` (MCApp, `App.cfg`) | 1 invariant, `CommandsAnswered`, `ModeApplied` | 280 000 states: the whole start-up on each silicon revision, then three commands at any point of the loop, the set-up, the pins and the delays |

Some properties are conjunctions of statements about one question:
`TransfersAreRight` is `SuccessMeansTransferred` and `ReceivesInBounds`,
`SlaveIsServed` is `SlaveReachable` and `SlaveInProgressIsReal`, `EndsWhole` is
`NotStranded` and `NothingLeftBehind`, `UnderstoodAsMeant` is `ResultIsOwn`,
`ParamIsOwn` and `AccessIsExact`, `CommandsObeyed` is `ReplyIsOwn` and `SettingsKept`.

Bounds.  `N = 4` is the number of descriptors of the hardware; `MaxChunks = 8` is 2N, the
longest transfer that works (section 5 takes one more), so the descriptors wrap once.  In
`I2c`, `MaxLen = 2` tells a first byte, a last one and the one at which AA must change
(sizes 0, 1 and 2 take different ways through the code); buffers of the slave of 1 byte
are filled, overrun and wrapped, and `OffsetLen = 1` lets a slave write be an offset, of a
byte (`SlaveBytes`) within the buffer, at its end or far beyond it; `Wrap = 65536` is the
least width of `uint_fast16_t`, on this processor it has 32 bits, and no offset of the run
comes near either.  In `i2c_live` one byte is enough, since only the number of statuses
served grows with the length.  The FIFOs of `Comblk` have 3 words, so that commands of 2
and 3 words fill them, and a page of 2 after a command of 2 words overflows them.  The
hardware has 8; what matters is whether a command fits, and both cases occur.  In
`envm_users` a command of 6 words just fits, as in the hardware, and `RxFifo = 2` with
answers of 3 makes the controller wait; its services are one of each shape (a pointer, one
that locks the eNVM, a freeze, IAP with and without the digest, an ISP of two pages, the
least with a page after the first); its eNVM calls go over a page, a controller and the
end of the smallest device, on the smallest and the largest layout.

`UsbControl`: packets of 64 bytes as the code has them, class data of none, one and two
packets, a descriptor longer than a packet; two bus events, so that a suspend is followed
by a resume, a reset or an unplugging, and one transfer given up.  `UsbEndpoint`: packets
of two bytes, so that 0 to 7 are all the cases of whole, short and several packets; a
third transfer starts from what two of any kind left. The pipes without DMA read what the
target has in full, and those with DMA make lengths of whole packets or of less than one,
as the class driver does; the NAK limit is that of the class. `UsbHost`: the second device
comes after one that left in any state; `Short`, the bus reset of 20 ms, is one tick, and
the other waits keep their order. `UsbMsd`: three blocks give ranges that overlap, touch
and run over the end; the application gives none, some or all of them at a time.  `Audio`:
the tables have the sizes the application is built with; three blocks of firmware are a
first, a middle and a last one; the accesses of registers are of each kind of page, within
one and over its end, of one word and more. `App`: three words of memory and packets with
room for two words behind the head, so that a write of one word goes over its neighbour,
and two writes overlap (the code: 254 words, all of memory); reads of one word and of two;
a command of each group (those left out set a register like those kept); two modes beside
the first, one that is a pattern alone and one that runs on into the next (`ar0330.c`,
case 4); three commands, so that one comes during the set-up caused by another.  The
clients of `hpdma`, `i2c`, `comblk`, `envm_users` and `audio` make any number of calls.

Deadlock is checked except where a bound of the environment ends the behaviour: `spi` (its
transactions used up), `usb_control` (unplugged, with its bus events used up),
`usb_endpoint` (its transfers used up) and `usb_msd` (its commands used up).

Fairness.  `Hpdma`: the processor executes (`MainStep`), enabled pending interrupts are
taken (`Isr`), and the controller copies (`EngineMove`); nothing is assumed of the client,
which may leave a descriptor paused for ever (`Terminates` says so). `I2c`: interrupts are
served; a STOP, and another master's bytes, end; a master that asks for the bus again and
again gets it and its target answers (SF, since arbitration and slave transactions disable
these steps in between).  Without it nothing could end: other masters may hold the bus.
`SysServices`: the loop and the interrupts run, the controller takes and answers; `Emit`,
`Freezes` and `Thaws` are SF because the receive FIFO, which the controller shares with
its events, is full now and then. `UsbControl`, `UsbEndpoint` and `UsbPipe`: interrupts
are served, and the far end goes on with a transfer that has begun; nothing makes it begin
one.  `UsbHostMsc`: the application calls the tasks and resumes a bus it has suspended
(SF, since it does so between tasks), the transactions that the controller was given end,
and time goes on (SF, since a tick waits for the tasks to have run).  `App`: the loop
executes, the timer, the DMA, the memory controller and the USB interrupt are served (SF
for the last: it waits for one that is being served), and the host polls for replies.
`UsbMsd`, `Spi` and `Audio` state safety only.

## 4. What is proved

Each component that is proved about has an inductive invariant (`IInv`; `SInv` and `UInv`
in the modules that build on another; `Core` and `ConfigInv` in `UsbControl`) in a module
of its own, or with the proofs in `AppProofs`, `AudioProofs` and `UsbHostMscProofs`, which
TLC checked on the instance of the run before it was proved.  The proofs have one lemma
for each action that can disturb the invariant; the last lemma before the theorems
combines them.

### HpdmaProofs

For every `N`, every `MaxChunks` and every environment, from
`HpdmaAssumption` (N and MaxChunks positive naturals, the switches Booleans):

- `TypeCorrect`: `Spec => []TypeOK`, preempted or not, of any length.

And from `WithinLimits` (not preempted, `MaxChunks <= 2 * N`), which the first two
divergences of section 5 show to be needed:

- `SituationHolds`: the inductive invariant `IInv`, that is `TypeOK /\ Situation`;
- `CopiedInOrderHolds`, `CompletedMeansCopiedHolds`, `NeverStrandedHolds`,
  `AbortStopsHolds`: the invariants of the run `hpdma`;
- `AcksFinishedDescriptorHolds`: an interrupt acknowledges a descriptor whose copy
  has ended;
- `NoOverwriteHolds`: the action property that no descriptor in use is programmed.

None of the invariants is inductive: that the right chunk is
copied depends on what the descriptors hold, on the counters of the driver and
on where the controller is.  `Situation` says that an untainted driver is
running, has ended, is aborting or is failing.  In a running transfer, `served`
chunks have had their interrupt, `copied` have been copied and `begun` have been
given a descriptor, with `served <= copied <= begun <= served + N`.  Chunk i is in
descriptor `Slot(i)`, so the N chunks from `served` on have a descriptor each:
`ChunkAt(d)` is the one of descriptor d, and where it stands among the three
counts decides its valid, interrupt-enable and done bits (`RingOK`).  Three
lemmas move the ring: a chunk begins (`MoreSituation`, and the loop), is copied
(`MoveSituation`), is acknowledged (`ServedRing`).  The test by which the handler ends a
transfer, that the following descriptor's interrupt is masked, is right because
`ChunkAt` of it is beyond `begun` exactly when all chunks are acknowledged.  The
bound 2N keeps `Slot` a single subtraction, and is where the code's own wrap fails.

### AppProofs: the I2C driver

For every size of the buffers, every length of an offset and every set of
`Hazards`, from `I2cAssumption` alone:

- `InvariantHolds`, `TypeCorrect`: the inductive invariant, and the types in it, which
  bound the indices of the client's buffers and of the slave's receive buffer by those buffers,
  whatever bytes another master writes.  The slave's transmit index is the exception: an offset sets
  it to any value of its width, as the code does (section 2);
- `TransfersAreRightHolds`, `RequestKeptHolds`, `NoGhostRequestHolds`, `SlaveIsServedHolds`: the
  invariants of the run `i2c`.

The status the driver reads is one of the phase the bus is in (`Wiring`); a
request in progress is what keeps the driver on the bus (`Asked`) and is alive
behind every event that leaves its promise standing (`Kept`).  While a byte is on the bus, `DATA`
holds the one that `tx_idx` or `rx_idx` stands at (`Reads`, `Transferring`), so what is
acknowledged is always the first `tx_idx` bytes in order; a success is then a whole
transfer because a read refuses exactly its last byte, and a write ends only
when `tx_idx` has reached its size (`Succeeded`).  A write-read is `Turned` once it
reads, and its offset stays sent.  `Selected` and `Listening` keep the slave's
status and AA in step with the phase.

### EnvmUsersProofs: the COMM_BLK driver

For every depth of the FIFOs, every page size, every set of requests and every
set of `Hazards`, from `ComblkAssumption`:

- `TypeCorrect`: what is received never outgrows the buffer of its command, and a
  frame begins with an opcode.

And from `Env`: no `CONFUSABLE` and no `DIGEST_BYTE`, of which section 2 and section 5
show that the code does not stand them, and a paged command whose answer is at most an
opcode and a status, as the one of the services (`StartIsp`) is:

- `InvariantHolds`, `AnswerIsOwnHolds`, `EndsWholeHolds`: the inductive invariant and the
  invariants of the run `comblk`.

The invariant follows the words of one command from the transmit FIFO through the
controller into the receive FIFO: the controller has the command, or has answered it, only
when its frame has left (`Frames`); words of its answer come behind all older ones, and
are followed only by what could not be taken for them (`Mail`); and their numbers follow
each other over the FIFO and the controller's output (`InOrder`, with `Follows`), from the
first one that the driver has not taken.  An older answer still on its way has another
opcode, so that the driver, which looks at nothing else, drops it; a paged command does
not look at the opcode, and is sent only when nothing older is left (`Alone`).  Most of
the invariant does not need the absence of `CONFUSABLE`, only that the command sent is not
confusable: the lemmas say so (`SendInvariant`, `OtherInvariant`), and the services use
them.

### EnvmUsersProofs: the services

For every set of services, of requests, every depth of the FIFOs and every page size, and with
`CONFUSABLE`, `ABORT`, `REFUSAL` and `LATE_ISR` or without, from `ComblkAssumption` and
`ServicesAssumption`, from `Legible` (the part of `Env` of `ComblkInv` that is not about
`CONFUSABLE`) and from `Steady`: no `REFREEZE`, and no `isp_program`; section 5 has a violation for
each:

- `SInvariantHolds`: the inductive invariant `SInv`;
- `EnvmReleasedHolds`, `DivisorsFitClockHolds`: the parts of `EnvmLeftAsFound` that are about
  the services alone;
- `CallsAreServed`: the initial states and the steps of the refinement of `ServiceCall`; what it
  says of fairness stays with TLC.

The driver tells answers apart by their opcode alone, and two services in a row may have
the same one.  That a service gets its own answer is therefore a property of both modules:
the flag is cleared only at the end of a whole answer, behind which nothing of it is left
(`Clear`, `Fresh`); so the opcode of a command that is sent is that of no word on its way,
and the invariant of `Comblk` holds in an environment in which a client of the driver
could break it.  An ISP, whose handler does not clear the flag, keeps every other command
from being sent (`InCall`).  The empty answer that the transmit interrupt may give is for
paged commands only (`Quiet`).

The messages of Flash*Freeze are read some time after the fabric has changed; `Course`
says that along the words of the receive FIFO they lead, in turn, from the clock that the
processor runs from to the state of the fabric.  A word read takes the first part away
(`CourseTail`), a message adds one (`CourseAppend`).  A service that keeps the divisors
begins, or goes on from the check of the digest, when none of these messages is left
(`Settled`), so it keeps those of the design.  `Locked` says that eNVM-1 is locked only on
the way from a command that locks it to the count of the keys, which follows in each
service (`Chain`).

### SpiProofs

For every depth of the FIFOs, size of the buffers, set of transfers and `Env`, from `SpiAssumption`:

- `TypeCorrect`: no FIFO is written beyond its depth, nor the response read beyond its
  end, in whatever order the two ends take their steps;
- `InTransitHolds`: the invariant of the run `spi` about the loop of `MSS_SPI_transfer_block`.

And from `Patient`, that is `Env = {}`: the master leaves the slave the time to serve the end of
a packet before it selects it again, and an overflow before the end of the packet; section 5
has a violation for each of the two:

- `PacketIsWholeHolds`: the invariant of the run `spi` about what the slave's handlers are given.
  In frame mode a frame may stay in the FIFO, and only one that came before RXDONE was cleared and
  after the FIFO had been emptied.

From `Patient` and `LongEnough`, that the slave's buffer is empty or reaches to the interrupt that
asks for more (half a FIFO), which section 5 shows to be needed:

- `ReadIsRightHolds`: the invariant of the run `spi` about what the master reads.

`WireInv` is the part that holds for every master.  The frames of a transaction are those
that have been shifted and those that wait in the master's FIFO (`Behind`), so what is
left of a call fits in the transaction, and in the polling loop `transit` is what the two
FIFOs of the master hold together (`OnTheirWay`): the receiver, as deep as the transmitter
may be ahead, has room. `Modes` says which interrupts each mode of the slave has enabled,
which is what makes one that is raised one that will be served; the handlers change one
part of the record after another, and a lemma for each helper says what it leaves
(`StoredDoes` to `RewoundDoes`). `PacketInv` adds what was sent: `InOrder(k)` says that
the k frames taken and those in the FIFO are, in order, the ones sent.  In block mode the
k frames are in the buffer as far as it reaches, until the end of the packet has been
served (`BlockKept`, `Ends`); in frame mode the handler has been given them, and a frame
that waits has its interrupt raised, or RXDONE has been cleared too early (`log.missed`)
or is about to be (`FrameKept`).  `Served` says what a source that has been served and is
still to be cleared has left: a command is over, and a FIFO that was filled between two
transactions is full.

`ReadInv` follows the frames the other way.  After n frames of a transaction the slave's
FIFO holds those that `Reply` has for the places behind n, and the driver's two indices
are where the FIFO ends (`Loaded`); `fill_slave_tx_fifo` goes on from there whatever the
room is (`FillLoads`, over the arithmetic of `Counts`).  The FIFO does not run empty
before the interrupt that asks for more, or the command has to come first (`Fed`), and the
response in it is that to the first frame of this transaction (`Commanded`, `Answers`).
Each part of the handler, a recovery, a set-up call and a frame on the bus keeps that
(`RxDoneSpeaks` to `SelectSpeaks`), also when the slave was too late, from whose fault on
the end of the transaction rewinds it (`ResetSays`, `SsEndSpeaks`). `Heard` has the rest
of the way: what waits in the master's receive FIFO, and what the loop has read of it, is
what the slave had to say at its place (`NextIsSaid`, `TurnHears`).

### UsbMsdProofs

For every medium, every buffer size of the application and every number of commands, from
`UsbMsdAssumption` and `Matched`: the host is patient (`Env = {}`, as section 5 shows to
be needed) and asks for data of the length and in the direction that the command in its
CBW says, as the commands of the run do; they may still be more or less than the device
has:

- `InvariantHolds`, `TypeCorrect`: the inductive invariant, and with it that no `ASSERT` of
  the state machine fails;
- `ResidueIsSafeHolds`, `NeverLeftWaitingHolds`: the invariants of the run `usb_msd`;
- `ImplementsBlockDeviceHolds`: `Spec => Device!Spec`, the refinement.

The invariant has a part for each state of the transport (`AtIdle` to `AtAbort`), which
says what has become of the command under way.  In a read, `Returned(n)` of its blocks
have reached the host, n being the length it asked for less the residue, and the piece
that waits starts at the next block; in a write, `Written(n)` have reached the medium.  A
status of success is sent only when n is the whole length (`AtStatus`), so the residue is
never less than what is missing, and a `PASS` that the host reads is an `Answer` of
`BlockDevice`. A piece that is received is a `Store`, of blocks in the range of the
command (`StoresPiece`); a reset is a `GiveUp`; every other step stutters
(`StepsAsDevice`).

### EnvmUsersProofs: the eNVM driver beside them

For every set of services, of eNVM calls, of protections and of devices, from
`NvmAssumption`, `ServicesAssumption` and `ComblkAssumption`, and from `Careful`: no
call of the eNVM driver while an ISP goes on, no unlocking that reaches
the second block, and none at byte 0 where the area it is in is protected.  Section 5 has
a violation for each of the three:

- `UInvariantHolds`: the inductive invariant `UInv`;
- `WritesWhatWasAskedHolds`, `CommandsAreSafeHolds`: the invariants of `Nvm` that the run
  `envm_users` checks;
- `RegistersRestoredHolds`: the part of `EnvmLeftAsFound` that is about `ENVM_CR`.

With `Legible` and `Steady` of the services, whose invariant the eNVM driver does not disturb:

- `EnvmLeftAsFoundHolds`: the invariant of the run `envm_users`, whole;
- `CallsAreServedBeside`: `CallsAreServed` for the program with the eNVM driver in it.

`Setting` says who has overwritten `ENVM_CR`: a programming service, or the ISP it has
left behind, and then the setting of the design is in `svc.saved`; or a call of the eNVM
driver (`AtCall`), and then it is in `nvm.saved`; never both, since the calls exclude each
other and `Plan` and `Flag` keep a second service from being sent while the ISP goes on.
`AtWork` says how far a write is: the bytes before the offset are written, and those of
the page at hand as well while it is verified.  That each command is safe is arithmetic:
the block and the page of an offset make the page that is meant (`PageInBlock`),
`CheckProtection` looks at areas that begin and end with pages (`LayoutInPages`,
`CheckedIsPermitted`), and the page buffer is whole (`BufferIsWhole`).

### AudioProofs

For every number of devices, instances, users, images, blocks and accesses, from `HbiAssumption`
and `AudioAssumption`:

- `LayersAgreeHolds`: the invariant of `Hbi` that the run `audio` checks, for every number of
  instances that a device may have.

From `PerDev = 1`, as the library is built (`HBI_MAX_INST_PER_DEV`):

- `NothingLeaksHolds`.  With a second instance of a device the caller of `TW_Audio_Init` could
  get another and lose its first, as section 5 shows.

From `"improper" \notin Env`, accesses that the interface is for:

- `UnderstoodAsMeantHolds`.  Commands that were given up on may end at any time.

From `"overlap" \notin Env`, no such command ending while the next image is sent:

- `FirmwareIsWholeHolds`.  Accesses may be improper.

Section 5 has a violation for each of the three.  They stand on five invariants.  `Agrees`
says of the three layers that their tables are `Tied`, users to devices to ports to
masters, and `Counted`; it is stated for any state of them, so that it is enough to show
that it is kept by each of `HBI_init`, `HBI_open`, `HBI_close` and `HBI_term` (`InitDoes`
to `TermDoes`, with a lemma each for a user more or less and a device more or less), and
that the functions reach no other state (`AgreesStep`). `Booked` adds how many
initialisations and instances there are, one for each user and for the caller: that a
failed function gives back its own and nobody else's is arithmetic over `HBI_close` and
`HBI_term` called twice, or on a handle that is closed already (`BookedEnds`). `Boxed`
relates the step of the driver to the mailbox: what it waits for is in the mailbox, or was
executed last, and nothing can be executed between a parameter and its command. `Linked`
says that the chip has done what was meant and has one of its 256 pages selected; it rests
on `FrameIsExact`, that the words of a frame mean the access they were made of, which is
arithmetic over the fields of a 16-bit word (`WordHolds`, `DirectHeard`, `PagedHeard`).
`Built` says that an image being sent has its first i blocks in the RAM, and that nothing
runs from the first one on.

Where a theorem has a hypothesis, the MC module of the run assumes it of its
instance, so that TLC evaluates it.

### UsbHostMscProofs

For every set of devices (`Kinds`), any number of plugs (`MaxPlugs`) and every length of
the waits (`Short`), from `UsbHostAssumption` and from `Punctual`: the task is called in
each tick, no earlier than a transaction can end (no `lag`, no `early`), a device that is
being reset is not resumed (no `wake`), and no event of the class is left by the last disk
(no `stale`).  Section 5 has a violation for each of the four; `nak`, a device that is
busy for longer than the time-out, is allowed.  `UsbHost.cfg` has an instance of it.

- `HostInvariantHolds`: the inductive invariant `IInv`;
- `SpeaksInTurnHolds`, `DiskNotRefusedHolds`: the invariants that the run `usb_host` checks.

Three state machines share one control pipe, and a device may go and another come between
any two of their states.  `PipeInv` says that a transfer under way has a transaction on
the bus or the event of its end, never both, and somebody who waits for it (`Asked`); only
a disconnection leaves an event behind.  `HostInv` says whose the device is, and that the
bus is in reset only while the tick that ends the reset can still be seen by the state
machine that looks for it (`Held`): this is what `lag` and `wake` break.  From the
plugging in of a device to its reset nothing answers, and `UnansweredInv` keeps an
enumeration that is under way for the device before in its first transaction; so none of
its answers is taken for the new device's.  From there `EnumInv` follows a disk through
the states of the enumeration, with its address (`AddressInv`) and its descriptors, and
`ControlInv` through the control requests of the class.

The class has one event for the end of a write and one for the end of a read.  Each phase
of a command clears the event it has waited for, but `READ_CAPACITY`, which clears the
other one, and a release of the device clears none.  `ScsiInv` says which events may be
left: after a device has been replaced any of a write, so that the host may ask before its
command is out, and the device, which has not got it, keeps the host waiting; with the
first device only that of `READ_CAPACITY`, after which the set-up has no other command.
`PlugInv` relates this to the number of plugs.  `RequestInv` says on which pipe a request
of the application is, and what is left of it while it waits to be tried again after a NAK
time-out.

### UsbControlProofs

For every packet size of endpoint 0 of at least 8 bytes, every set of requests of
`Regular` form, and any number of bus events (`MaxBus`) and of transfers given up
(`MaxAborts`), from `UsbControlAssumption`, from `DescriptorLengths` (a fact about
constants, which TLC evaluates: the descriptors have a length) and from `Overlap = {}`: an
interrupt is served before the next move of the host.  Section 5 has a violation for each
member of `Overlap`.  `Regular` is the form that chapter 9 gives the requests: addresses
below 128, a configuration of a byte, the lengths of the statuses, and a request for data
asks for some.

- `CoreHolds`: the inductive invariant `Core`, for every build;
- `AnswerIsRightHolds`, `ReadyForSetupHolds`: the invariants that the run `usb_control`
  checks, for every build;
- `StateInStepHolds`: its third, for builds that fit (`AllFit`): the class configures both
  directions of endpoint 1, so that the halts are set back, and the endpoints that pass
  the tests of the driver are those of the descriptor.  Of the five classes at either
  speed one does not fit, and section 5 has it: the printer on a bus at full speed.

The run has the same hypotheses: MCUsbControl assumes `Regular` and `AllFit` of its
requests and builds, and TLC evaluates them.

The driver holds the stage of a transfer in five places (the state of the endpoint, its
buffer and counts, the status of the last packet, the FIFO and the bits of the core), and
the host holds it in a sixth; `CepInv` says that together they are in one of five stages.
In `ToAnswer` the SETUP packet waits in the FIFO; in `Sending` what the host has and what
is in the FIFO add up to what is counted, and only the last packet is short; in
`Receiving` the class has nothing yet or one full packet; in `Ended` only the status stage
is left; in `Refused` the host is still to see the STALL.  Between transfers `IdleInv`
says what a transfer given up may leave: an answer in part, for which an interrupt is
pending that arms the endpoint again, and nothing in the FIFO.  The address is written to
the core one interrupt after the answer to `SET_ADDRESS` and the host may have given up on
that answer, so `AddressInv` has three addresses.  `LevelInv` says what the state of the
device is once the pending events of the bus are served (`Served`), so that it holds while
they wait, too.  `ConfigInv` does so for the endpoints: they are those of the application
alone, or with those of the class that pass the tests in their place.

### AppProofs: the application

For every set of commands, every size of the memory and any number of commands
(`MaxCmds`), from `AppAssumption` and

- `Unhurried`: the host waits for the end of a bulk write, sends nothing before `main` is
  in its loop, makes no demo selection between the halves of another change of a pin, and
  the loop-back starts; a camera may still fail to acknowledge a write.  Section 5 has a
  violation for each of the four;
- `Proper`: bulk commands stay within the memory, with all the words that they go over,
  the audio is started or stopped (1 or 2), and the command that asks for the version of
  the fabric, whose handler writes the sharpness as well (main.c:377), carries the
  sharpness that is set;
- `Trigonometric`, a fact about the two tables, which TLC evaluates:

- `CommandsObeyedHolds`: the invariant that the run `app` checks.

The run has the same hypotheses: MCApp assumes them of its constants.

A command is in one of four places: in the OUT endpoint, in the interrupt, in the reply
that the DMA is to copy, and in the reply that the host is to take; `Exchange` says that
the one that the host waits for is in one of them, alone, and that from the third on it
has been executed (`Replied`).  A bulk write is in one of the first two, and `Memory` says
what the host's copy of the memory owes to it, and that the words a packet carries are in
`g_rx_data` when it is executed: each word that the host knows is what it wrote there
last.  `Effect` is what each of the fifteen commands leaves, answers and sets, and that it
sets nothing else.  Against `main` there is `Booted`: of what main does, the tables and
the output of the multiplexer's pin come before the loop and stay; and `PinsKept`: between
the halves of a change of a pin GPIO_OUT is as it was read, so that `main`, which changes
the other pins, writes the multiplexer's back as the host left it.  The lemmas before
these compute `Program`, which is put together from five sequences, at each of its 57
places.

### Only model-checked

Two invariants that the runs check have no theorem: `TransferIsWhole` and
`EndsAsConfigured` of `UsbEndpoint`, a module that declares a RECURSIVE operator,
`BytesOf`, for its properties, and so can hold no theorem.  Nor has any liveness property,
among them that a service asked for is replied to and returns (`ImplementsServiceCall` in
`envm_users`), that a device is served or refused and that a request ends (`usb_host`):
TLAPS proves nothing about ENABLED.  No result needs induction over data.

## 5. Findings and known divergences

The following are places where the code does not stand something its interface
allows, or where two paths of it disagree.  The runs leave them out, and each can be
reproduced by the change of a constant that is named, which makes TLC violate
the statement.  Where the MC module assumes the hypothesis of a theorem, that assumption goes
with it:

| Where | What happens | Change | Violates |
|---|---|---|---|
| `mss_hpdma.c:175` | the loop of `MSS_HPDMA_start` shares its index with the interrupt: a chunk is copied twice | `Hpdma.cfg`: `Preempt = TRUE`, `MaxChunks = 1` | `CopiedInOrder` |
| `mss_hpdma.c:334` | the counter of descriptors runs to N before it wraps: the chunk 2N + 1, of a transfer of more than 512 KB, is lost and the transfer reported as completed | `Hpdma.cfg`: `MaxChunks = 9` | `CompletedMeansCopied` |
| `mss_spi.c:1231` | the recovery from an overflow resets the block, and the end of the packet with it if that is pending: the next packet is appended to this one | `Spi.cfg`: `Env = {"behind"}` | `PacketIsWhole` |
| `mss_spi.c:1192` | RXDONE is cleared after its frames have been read (1160): a last frame that comes in between stays in the FIFO, and in frame mode, where no end of a packet is served, its handler is called only when another frame comes | in `PacketIsWhole`, `h.rx = <<>>` for `h.rx # <<>> => log.missed` | `PacketIsWhole` |
| `mss_spi.c:1208` | in the same way TXDONE, if it is cleared later than the frames just loaded have gone: no interrupt asks for more, and the FIFO runs empty | `!.fault = @` in `Cleared` | `ReadIsRight` |
| `mss_spi.c`, the slave's SSEND | a master that selects the slave again before it has served the end of the packet gets the two packets run together | `Env = {"soon"}` | `PacketIsWhole` |
| `mss_spi.c:1231` | the recovery restores the CONTROL registers and not COMMAND: a slave with nothing to send no longer fills its frames automatically | `HasToSay` taken out of `ReadIsRight` | `ReadIsRight` |
| `mss_spi.c:913` | `MSS_SPI_set_cmd_handler` with no handler allows zeros and does not refill the FIFO: with a buffer of less than half a FIFO, the next transaction empties it before any interrupt asks for more | `Spi.cfg`: `Depth = 8`, `TxSizes = {2}` | `ReadIsRight` |
| `mss_spi.c:1026` | `MSS_SPI_set_transfer_byte_count` enables the block, so that a DMA starts at once (`mss_spi.h:204` says: once re-enabled through `MSS_SPI_enable`) | the invariant `m.pc = "started" => bus.n = m.base` | itself |
| `mss_i2c.c:1004` | a request that loses arbitration to a reader of this device is neither pended nor failed, as it is at 847-850 for a writer | `I2cLive.cfg`: `Hazards = {"SLARW_LA"}` | `RequestNeverLost` |
| `mss_comblk.c:587` | a byte 0xF1 inside an answer is taken for a digest error and ends the command without its handler (530-534 calls it) | `Comblk.cfg`: `Requests <- MCPointers`, `Hazards = {"DIGEST_BYTE"}` | `NotStranded` |
| `mss_sys_services.c:955` | after an ISP the flag stays set (compare 2024), so that the next service waits for ever | `EnvmUsers.cfg` | `WaitIsServed` |
| `mss_sys_services.c:1000` | an ISP that ends in the middle of an eNVM write puts the frequency setting back under it | `EnvmUsers.cfg`: `"ISP_AND_NVM"` added to `Hazards` | `CommandsAreSafe` |
| `mss_sys_services.c:402`, `1083` | a freeze, or an IAP, asked for while the fabric is frozen keeps the divisors of the standby clock for those of the design | `"REFREEZE"` added to `Hazards` | `EnvmLeftAsFound` |
| `mss_sys_services.c:944` | an ISP that programs clears the divisors at its first page; behind it nothing puts them back (compare 1112-1143 for IAP) | `StartIsp("isp_program", 2)` added to `MCServices` | `EnvmLeftAsFound` |
| `mss_sys_services.c:889` | `MSS_SYS_zeroize_device` waits for ever on a device in which zeroization is not enabled (886 says the case is handled): with room for no answer, none ends the command | `Zeroize` added to `MCServices` | `ImplementsServiceCall` |
| `mss_nvm.c:365` | `NVM_unlock` takes page 2048, the first of the second block, for one of the first | a call of `NvmCalls` that unlocks at 262144 | `CommandsAreSafe` |
| `mss_nvm.c:990` | byte 0 of a protected lower area is not looked at, nor is the end of what is written | a call that writes at 0 | `CommandsAreSafe` |
| `mss_usb_device.c:1097` | class data of more than two packets is ended after the second (1066 says otherwise) | `UsbControl.cfg`: `Requests <- LongRequests` | `DesiredDataArrived` |
| `mss_usb_device.c:950` | a reset or an unplugging while `SET_ADDRESS` waits: the address is set after the reset | `UsbControl.cfg`: `Overlap = {"delay"}` | `ReadyForSetup` |
| `mss_usb_common_cif.c:262` | a SETUP packet that comes before the last interrupt is served takes its place: the answer of the request before is sent for the new one; an answer given up when it is complete leaves its stage behind | `Overlap = {"setup"}`; `{"late"}` | `AnswerIsRight`; `ReadyForSetup` |
| `mss_usb_common_cif.c:154` | two bus events at once are served in the order of the code, not of the bus | `Overlap = {"events"}` | `StateInStep` |
| `mss_usb_device.c:2281` | the DMA handler of a transmit endpoint asks for the mode of the receive endpoint of the same number: a printer that writes before it has prepared a read ends whole packets with a ZLP | `UsbEndpoint.cfg`: `Env = {"early"}` | `EndsAsConfigured` |
| `mss_usb_device.c:2287` | the DMA handler waits for the last packet to go, with every interrupt held back: if the endpoint has been halted meanwhile it waits for ever | `Env = {"wait"}` | `TransferEnds` |
| `mss_usb_device.c:210`, `246` | a halt is cleared and what the halted transfer left in the FIFO, or in the DMA, goes out first | `Env = {"left"}` | `TransferIsWhole` |
| `mss_usb_device_vendor.c:294` | at high speed the bulk endpoints get the packet size of the interrupt endpoints, 64, and not that of the descriptor | the exception for `vendor` taken out of `EndpointsInStep` | `StateInStep` |
| `mss_usb_device_printer.c:276`, `mss_usb_device_hid.c` | the FIFOs of a printer's two endpoints share bytes; so do that of the HID class and that its application configures | the last line of `EndpointsInStep` without its condition | `StateInStep` |
| `mss_usb_device_printer.c:276` | initialised at full speed, the 512 bytes of a printer's packets do not pass the test: with `ASSERT` compiled out its endpoints are not configured | `Build("printer", "fs", "fs")` in `MCBuilds` | `StateInStep` |
| `mss_usb_host.c:1433` | the control pipe takes a state without an event for an error: the task, which `mss_usb_host.h:691-693` lets an application call in a loop, must not run before the transaction has ended | `UsbHost.cfg`: `Env = {"early"}`, `Kinds = {"disk"}`, `MaxPlugs = 1` | `ServedOrRefused` |
| `mss_usb_host_msc.c:1047` | the events of the class survive its release, and are taken for those of the next disk | `Env = {"stale"}` | `DiskNotRefused` |
| `mss_usb_host.c:958` | the end of the bus reset is looked for at one value of the clock: a task called late misses it, and the disk is refused | `Env = {"lag"}` | `DiskNotRefused` |
| `mss_usb_host.c:864` | `MSS_USBH_resume` keeps the task waiting for 40 ms: called while a device is being reset, it makes the task miss that value in the same way | `Env = {"wake"}` | `DiskNotRefused` |
| `mss_usb_host.c:2029` | the DMA handler tells the class success when the last packet has left the FIFO, though the target has not taken it; so does the end of the DMA after a packet that no target answered | `UsbEndpoint.cfg`: `Env = {"lost"}` | `TransferIsWhole` |
| `mss_usb_host.c:1844` | a packet of no bytes, which ends the target's data early, is never taken out of the FIFO: the next read never ends | `Env = {"null"}` | `TransferEnds` |
| `mss_usb_host.c:895` | `MSS_USBH_abort_out_pipe` clears AUTOSET, which only the configuration of the pipe sets: a DMA write of a pipe not configured again never ends | `Env = {"bare"}` | `TransferEnds` |
| `mss_usb_host_msc.c:690` | a NAK time-out in the command or data phase is not tried again: the request never ends | `Env = {"nak"}` | `RequestEnds` |
| `mss_usb_device_msd.c`, BMS_RESET | the class reset leaves what waits in the IN FIFO: a host that gave up before the status gets it for its next command | `UsbMsd.cfg`: `Env = {"impatient"}` | `ImplementsBlockDevice` |
| `mss_usb_device_hid.c:361` | a command that arrives while one is executed may be flushed with it | `App.cfg`: `Env = {"stream"}` | `CommandsObeyed` |
| `main.c:206` | a bulk write copies 254 words whatever the packet carries (204, which read the number, is commented out): behind its own words go those of earlier packets, over what the host wrote there before | in `HostSends`, `Filled(host.mem, c.val.addr, c.words)` for `Knows(c)` | `CommandsObeyed` |
| `main.c:344` | the audio is reported as configured though its loop-back failed to start | `Env = {"loopback"}` | `CommandsObeyed` |
| `mss_gpio.c:196` | `MSS_GPIO_drive_inout` writes back the outputs as it read them: a demo selection made by the USB interrupt in between (`main.c:133`, in the loop) is lost | `Env = {"pins"}` | `CommandsObeyed` |
| `main.c:165` | the defaults are written after `MOUSE_init` has started the USB device: they undo what the host has set already | `Env = {"early"}` | `CommandsObeyed` |
| `main.c:377` | the command that asks for the version writes its argument to the sharpness | command 11 with another value than command 4 in `MCCommands` | `CommandsObeyed` |
| `ar0330.c:19` | the status of a write to the sensor is not looked at: one that is not acknowledged leaves another picture than the mode's | `Env = {"nack"}`, `MaxCmds = 1` | `ModeApplied` |
| `audio.c:230` | a second `TW_Audio_Init` takes another instance where the library allows a device more than one, and nothing closes the first | `Audio.cfg`: `MaxInsts = 2`, `PerDev = 2` | `NothingLeaks` |
| `hbi_tw.c:1094` | `internal_hbi_read` looks at no length: one of 0, or over 256, sets the bit of a write; a direct access from `0xF8` up is a command word | `Audio.cfg`: `Env = {"improper"}` | `UnderstoodAsMeant` |
| `hbi_tw.c:593` | `tw_sleep` reads the result at once: it is that of the command before | `ResultIsOwn` without its exception | `UnderstoodAsMeant` |
| `hbi_tw.c:134` | a host command that was given up on ends while the next image is sent | `Audio.cfg`: `Env = {"overlap"}` | `FirmwareIsWhole` |

`WaitIsServed` does not contradict `ImplementsServiceCall`: a call that
never gets the flag has not been asked yet for `ServiceCall`.

## 6. Not modelled

Left out of the modelled drivers: the layout of each service's descriptor and
answer; `MSS_SYS_zeroize_device`, which resets the device; the reading of the ECC
base point, which calls nothing; the I2C setters of buffers, addresses and user data (called
before the slave is enabled) and the SMBus line functions, which write a register
each.  Two I2C channels share no state, so one is modelled.  Two threads that
call services at once are not modelled: `signal_request_start` tests and sets its
flag in two steps, and only one caller is safe.  The waits of the eNVM driver for a
controller that never becomes ready have no time-out, and the model waits with them.

USB: isochronous endpoints, the test modes, hubs and remote wake-up, which nothing calls.
An interrupt OUT pipe of the host without DMA never ends its transfer
(`mss_usb_host.c:1682` looks at bulk pipes only), and one of no bytes fails an assertion
(1732): the model has bulk pipes and transfers of at least a byte.
The CDC class writes through an uninitialised pointer when its application has no
notification handler (`mss_usb_device_cdc.c:295`, `420`): the model's application has
one.  A bus error of the DMA ends no transfer (`mss_usb_common_cif.c:446`); none happens
here.

Audio: the byte order of the chip's words, the header of a firmware image, which
nothing reads, and the contents of the configuration records.  Of the SPI driver
`Hbi` has the port alone.

Application: a bulk read of more than 1023 bytes, whose count `main.c:224` holds against
nothing, runs over `g_tx_data`: the host of the model asks for what fits (`AppAssumption`).  The
transmitter's table is one step, since nothing depends on its
parts; the sensor's setters that nothing calls (gain, exposure, flip, reset), the
interrupts of pins, Timer 2 and the 64-bit timer.  `sensor_i2c_write_bits` swaps the
bytes of what it reads and writes them back unswapped (`Swapped`, `ar0330.c:33-69`); it does no
harm while `READ_MODE` is 0, as it is after each reset.

Not modelled at all: the arithmetic of clock frequencies, which the program does
not call; C library stubs and generated configuration; the
SDK's examples and tools.  Much of the repository is of that kind: headers with
register definitions and documentation, vendor tables (`m2sxxx.h`) and firmware
images (`ZL38051_P1.3.0.h`), which nothing that TLC or TLAPS can decide is about.
