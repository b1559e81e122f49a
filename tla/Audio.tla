------------------------------- MODULE Audio -------------------------------
(***************************************************************************)
(* The audio functions of the application (audio/audio.c) and the commands *)
(* of the Timberwolf chip they are made of (drivers/hbi/hbi_tw.c), over the *)
(* layers of module Hbi.  A host command is written to the chip's mailbox,  *)
(* the chip executes it in its own time, and the driver polls, up to a       *)
(* limit: a command given up on may still end later.  One thread calls the   *)
(* functions; another part of the program may use the library in between.    *)
(***************************************************************************)
EXTENDS Hbi, HbiFrame

CONSTANTS
  Chunks,    \* how many blocks the firmware image is sent in
  MaxImages, \* bound: images that the flash holds
  Slave,     \* dev_id
  Others,    \* the other users of the library
  Accesses,  \* the accesses of registers that callers make (HbiFrame)
  Env        \* what else happens: "overlap", a command that was given up on ends
             \*   while the next image is being sent; "improper", accesses that the
             \*   interface is not for

ASSUME AudioAssumption ==
  /\ Chunks \in Nat \ {0} /\ MaxImages \in Nat /\ Slave \in Slaves /\ IsFiniteSet(Others)
  /\ \A a \in Accesses : IsAccess(a)

VARIABLES
  cpu,   \* fn, the audio function being executed; at, the step it is at; cmd, the HBI
         \*   command and now, the host command it executes; i, the blocks sent
  audio, \* handle, the static handle of audio.c; usable, whether the statuses returned
         \*   so far leave the caller with an open device
  other, \* what each other user has: "none", "init" or its open handle
  chip,  \* app, its firmware runs; ram, the blocks of an image in its RAM; images, those
         \*   in its flash; flag, the notice in HOST_SW_FLAGS; reg, HOST_CMD; result, the
         \*   command that wrote HOST_CMD_PARAM_RESULT, or "param", and what it wrote
  link   \* page, the page that the chip has selected; done, what it did for the last
         \*   access of a caller; meant, what that caller meant

vars == <<lay, cpu, audio, other, chip, link>>

Image == 1..Chunks

\* HBI_CMD_* -> HOST_CMD_*
HostCmd == [LOAD_FWR_COMPLETE |-> "HOST_LOAD_CMP", START_FWR |-> "FWR_GO",
            ERASE_WHOLE_FLASH |-> "ERASE_FLASH_INIT",
            LOAD_FWRCFG_FROM_FLASH |-> "IMG_CFG_LOAD",
            SAVE_FWRCFG_TO_FLASH |-> "IMG_CFG_SAVE",
            ERASE_FWRCFG_FROM_FLASH |-> "IMG_CFG_ERASE"]
OverFlash == {"ERASE_WHOLE_FLASH", "LOAD_FWRCFG_FROM_FLASH", "SAVE_FWRCFG_TO_FLASH",
              "ERASE_FWRCFG_FROM_FLASH"}
\* Commands that a caller with a handle gives by itself, as hbi_ldfwcfg.c does.
Direct == {"SAVE_FWRCFG_TO_FLASH", "ERASE_FWRCFG_FROM_FLASH"}
\* What HOST_CMD_PARAM_RESULT has to hold for a host command: an image number, or
\* the key of the erasure.
Param == [IMG_CFG_LOAD |-> "image", IMG_CFG_ERASE |-> "image", ERASE_FLASH_INIT |-> "AA55"]
Functions == {"Init", "DeInit", "Erase", "Loopback", "SF2I2S"}

Idle == [fn |-> None, at |-> "idle", cmd |-> None, now |-> None, i |-> 0]

\* The chip after a reset from outside: it starts the first image of its flash.
PoweredOn(n) ==
  [app |-> n > 0, ram |-> IF n > 0 THEN Image ELSE {}, images |-> n,
   flag |-> None, reg |-> "IDLE", result |-> [of |-> None, val |-> "ok"]]

Init ==
  /\ LayersInit
  /\ cpu = Idle
  /\ audio = [handle |-> 0, usable |-> FALSE]
  /\ other = [o \in Others |-> None]
  /\ \E n \in 0..MaxImages : chip = PoweredOn(n)
  /\ link = [page |-> 0, done |-> NoAccess, meant |-> NoAccess]

---------------------------------------------------------------------------
(* How an audio function ends: with a status that leaves the device as it   *)
(* was, or after HBI_close and HBI_term.                                     *)

EndsWith(l, usable) ==
  /\ cpu' = Idle /\ lay' = l
  /\ audio' = [audio EXCEPT !.usable = usable]

ClosedOnce(l) == HBI_term(HBI_close(l, audio.handle).lay).lay

\* TW_Audio_Erase closes once more what TW_Audio_DeInit has closed.
Closed == IF cpu.fn = "Erase" THEN ClosedOnce(ClosedOnce(lay)) ELSE ClosedOnce(lay)

EndsOpen == EndsWith(lay, audio.usable)

EndsNotTermed == \* mutant: the error path forgets HBI_term
  EndsWith(HBI_close(lay, audio.handle).lay, FALSE)

EndsClosed == EndsWith(Closed, FALSE)

\* tw_boot_conclude does not look at the mode of the chip.
FirstStep(cmd) == IF cmd = "LOAD_FWR_COMPLETE" THEN "acquire" ELSE "mode"

\* internal_hbi_set_command: the first step of each command.
Gives(cmd) ==
  /\ cpu' = [cpu EXCEPT !.cmd = cmd,
                        !.now = IF cmd \in OverFlash THEN "HOST_FLASH_INIT"
                                ELSE IF cmd \in DOMAIN HostCmd THEN HostCmd[cmd] ELSE None,
                        !.at  = FirstStep(cmd)]
  /\ UNCHANGED <<lay, audio>>

\* What the function does when the command returns.
BlockSentOneShort == \* mutant: the loop ends before the last block
  IF cpu.i + 2 < Chunks
  THEN /\ cpu' = [cpu EXCEPT !.i = @ + 1, !.at = "mode"] /\ UNCHANGED <<lay, audio>>
  ELSE Gives("LOAD_FWR_COMPLETE")

BlockSent ==
  IF cpu.i + 1 < Chunks
  THEN /\ cpu' = [cpu EXCEPT !.i = @ + 1, !.at = "mode"] /\ UNCHANGED <<lay, audio>>
  ELSE Gives("LOAD_FWR_COMPLETE")

Succeeds ==
  CASE cpu.cmd = "LOAD_FWR_FROM_HOST"     -> BlockSent
    [] cpu.cmd = "LOAD_FWR_COMPLETE"      -> /\ cpu' = [cpu EXCEPT !.at = "config"]
                                             /\ UNCHANGED <<lay, audio>>
    [] cpu.cmd = "LOAD_FWRCFG_FROM_FLASH" -> Gives("START_FWR")
    [] cpu.cmd = "ERASE_WHOLE_FLASH"      -> EndsClosed
    [] OTHER                              -> EndsOpen

Failing == IF cpu.fn = "Direct" THEN EndsOpen ELSE EndsClosed

---------------------------------------------------------------------------
(* The audio functions.                                                     *)

\* TW_Audio_Init and TW_Audio_Erase open the device first.
Opened(l) == HBI_open(HBI_init(l).lay, Slave)

OpenFirst(fn) ==
  LET o == Opened(lay)
  IN IF o.status # "SUCCESS"
     THEN EndsWith(HBI_term(o.lay).lay, audio.usable)
     ELSE /\ lay' = o.lay
          /\ audio' = [audio EXCEPT !.handle = o.handle, !.usable = TRUE]
          /\ cpu' = IF fn = "Init" THEN [Idle EXCEPT !.fn = fn, !.at = "count"]
                    ELSE [Idle EXCEPT !.fn = fn, !.at = "mode", !.cmd = "ERASE_WHOLE_FLASH",
                                      !.now = "HOST_FLASH_INIT"]

\* The others read the product code first and return if they cannot.
FirstCommand == [DeInit |-> "ERASE_WHOLE_FLASH", Loopback |-> "LOAD_FWRCFG_FROM_FLASH",
                 SF2I2S |-> "START_FWR"]

CallWith(fn, cmd) ==
  IF ~Reaches(lay, audio.handle) THEN UNCHANGED <<lay, cpu, audio>>
  ELSE /\ cpu' = [fn |-> fn, at |-> "mode", cmd |-> cmd, i |-> 0,
                  now |-> IF cmd \in OverFlash THEN "HOST_FLASH_INIT" ELSE HostCmd[cmd]]
       /\ UNCHANGED <<lay, audio>>

\* TW_Audio_Erase calls HBI_term twice for one HBI_init, and the others, called
\* without a device, use the stale handle, and close it: with another user of the
\* library each would take what is that user's.
Alone == \A o \in Others : other[o] = None

\* SF2I2S does not look first: its command fails, and then so does HBI_close.
Call(fn) ==
  /\ cpu = Idle
  /\ fn # "Init" => Alone \/ (fn # "Erase" /\ audio.usable)
  /\ CASE fn \in {"Init", "Erase"} -> OpenFirst(fn)
       [] fn = "SF2I2S" /\ ~Reaches(lay, audio.handle) -> EndsWith(ClosedOnce(lay), FALSE)
       [] OTHER -> CallWith(fn, FirstCommand[fn])
  /\ UNCHANGED <<other, chip, link>>

CallDirect(cmd) ==
  /\ cpu = Idle /\ audio.usable
  /\ CallWith("Direct", cmd)
  /\ UNCHANGED <<other, chip, link>>

\* TW_Audio_Init reads how many images the flash holds.
Count ==
  /\ cpu.at = "count"
  /\ IF chip.images = 1 THEN EndsOpen
     ELSE /\ cpu' = [cpu EXCEPT !.at = "mode", !.cmd = "LOAD_FWR_FROM_HOST"]
          /\ UNCHANGED <<lay, audio>>
  /\ UNCHANGED <<other, chip, link>>

\* The configuration records, and those of the I2S loop-back: writes of one
\* register each, of page 2.
ConfigWrite == [op |-> "write", addr |-> 512, size |-> 2]

Config ==
  /\ cpu.at = "config"
  /\ EndsOpen
  /\ link' = [link EXCEPT !.page = Receives(@, Frame(ConfigWrite)).page]
  /\ UNCHANGED <<other, chip>>

---------------------------------------------------------------------------
(* The commands of hbi_tw.c.                                                *)

\* tw_chk_dev_boot_rom_mode, and what each command does about the mode.
InBootMode(k) ==
  CASE k.cmd = "LOAD_FWR_FROM_HOST" -> [k EXCEPT !.at = "send"]
    [] OTHER                        -> [k EXCEPT !.at = "acquire"]

\* tw_start_fwr_from_ram wants the chip in its boot ROM and does not take it there.
OnlyInBootMode(cmd) == cmd = "START_FWR"

CheckMode ==
  /\ cpu.at = "mode"
  /\ CASE ~chip.app -> cpu' = InBootMode(cpu) /\ UNCHANGED <<lay, audio>>
       [] chip.app /\ OnlyInBootMode(cpu.cmd) -> Failing
       [] OTHER -> cpu' = [cpu EXCEPT !.at = "reset"] /\ UNCHANGED <<lay, audio>>
  /\ UNCHANGED <<other, chip, link>>

\* tw_reset(RST_TO_BOOT): after 50 ms the chip answers D3D3 from its boot ROM,
\* with what was loaded still in RAM; or it does not.
Reset ==
  /\ cpu.at = "reset"
  /\ \/ /\ chip' = [chip EXCEPT !.app = FALSE, !.flag = None, !.reg = "IDLE",
                                !.result = [of |-> None, val |-> "D3D3"]]
        /\ cpu' = InBootMode(cpu) /\ UNCHANGED <<lay, audio>>
     \/ Failing /\ UNCHANGED chip
  /\ UNCHANGED <<other, link>>

\* tw_boot_write: a block that meets running firmware spoils it.  The blocks are
\* frames too, with page selections of their own.
SendBlock ==
  /\ cpu.at = "send"
  /\ chip' = [chip EXCEPT !.ram = IF chip.app THEN {} ELSE @ \cup {cpu.i + 1}]
  /\ \E p \in {link.page, 255} : link' = [link EXCEPT !.page = p]
  /\ Succeeds
  /\ UNCHANGED other

\* tw_wr_cmdreg: wait for the mailbox, write the command and its notice.
IssueAtOnce == \* mutant: tw_mbox_acquire is left out
  /\ cpu.at = "acquire"
  /\ chip' = [chip EXCEPT !.reg = IF @ = "IDLE" THEN cpu.now ELSE @, !.flag = "HOST_CMD"]
  /\ cpu' = [cpu EXCEPT !.at = "await"]
  /\ UNCHANGED <<lay, audio, other, link>>

\* tw_sleep has a notice of its own, and reads the result at once.
Issue ==
  /\ cpu.at = "acquire" /\ chip.flag # "HOST_CMD"
  /\ chip' = [chip EXCEPT !.reg = cpu.now,
                          !.flag = IF cpu.cmd = "SLEEP" THEN "APP_HOST_CMD" ELSE "HOST_CMD"]
  /\ cpu' = [cpu EXCEPT !.at = IF cpu.cmd = "SLEEP" THEN "result" ELSE "await"]
  /\ UNCHANGED <<lay, audio, other, link>>

\* tw_mbox_acquire or tw_cmdreg_acquire has polled often enough.
GiveUp ==
  /\ \/ cpu.at = "acquire" /\ chip.flag = "HOST_CMD"
     \/ cpu.at = "await" /\ chip.reg # "IDLE"
  /\ Failing
  /\ UNCHANGED <<other, chip, link>>

\* tw_cmdreg_acquire finds the command executed; tw_cmdresult_check reads its
\* result, and the command returns or, its flash being ready, goes on.
Awaited ==
  /\ cpu.at = "await" /\ chip.reg = "IDLE"
  /\ cpu' = [cpu EXCEPT !.at = "result"]
  /\ UNCHANGED <<lay, audio, other, chip, link>>

\* tw_init_check_flash returns: the command itself, with its parameter.
FlashReady ==
  LET cmd == HostCmd[cpu.cmd]
  IN /\ cpu' = [cpu EXCEPT !.now = cmd,
                           !.at = IF cmd \in DOMAIN Param THEN "param" ELSE "acquire"]
     /\ UNCHANGED <<lay, audio>>

CheckResult ==
  /\ cpu.at = "result"
  /\ CASE chip.result.val # "ok" \/ cpu.now = "IMG_CFG_ERASE" -> Failing
       [] chip.result.val = "ok" /\ cpu.now = "HOST_FLASH_INIT" -> FlashReady
       [] OTHER -> Succeeds
  /\ UNCHANGED <<other, chip, link>>

\* The register of the result is that of the parameter.
WriteParam ==
  /\ cpu.at = "param"
  /\ chip' = [chip EXCEPT !.result = [of |-> "param", val |-> Param[cpu.now]]]
  /\ cpu' = [cpu EXCEPT !.at = "acquire"]
  /\ UNCHANGED <<lay, audio, other, link>>

---------------------------------------------------------------------------
(* What else a caller with a device asks of the library.                    *)

HasDevice == cpu = Idle /\ audio.usable /\ Reaches(lay, audio.handle)

\* HBI_sleep
Sleep ==
  /\ HasDevice
  /\ cpu' = [fn |-> "Direct", at |-> "acquire", cmd |-> "SLEEP", now |-> "APP_SLEEP", i |-> 0]
  /\ UNCHANGED <<lay, audio, other, chip, link>>

\* HBI_reset(HBI_RST_POR), the one mode that internal_hbi_reset takes; the driver
\* waits five seconds and looks at nothing.
HardReset ==
  /\ HasDevice
  /\ chip' = PoweredOn(chip.images)
  /\ link' = [link EXCEPT !.page = 0]
  /\ UNCHANGED <<lay, cpu, audio, other>>

\* SSL_port_rw and hal_port_rw: one chip select for the words of a frame.
Sent(a) == Receives(link.page, Frame(a))

\* HBI_read and HBI_write
Access(a) ==
  /\ HasDevice /\ ~Refused(a)
  /\ Proper(a) \/ "improper" \in Env
  /\ link' = [page |-> Sent(a).page, done |-> Sent(a).done, meant |-> Meant(a)]
  /\ UNCHANGED <<lay, cpu, audio, other, chip>>

---------------------------------------------------------------------------
(* The chip and the other users.                                            *)

\* What it does when it does as it is told.
Executed(c) ==
  CASE c.reg = "FWR_GO"           -> [c EXCEPT !.app = TRUE]
    [] c.reg = "IMG_CFG_LOAD"     -> [c EXCEPT !.ram = Image]
    [] c.reg = "IMG_CFG_SAVE"     -> [c EXCEPT !.images = @ + 1]
    [] c.reg = "IMG_CFG_ERASE"    -> [c EXCEPT !.images = @ - 1]
    [] c.reg = "ERASE_FLASH_INIT" -> [c EXCEPT !.images = 0]
    [] OTHER                      -> c

CanExecute(c) ==
  CASE c.reg = "FWR_GO"        -> c.ram # {}
    [] c.reg = "IMG_CFG_SAVE"  -> c.ram # {} /\ c.images < MaxImages
    [] c.reg \in {"IMG_CFG_LOAD", "IMG_CFG_ERASE"} -> c.images > 0
    [] c.reg = "APP_SLEEP" -> c.app
    [] OTHER                   -> TRUE

Execute ==
  /\ chip.flag # None
  /\ cpu.at \in {"await", "acquire", "idle"} \/ cpu.cmd = "SLEEP" \/ "overlap" \in Env
  /\ \E val \in {"ok", "bad"} :
       /\ val = "ok" => CanExecute(chip)
       /\ chip' = [(IF val = "ok" THEN Executed(chip) ELSE chip)
                     EXCEPT !.flag = None, !.reg = "IDLE",
                            !.result = [of |-> chip.reg, val |-> val]]
  /\ UNCHANGED <<lay, cpu, audio, other, link>>

\* Another user initialises the library, opens the device, closes it and is done.
OtherInit(o) ==
  /\ cpu = Idle /\ other[o] = None
  /\ lay' = HBI_init(lay).lay
  /\ other' = [other EXCEPT ![o] = "init"]
  /\ UNCHANGED <<cpu, audio, chip, link>>

OtherOpen(o) ==
  /\ cpu = Idle /\ other[o] = "init"
  /\ LET r == HBI_open(lay, Slave)
     IN /\ lay' = r.lay
        /\ other' = [other EXCEPT ![o] = IF r.status = "SUCCESS" THEN "open" ELSE @]
  /\ UNCHANGED <<cpu, audio, chip, link>>

OtherClose(o) ==
  /\ cpu = Idle /\ other[o] = "open"
  /\ \E h \in DOMAIN lay.hbi.inst : /\ audio.usable => h # audio.handle
                                    /\ lay' = HBI_close(lay, h).lay
  /\ other' = [other EXCEPT ![o] = "init"]
  /\ UNCHANGED <<cpu, audio, chip, link>>

OtherTerm(o) ==
  /\ cpu = Idle /\ other[o] = "init"
  /\ lay' = HBI_term(lay).lay
  /\ other' = [other EXCEPT ![o] = None]
  /\ UNCHANGED <<cpu, audio, chip, link>>

Command ==
  \/ CheckMode \/ Reset \/ SendBlock \/ WriteParam \/ Issue
  \/ GiveUp \/ Awaited \/ CheckResult

Next ==
  \/ \E fn \in Functions : Call(fn)
  \/ \E cmd \in Direct : CallDirect(cmd)
  \/ \E a \in Accesses : Access(a)
  \/ Sleep \/ HardReset
  \/ Count \/ Config \/ Command \/ Execute
  \/ \E o \in Others : OtherInit(o) \/ OtherOpen(o) \/ OtherClose(o) \/ OtherTerm(o)

Spec == Init /\ [][Next]_vars

---------------------------------------------------------------------------
(* Properties.                                                              *)

\* Whatever the functions return, nothing is held or lost: between two calls
\* the library is initialised once for each user that has initialised it and
\* once for a caller whose last status left it a device, and the handle of that
\* caller reaches the device.
NothingLeaks ==
  cpu = Idle =>
    /\ lay.hbi.inits = Cardinality({o \in Others : other[o] # None})
                         + (IF audio.usable THEN 1 ELSE 0)
    /\ audio.usable => Reaches(lay, audio.handle)

\* The result that the driver reads is that of the command it is executing, even
\* after a command that was given up on and ended later.  (tw_sleep does not wait
\* for its result.)
ResultIsOwn == cpu.at = "result" /\ cpu.cmd # "SLEEP" => chip.result.of = cpu.now

\* A command that takes a parameter meets its own in the register that it shares
\* with the results.
ParamIsOwn ==
  chip.flag # None /\ chip.reg \in DOMAIN Param =>
    chip.result = [of |-> "param", val |-> Param[chip.reg]]

\* The chip reads or writes the registers that the caller means, and no others,
\* whatever page an earlier access or a block of an image left selected.
AccessIsExact == link.done = link.meant

\* What the driver means is what the chip does.
UnderstoodAsMeant == ResultIsOwn /\ ParamIsOwn /\ AccessIsExact

\* The firmware that runs is a whole image: no block was left out, and none was
\* written to firmware already running.
FirmwareIsWhole == chip.app => chip.ram = Image
============================================================================
