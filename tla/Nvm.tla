-------------------------------- MODULE Nvm --------------------------------
(***************************************************************************)
(* The eNVM driver (drivers/mss_nvm/mss_nvm.c): writes, unlocks and the     *)
(* counts of writes of pages, under the access to the two controllers that   *)
(* the processor shares with other masters, and under ENVM_CR, which the     *)
(* programming services change too.  Addresses are those of the hardware.    *)
(***************************************************************************)
EXTENDS Integers, EnvmCr

CONSTANTS
  Devices,      \* the values that DEVICE_VERSION may have: see Layout
  Protections,  \* what users may set for the areas 0 to 3: functions to Accesses
  NvmCalls      \* the calls: [op, start, length, lock]

BYTES_PER_PAGE   == 128
WORD             == 4
PAGES_PER_BLOCK  == 2048
NVM1_BOTTOM      == 262144     \* 0x40000
NVM_TOP          == 524287     \* 0x7FFFF
Accesses         == {"rw", "ro", "wo", "none"}
Flags            == {"denied", "lock", "verify", "worn"}
WRITE_ERROR_MASK == Flags \ {"worn"}
Statuses == {"SUCCESS", "PROTECTION_ERROR", "VERIFY_FAILURE", "PAGE_LOCK_ERROR",
             "WRITE_THRESHOLD_WARNING", "IN_USE", "INVALID_PARAMETER"}
Going    == {"SUCCESS", "WRITE_THRESHOLD_WARNING"}

ASSUME NvmAssumption ==
  /\ Protections \subseteq [0 .. 3 -> Accesses]
  /\ Devices \subseteq {"F802", "F803", "F804", "F805", "F806", "F807", "F808"}
  /\ NvmCalls \subseteq [op : {"write", "unlock", "count"}, start : 0 .. NVM_TOP,
                       length : 0 .. NVM_TOP, lock : 0 .. 2]

VARIABLE
  nvm
  \* pc, where the call is; call; device and protection, what it reads of the system
  \*   registers; left, the bytes left to write; page, the next page to unlock;
  \*   ready, whether wait_nvm_ready has read BUSY_B set; status; held,
  \*   g_envm_ctrl_locks; saved, initial_nvm_config
  \* of the controller, flags, what it has met since the page before
  \* and, for the properties, wrote, the ranges of bytes programmed so far; cmd, the
  \*   last command given to a controller, and the page it was meant for; worn,
  \*   whether a page was past its limit

NoCall == [op |-> "none", start |-> 0, length |-> 0, lock |-> 0]
NoCmd  == [block |-> 0, page |-> 0, meant |-> 0, seeded |-> {}, data |-> {},
           envm |-> "programming"]
Idle   == [pc |-> "idle", call |-> NoCall, device |-> "none", protection |-> "none",
           left |-> 0, page |-> 0, ready |-> 0, status |-> "SUCCESS", held |-> {},
           saved |-> "design", flags |-> {}, wrote |-> {}, cmd |-> NoCmd, worn |-> FALSE]

NvmInit == nvm = Idle /\ envm = "design"

---------------------------------------------------------------------------
(* check_protection_reserved_nvm.  Each device has areas that the user may   *)
(* protect, a last byte, and a first byte that is reserved.                   *)

Area(id, from, to) == [id |-> id, from |-> from, to |-> to]
Lower0 == Area(0, 0, 4095)

Device005 == [areas |-> {Lower0, Area(1, 126976, 131071)}, top |-> 131071, reserved |-> 129024]
Device010 == [areas |-> {Lower0, Area(1, 258048, 262143)}, top |-> 262143, reserved |-> 260096]
Device060 == [areas |-> {Lower0, Area(3, 249856, 253951)}, top |-> 262143, reserved |-> 253952]
Device090 == [areas |-> {Lower0, Area(1, 512000, 516095), Area(2, 507904, 512000 - 1),
                         Area(3, 503808, 507903)},
              top |-> 524287, reserved |-> 516096]

Layout(device) ==
  CASE device = "F805" -> Device005
    [] device \in {"F802", "F803", "F804"} -> Device010
    [] device = "F808" -> Device060
    [] device \in {"F806", "F807"} -> Device090

\* A page that may be read may have its writes counted (a length of 0).
ProtectionCheck(access, length) == ~(access = "ro" /\ length = 0)

\* The first byte of the lower area is not looked at.
Meets(a, first, last) ==
  IF a.id = 0 THEN first > a.from /\ first <= a.to
  ELSE first <= a.to /\ last >= a.from

CheckProtectionNotLast(device, protection, offset, length) == \* mutant: the first byte only
  LET l    == Layout(device)
      last == offset
  IN IF \E a \in l.areas : /\ protection[a.id] # "rw" /\ Meets(a, offset, last)
                           /\ ProtectionCheck(protection[a.id], length)
     THEN "PROTECTION_ERROR"
     ELSE IF last > l.top THEN "INVALID_PARAMETER"
     ELSE IF last >= l.reserved THEN "PROTECTION_ERROR" ELSE "SUCCESS"

CheckProtection(device, protection, offset, length) ==
  LET l    == Layout(device)
      last == IF length = 0 THEN offset ELSE offset + length - 1
  IN IF \E a \in l.areas : /\ protection[a.id] # "rw" /\ Meets(a, offset, last)
                           /\ ProtectionCheck(protection[a.id], length)
     THEN "PROTECTION_ERROR"
     ELSE IF last > l.top THEN "INVALID_PARAMETER"
     ELSE IF last >= l.reserved THEN "PROTECTION_ERROR" ELSE "SUCCESS"

---------------------------------------------------------------------------
(* Access to the controllers.                                                *)

Block(offset) == IF offset < NVM1_BOTTOM THEN 0 ELSE 1
Length(call) == IF call.op = "count" THEN 1 ELSE call.length
Asked(call) == call.start .. call.start + Length(call) - 1
Blocks(call) == Block(call.start) .. Block(call.start + Length(call) - 1)

\* A controller is the processor's when asked, or another master holds it until the
\* request times out; then the access to the other controller is given back.
Request ==
  /\ nvm.pc = "request"
  /\ LET b == CHOOSE b \in Blocks(nvm.call) \ nvm.held :
                \A o \in Blocks(nvm.call) \ nvm.held : b <= o
         held == nvm.held \cup {b}
     IN \/ nvm' = [nvm EXCEPT !.held = held,
                              !.pc = IF held = Blocks(nvm.call) THEN "pages" ELSE @]
        \/ nvm' = [nvm EXCEPT !.held = {}, !.status = "IN_USE", !.pc = "end"]
  /\ UNCHANGED envm

---------------------------------------------------------------------------
(* The calls.  Writing and unlocking set ENVM_CR before the parameters are   *)
(* checked, and set it back at the end, whatever happens between.            *)

Invalid(call) ==
  \/ call.start >= NVM_TOP
  \/ call.op # "count" /\ call.length = 0
  \/ call.op = "write" /\ call.lock > 2

\* Silicon that cannot unlock its pages (F802, of revision 0 or 1) locks none.
LockOf(call, device) == IF device = "F802" THEN 0 ELSE call.lock

Begin(call, device, protection) ==
  /\ nvm.pc = "idle"
  /\ LET status == IF Invalid(call) THEN "INVALID_PARAMETER"
                   ELSE CheckProtection(device, protection, call.start,
                                        IF call.op = "count" THEN 0 ELSE call.length)
     IN nvm' = [Idle EXCEPT !.pc = IF status = "SUCCESS" THEN "request" ELSE "end",
                            !.call = [call EXCEPT !.lock = LockOf(call, device)],
                            !.device = device, !.protection = protection, !.left = call.length,
                            !.page = call.start \div BYTES_PER_PAGE,
                            !.status = status, !.saved = envm]
  /\ envm' = IF call.op = "count" THEN envm ELSE "programming"

ErrorCode(flags) ==
  IF "denied" \in flags THEN "PROTECTION_ERROR"
  ELSE IF "lock" \in flags THEN "PAGE_LOCK_ERROR"
  ELSE IF "verify" \in flags THEN "VERIFY_FAILURE"
  ELSE IF "worn" \in flags THEN "WRITE_THRESHOLD_WARNING"
  ELSE "SUCCESS"

\* The status of the call after a page: a warning is kept.
StatusOfLast(status, flags) == ErrorCode(flags) \* mutant: that of the last page

StatusAfter(status, flags) == IF flags = {} THEN status ELSE ErrorCode(flags)

\* How much of what is left fits in the page of the offset.
RemainingPageLength(offset, length) ==
  IF (offset + length) \div BYTES_PER_PAGE >= offset \div BYTES_PER_PAGE + 1
  THEN BYTES_PER_PAGE - (offset % BYTES_PER_PAGE) ELSE length

\* fill_wd_buffer: the words of the page that are not all written are read first.
Seeds(offset, length) ==
  IF length = BYTES_PER_PAGE THEN {}
  ELSE (0 .. WORD * (((offset % BYTES_PER_PAGE) + WORD - 1) \div WORD) - 1) \cup
       (WORD * (((offset + length) % BYTES_PER_PAGE) \div WORD) .. BYTES_PER_PAGE - 1)

Data(offset, length) ==
  LET first == offset % BYTES_PER_PAGE IN first .. first + length - 1

\* The command goes to the controller.
Commanded(cmd, pc) == [nvm EXCEPT !.cmd = cmd, !.pc = pc, !.ready = 0]

\* write_nvm: the page is filled and programmed.
ProgramPage ==
  /\ nvm.pc = "pages" /\ nvm.call.op = "write"
  /\ LET offset == nvm.call.start + nvm.call.length - nvm.left
         n      == RemainingPageLength(offset, nvm.left)
         cmd    == [block |-> Block(offset), page |-> (offset % NVM1_BOTTOM) \div BYTES_PER_PAGE,
                    meant |-> offset \div BYTES_PER_PAGE, seeded |-> Seeds(offset, n),
                    data |-> Data(offset, n), envm |-> envm]
     IN nvm' = [Commanded(cmd, "program") EXCEPT !.wrote = @ \cup {<<offset, offset + n - 1>>}]
  /\ UNCHANGED envm

\* Page 2048, the first one of the second block, is taken for one of the first.
UnlockBlock(page) == IF page > PAGES_PER_BLOCK THEN 1 ELSE 0

\* NVM_unlock: the page is read, unlocked and programmed with what it held.
UnlockPage ==
  /\ nvm.pc = "pages" /\ nvm.call.op = "unlock"
  /\ nvm' = Commanded([block |-> UnlockBlock(nvm.page), page |-> nvm.page, meant |-> nvm.page,
                       seeded |-> 0 .. BYTES_PER_PAGE - 1, data |-> {}, envm |-> envm],
                      "unlock")
  /\ UNCHANGED envm

\* wait_nvm_ready, when the controller gets ready and has met what it has: behind the
\* first word that says so the other bits may be anything (an erratum).
NeededReadsOne == 1 \* mutant: the first word is taken
NeededReads == 2

GetReady(met) ==
  /\ nvm.pc \in {"program", "verify", "unlock", "count"} /\ nvm.ready = 0
  /\ nvm.pc = "count" => met = {}
  /\ nvm' = [nvm EXCEPT !.ready = 1, !.flags = @ \cup met]
  /\ UNCHANGED envm

\* The word of STATUS that it returns.
Returned(pc, read) ==
  /\ nvm.pc = pc /\ nvm.ready = 1
  /\ NeededReads = 2 => read = nvm.flags

\* NVM_write goes on behind the page, with STATUS as it is then.
PageWritten ==
  LET status == StatusAfter(nvm.status, nvm.flags)
      offset == nvm.call.start + nvm.call.length - nvm.left
      left   == IF status \in Going THEN nvm.left - RemainingPageLength(offset, nvm.left) ELSE 0
  IN [nvm EXCEPT !.left = left, !.status = status, !.ready = 0, !.flags = {},
                 !.pc = IF left = 0 THEN "end" ELSE "pages",
                 !.worn = @ \/ "worn" \in nvm.flags]

\* Errors end the page; or else it is verified.
Programmed(read) ==
  /\ Returned("program", read)
  /\ nvm' = IF read \cap WRITE_ERROR_MASK # {} THEN PageWritten
            ELSE Commanded(nvm.cmd, "verify")
  /\ UNCHANGED envm

Verified ==
  /\ \E read \in SUBSET Flags : Returned("verify", read)
  /\ nvm' = PageWritten
  /\ UNCHANGED envm

PageUnlocked(read) ==
  /\ Returned("unlock", read)
  /\ LET last   == (nvm.call.start + nvm.call.length - 1) \div BYTES_PER_PAGE
         status == StatusAfter(nvm.status, read)
     IN nvm' = [nvm EXCEPT !.page = @ + 1, !.status = status, !.ready = 0, !.flags = {},
                           !.pc = IF nvm.page < last /\ status \in Going THEN "pages" ELSE "end",
                           !.worn = @ \/ "worn" \in nvm.flags]
  /\ UNCHANGED envm

\* NVM_read_page_write_count.
ReadCount ==
  /\ nvm.pc = "pages" /\ nvm.call.op = "count"
  /\ nvm' = Commanded(nvm.cmd, "count")
  /\ UNCHANGED envm

Counted ==
  /\ \E read \in SUBSET Flags : Returned("count", read)
  /\ nvm' = [nvm EXCEPT !.pc = "end", !.ready = 0, !.flags = {}]
  /\ UNCHANGED envm

EndIfSuccess == \* mutant: an error returns before ENVM_CR is restored
  /\ nvm.pc = "end"
  /\ nvm' = Idle
  /\ envm' = IF nvm.status \in Going /\ nvm.call.op # "count" THEN nvm.saved ELSE envm

End ==
  /\ nvm.pc = "end"
  /\ nvm' = Idle
  /\ envm' = IF nvm.call.op = "count" THEN envm ELSE nvm.saved

NvmGoes ==
  \/ Request \/ End \/ ProgramPage \/ UnlockPage \/ Verified \/ ReadCount \/ Counted
  \/ \E bits \in SUBSET Flags : GetReady(bits) \/ Programmed(bits) \/ PageUnlocked(bits)

NvmNext ==
  \/ \E call \in NvmCalls, device \in Devices, p \in Protections : Begin(call, device, p)
  \/ NvmGoes

NvmSpec == NvmInit /\ [][NvmNext]_<<nvm, envm>>

---------------------------------------------------------------------------
(* Properties.                                                              *)

\* A write that returned a success has programmed every byte it was asked for, and
\* none else; a failed one a part of them; and the warning about a worn page is not
\* lost behind the pages that follow it, in a write or an unlocking, nor in a word of
\* STATUS that came too early (mss_nvm.c:207-212, 545-549).
WritesWhatWasAsked ==
  nvm.pc = "end" =>
    /\ nvm.call.op = "write" =>
         LET bytes == UNION {r[1] .. r[2] : r \in nvm.wrote}
         IN /\ bytes \subseteq Asked(nvm.call)
            /\ nvm.status \in Going => bytes = Asked(nvm.call)
    /\ nvm.status \in Going => (nvm.worn <=> nvm.status = "WRITE_THRESHOLD_WARNING")

\* A command goes to a controller that the processor holds, that of the page; the
\* buffer holds the whole page, none of it left from the page before; the page may be
\* written on this device; and the eNVM runs at the frequency setting that
\* programming needs (mss_nvm.c:159-165).
CommandsAreSafe ==
  nvm.cmd # NoCmd /\ nvm.held # {} =>
    /\ nvm.cmd.block \in nvm.held
    /\ nvm.cmd.block * PAGES_PER_BLOCK + nvm.cmd.page = nvm.cmd.meant
    /\ nvm.cmd.seeded \cup nvm.cmd.data = 0 .. BYTES_PER_PAGE - 1
    /\ nvm.cmd.meant * BYTES_PER_PAGE < Layout(nvm.device).reserved
    /\ \A a \in Layout(nvm.device).areas :
         nvm.protection[a.id] # "rw" =>
           nvm.cmd.meant \notin a.from \div BYTES_PER_PAGE .. a.to \div BYTES_PER_PAGE
    /\ nvm.cmd.envm = "programming"
=============================================================================
