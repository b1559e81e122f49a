------------------------------ MODULE HbiFrame ------------------------------
(***************************************************************************)
(* The frames in which hbi_tw.c sends the accesses of HBI_read and          *)
(* HBI_write: one or two 16-bit command words.  The registers of page 0 are *)
(* reached directly, the others through the page that the chip has selected. *)
(* A word has the register in its upper byte and, below, the length less one *)
(* with bit 7 telling a write from a read.                                   *)
(***************************************************************************)
EXTENDS Integers, Sequences

MaxAccess == 256 \* ZL380xx_MAX_ACCESS_SIZE_IN_BYTES

\* An access: its op, the 16-bit address of its first register and its size, in
\* bytes.
IsAccess(a) ==
  a \in [op : {"read", "write"}, addr : Nat, size : Nat] /\ a.addr < 65536

Bit7(w) == (w % 256) \div 128 = 1

\* HBI_PAGED_READ and HBI_PAGED_WRITE; HBI_DIRECT_READ and HBI_DIRECT_WRITE
PagedWord(op, offset, length) ==
  LET w == 256 * offset + length
  IN IF op = "write" /\ ~Bit7(w) THEN w + 128 ELSE w

DirectWord(op, offset, length) == 32768 + PagedWord(op, offset, length)

SelectPage(page) == 65024 + page

\* tw_hbi_tp_frame_hdr: uint8_t page, offset and num_words.
NumWordsNotLess(size) == (size \div 2) % 256 \* mutant: the chip counts from 0

NumWords(size) == (size \div 2 - 1) % 256

Frame(a) ==
  LET page   == (a.addr \div 256) % 256
      offset == (a.addr % 256) \div 2
  IN IF page = 0 THEN <<DirectWord(a.op, offset, NumWords(a.size))>>
     ELSE <<SelectPage(IF page = 255 THEN page ELSE page - 1),
            PagedWord(a.op, offset, NumWords(a.size))>>

\* internal_hbi_write refuses what is too long; internal_hbi_read does not look.
Refused(a) == a.op = "write" /\ a.size > MaxAccess

---------------------------------------------------------------------------
(* The chip.                                                                *)

\* What a word asks of it: to select a page, to configure its interface, or to
\* access the registers from first.
Reg(op, first, words) == [op |-> op, first |-> first, words |-> words]
NoAccess == Reg("none", 0, 0)

Hears(link, w) ==
  LET op    == IF Bit7(w) THEN "write" ELSE "read"
      words == (w % 128) + 1
      page  == IF link.page = 255 THEN 255 ELSE link.page + 1
  IN IF 65024 <= w /\ w < 65280 THEN [page |-> w - 65024, done |-> NoAccess]
     ELSE [link EXCEPT !.done =
             IF w >= 64512 THEN NoAccess
             ELSE IF w >= 32768 THEN Reg(op, 2 * ((w - 32768) \div 256), words)
             ELSE Reg(op, 256 * page + 2 * (w \div 256), words)]

\* A frame has one word or two.
Receives(page, frame) ==
  LET heard == Hears([page |-> page, done |-> NoAccess], frame[1])
  IN IF Len(frame) = 1 THEN heard ELSE Hears(heard, frame[2])

\* What the caller means.
Meant(a) == Reg(a.op, a.addr, a.size \div 2)

\* What the interface is for: whole registers of one page, at most 128 of them,
\* and none of the addresses whose direct words are commands.
Proper(a) ==
  /\ a.addr % 2 = 0 /\ a.size % 2 = 0
  /\ a.size \in 2..MaxAccess /\ (a.addr % 256) + a.size <= 256
  /\ a.addr < 256 => a.addr < 248
=============================================================================
