------------------------------- MODULE Camera -------------------------------
(***************************************************************************)
(* The image sensor and what ar0330.c writes to it over I2C.  A write is a   *)
(* pair of a register and a value; registers that are written together, and  *)
(* whose values nothing reads, stand for one.  The driver waits for the end  *)
(* of each write without a time-out, and nobody looks at how it ended.       *)
(***************************************************************************)
EXTENDS Naturals, Sequences

LOCAL INSTANCE SequencesExt

\* Colours are of 16 bits; select is COLOR_MODE_SELECT, mode READ_MODE, pointer and
\* words the address (0x3088) and the data (0x3086) of the sequencer's memory, and
\* stream the bit of that name in RESET_REGISTER.
Colours == {"red", "gr1", "gr2", "blue"}
Full == 65535

\* After a reset.
Blank ==
  [red |-> 0, gr1 |-> 0, gr2 |-> 0, blue |-> 0, select |-> 0, mode |-> 0,
   pll |-> FALSE, trim |-> FALSE, window |-> FALSE, gains |-> FALSE,
   pointer |-> 0, words |-> "none", stream |-> FALSE]

\* The words go to the address in pointer and on from there.
PatchAt == 93
Stored(c, words) ==
  CASE words = "v5" -> IF c.pointer = 0 THEN "v5" ELSE "garbled"
    [] words = "patch" -> IF c.pointer = PatchAt /\ c.words = "v5" THEN "patched"
                          ELSE IF c.pointer = PatchAt THEN c.words ELSE "garbled"

\* sensor_i2c_write, of a camera that is not held in reset and acknowledges.
Took(c, write) ==
  IF write[1] = "words" THEN [c EXCEPT !.words = Stored(c, write[2])]
  ELSE [c EXCEPT ![write[1]] = write[2]]

\* sensor_i2c_write_bits: the two bytes are stored as they come, the high one first,
\* in a variable that has the low one first: the mask meets, and what is written
\* back has, the bytes swapped.  The mask is of the two highest bits.
Swapped(value) == (value % 256) * 256 + value \div 256
WithFlips(c) == [c EXCEPT !.mode = (Swapped(@) % 16384) + 49152]

Takes(c, writes) == FoldLeft(Took, c, writes)

---------------------------------------------------------------------------
(* The sequences.                                                           *)

PllSettings == <<<<"pll", TRUE>>>>

\* ar0330_optm_v5_sequencer: the trims, two of which are registers of the colours,
\* then the program of the sequencer, which zeros follow.
V5Trims == <<<<"trim", TRUE>>, <<"gr2", 1>>, <<"red", 0>>, <<"stream", FALSE>>>>
V5Program == <<<<"pointer", 0>>, <<"words", "v5">>>>
V5Sequencer == V5Trims \o V5Program

\* ar0330_sequencer_shortened, which the set-up also does itself.
SequencerShortened == <<<<"pointer", PatchAt>>, <<"words", "patch">>>>

\* color_mode_select_red, _green and _blue, and color_mode_bars and _walking1s, all
\* with COLOR_MODE_SELECT cleared first; only color_mode_select_none ends with that.
Select(red, gr1, gr2, blue, select) ==
  <<<<"select", 0>>, <<"red", red>>, <<"gr1", gr1>>, <<"gr2", gr2>>, <<"blue", blue>>,
    <<"select", select>>>>
SelectNone == Select(Full, Full, Full, Full, 0)
SelectRed == Select(Full, 0, 0, 0, 1)
SelectGreen == Select(0, Full, Full, 0, 1)
SelectBlue == Select(0, 0, 0, Full, 1)
Bars == Select(Full, Full, Full, Full, 2)
Walking1s == Select(Full, Full, Full, Full, 256)

\* switch (mode): the case of the bars runs on into that of the walking ones.
ColorMode(mode) ==
  CASE mode = 1 -> SelectRed [] mode = 2 -> SelectGreen [] mode = 3 -> SelectBlue
    [] mode = 4 -> Bars \o Walking1s [] mode = 5 -> Walking1s [] OTHER -> SelectNone

Window ==
  <<<<"stream", FALSE>>, <<"window", TRUE>>, <<"mode", 0>>, <<"gains", TRUE>>>>

---------------------------------------------------------------------------
(* The picture.                                                             *)

Picture(c) ==
  CASE c.select = 0 -> <<"scene">>
    [] c.select = 1 -> <<"solid", {x \in Colours : c[x] = Full}>>
    [] c.select = 2 -> <<"bars">>
    [] OTHER -> <<"walking1s">>

Expected(mode) ==
  CASE mode = 1 -> <<"solid", {"red"}>>
    [] mode = 2 -> <<"solid", {"gr1", "gr2"}>>
    [] mode = 3 -> <<"solid", {"blue"}>>
    [] mode \in {4, 5} -> <<"walking1s">>
    [] OTHER -> <<"scene">>

\* The camera shows what the mode asks for: it has been told everything, its program is
\* the patched one, the picture is turned, and it streams.
Shows(c, mode) ==
  /\ Picture(c) = Expected(mode)
  /\ c.pll /\ c.trim /\ c.window /\ c.gains /\ c.stream
  /\ c.words = "patched" /\ c.mode = 49152
=============================================================================
