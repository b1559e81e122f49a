------------------------------- MODULE Board -------------------------------
(***************************************************************************)
(* What the application's loop stands on: the memory controller that the    *)
(* start-up code sets up (CMSIS/system_m2sxxx.c), the pins (mss_gpio.c),     *)
(* Timer 1 (mss_timer.h) and the tables of sines and cosines that the fabric *)
(* turns hues with (fabric_sincos_mem_init.c).  All are operators on records *)
(* of the registers, which App keeps in its variables.                       *)
(***************************************************************************)
EXTENDS Integers, Sequences, TLC

---------------------------------------------------------------------------
(* The start-up: revision, of the silicon; clock, DDR_CLK_EN; ddr, the       *)
(* controller of the external memory.                                        *)

Revisions == {"M2S050_REV_A", "M2S050_REV_B", "UNKNOWN"}

\* The system controller leaves the clock of the memory off in the first silicon.
\* A debugger may have placed the program in that memory, which is set up then.
OutOfReset(revision, remapped) ==
  [revision |-> revision, clock |-> revision # "M2S050_REV_A",
   ddr |-> IF remapped THEN "remapped" ELSE "reset"]

\* silicon_workarounds.  The revision is of no interest from here on.
SiliconWorkarounds(b) ==
  [b EXCEPT !.clock = @ \/ b.revision = "M2S050_REV_A", !.revision = "UNKNOWN"]

\* config_ddr_subsys: the registers are written, and the controller is let go.
ConfigDdr(b) == [b EXCEPT !.ddr = IF @ = "remapped" THEN "ready" ELSE "starts"]

\* The controller, with its clock, gets ready.
DdrStarts(b) == b.ddr = "starts" /\ b.clock
DdrIsReady(b) == b.ddr = "ready"

---------------------------------------------------------------------------
(* The pins: out, the register GPIO_OUT; cfg, what each is configured as.    *)

\* MSS_GPIO_4, 5, 6 and 8: the mux of the picture, the sensor's clock, the reset of
\* the USB transceiver and that of the camera.
Pins == {"mux", "clock", "usb", "camera"}

GpioInit == [out |-> [p \in Pins |-> 0], cfg |-> [p \in Pins |-> {}]]

\* MSS_GPIO_config, with MSS_GPIO_OUTPUT_MODE.
GpioConfig(g, pin) == [g EXCEPT !.cfg[pin] = {"output", "buffer"}]

\* The halves of MSS_GPIO_set_output and MSS_GPIO_drive_inout: GPIO_OUT is read, and
\* what was read goes back with one pin changed.
Changed(out, pin, value) == [out EXCEPT ![pin] = value]
OutputSet(g, out, pin, value) == [g EXCEPT !.out = Changed(out, pin, value)]
InoutDrivenAlone(g, out, pin, value) == \* mutant: the other pins are not kept
  [g EXCEPT !.out = [p \in Pins |-> IF p = pin THEN value ELSE 0], !.cfg[pin] = @ \cup {"buffer"}]
InoutDriven(g, out, pin, value) ==
  [g EXCEPT !.out = Changed(out, pin, value), !.cfg[pin] = @ \cup {"buffer"}]

Level(g, pin) == IF "buffer" \in g.cfg[pin] THEN g.out[pin] ELSE 2

---------------------------------------------------------------------------
(* Timer 1: it counts down while it is enabled, sets ris at zero and stops.  *)

Tim1Init == [counts |-> FALSE, enabled |-> FALSE, inten |-> FALSE, ris |-> FALSE]
Tim1LoadImmediate(t) == [t EXCEPT !.counts = TRUE]
Tim1EnableIrq(t) == [t EXCEPT !.inten = TRUE]
Tim1Start(t) == [t EXCEPT !.enabled = TRUE]
Tim1DisableIrq(t) == [t EXCEPT !.inten = FALSE]
Tim1ClearIrq(t) == [t EXCEPT !.ris = FALSE]

Tim1Runs(t) == t.counts /\ t.enabled
Tim1Expired(t) == [t EXCEPT !.counts = FALSE, !.ris = TRUE]
Tim1Irq(t) == t.ris /\ t.inten

---------------------------------------------------------------------------
(* The tables, of 0 to 180 degrees, in 512ths; negative values are of ten bits. *)

sin_mem == <<
  0, 9, 18, 27, 36, 45, 54, 62, 71, 80, 89, 98, 106, 115, 124, 133, 141, 150, 158,
  167, 175, 183, 192, 200, 208, 216, 224, 232, 240, 248, 256, 264, 271, 279, 286,
  294, 301, 308, 315, 322, 329, 336, 343, 349, 356, 362, 368, 374, 380, 386, 392,
  398, 403, 409, 414, 419, 424, 429, 434, 439, 443, 448, 452, 456, 460, 464, 468,
  471, 475, 478, 481, 484, 487, 490, 492, 495, 497, 499, 501, 503, 504, 506, 507,
  508, 509, 510, 511, 511, 511, 511, 511, 511, 511, 511, 511, 510, 509, 508, 507,
  506, 504, 503, 501, 499, 497, 495, 492, 490, 487, 484, 481, 478, 475, 471, 468,
  464, 460, 456, 452, 448, 443, 439, 434, 429, 424, 419, 414, 409, 403, 398, 392,
  386, 380, 374, 368, 362, 356, 349, 343, 336, 329, 322, 315, 308, 301, 294, 286,
  279, 271, 264, 256, 248, 240, 232, 224, 216, 208, 200, 192, 183, 175, 167, 158,
  150, 141, 133, 124, 115, 106, 98, 89, 80, 71, 62, 54, 45, 36, 27, 18, 9, 0>>

cos_mem == <<
  511, 511, 511, 511, 511, 510, 509, 508, 507, 506, 504, 503, 501, 499, 497, 495,
  492, 490, 487, 484, 481, 478, 475, 471, 468, 464, 460, 456, 452, 448, 443, 439,
  434, 429, 424, 419, 414, 409, 403, 398, 392, 386, 380, 374, 368, 362, 356, 349,
  343, 336, 329, 322, 315, 308, 301, 294, 286, 279, 271, 264, 256, 248, 240, 232,
  224, 216, 208, 200, 192, 183, 175, 167, 158, 150, 141, 133, 124, 115, 106, 98, 89,
  80, 71, 62, 54, 45, 36, 27, 18, 9, 0, 1015, 1006, 997, 988, 979, 970, 962, 953,
  944, 935, 926, 918, 909, 900, 891, 883, 874, 866, 857, 849, 841, 832, 824, 816,
  808, 800, 792, 784, 776, 768, 760, 753, 745, 738, 730, 723, 716, 709, 702, 695,
  688, 681, 675, 668, 662, 656, 650, 644, 638, 632, 626, 621, 615, 610, 605, 600,
  595, 590, 585, 581, 576, 572, 568, 564, 560, 556, 553, 549, 546, 543, 540, 537,
  534, 532, 529, 527, 525, 523, 521, 520, 518, 517, 516, 515, 514, 513, 513, 512,
  512, 512>>

Signed(value) == IF value >= 512 THEN value - 1024 ELSE value

\* An entry of each: a sine and a cosine of one angle, and of the supplement.
Squared(angle) == sin_mem[angle + 1] * sin_mem[angle + 1]
                  + Signed(cos_mem[angle + 1]) * Signed(cos_mem[angle + 1])
Trigonometric ==
  \A angle \in 0..180 :
    /\ Squared(angle) \in 512 * 512 - 1024 .. 512 * 512 + 1024
    /\ sin_mem[angle + 1] = sin_mem[181 - angle]
    /\ Signed(cos_mem[angle + 1]) + Signed(cos_mem[181 - angle]) \in {-1, 0}
============================================================================
