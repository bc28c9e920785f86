------------------------------- MODULE R82xx -------------------------------
(***************************************************************************)
(* The R820T/R828D tuner as its driver sees it                              *)
(* (src/radioDiags/src/tuner_r82xx.c).                                      *)
(*                                                                          *)
(* A tuner t is a record.  t.shadow holds what the driver believes to be in *)
(* the registers and t.chip what is there: a write goes to the shadow first *)
(* and a masked write sends the shadow's register as a whole.  Registers    *)
(* are grouped by what a setting needs and cut to the fields set functions  *)
(* change; a group's name is its first register.  Frequencies are in kHz.   *)
(* t.ok is the outcome of the last call; `bad' is the set of register       *)
(* groups the bus loses in the handler at hand ("lock": the PLL does not    *)
(* find its frequency).                                                     *)
(***************************************************************************)
EXTENDS Integers, Sequences, SequencesExt

PllRef == 28800       \* the 28.8 MHz crystal, in kHz
VcoMin == 1770000

\* r82xx_init_array, reduced to the fields.
InitRegs == [r05 |-> [auto |-> TRUE, lna |-> 3, cable1 |-> FALSE, air |-> TRUE],
             r06 |-> [cable2 |-> FALSE, awake |-> TRUE],
             r07 |-> [auto |-> TRUE, mix |-> 5],
             r0b |-> [width |-> 108],
             r0c |-> [vga |-> 5],
             r14 |-> [mixDiv |-> 2, nint |-> 0, sdm |-> 0, corr |-> 0],
             r17 |-> [open |-> FALSE],
             r1b |-> [tf |-> 0]]

RegisterNames == DOMAIN InitRegs

\* A tuner nobody has initialised: power-on registers, no interface state.
Unused == [shadow |-> InitRegs, chip |-> InitRegs, intFreq |-> 0, input |-> "air",
           hasLock |-> FALSE, initDone |-> FALSE, xtal |-> 0, ok |-> TRUE]
----------------------------------------------------------------------------
(* Register access.                                                         *)

\* A step that is taken only when the one before went well.
Then(t, Step(_)) == IF t.ok THEN Step(t) ELSE t

\* The shadow is stored before the bus is tried.
r82xx_write(t, reg, val, bad) ==
    [t EXCEPT !.shadow[reg] = val,
              !.chip[reg] = IF reg \in bad THEN @ ELSE val,
              !.ok = reg \notin bad]

r82xx_write_reg_mask(t, reg, field, val, bad) ==
    r82xx_write(t, reg, [t.shadow[reg] EXCEPT ![field] = val], bad)

\* Writes one after the other; the first that fails ends them.
ThenWrite(t, reg, val, bad) == IF t.ok THEN r82xx_write(t, reg, val, bad) ELSE t
ThenMask(t, reg, field, val, bad) ==
    IF t.ok THEN r82xx_write_reg_mask(t, reg, field, val, bad) ELSE t
----------------------------------------------------------------------------
(* Tuning.                                                                  *)

\* The divider is the power of two that brings the VCO into its range, which
\* is an octave wide: there is one at most.  The search gives up after 64 and
\* goes on with 128.
MixDivs == {2, 4, 8, 16, 32, 64}
InVcoRange(khz, div) == khz * div >= VcoMin /\ khz * div < 2 * VcoMin
MixDiv(khz) == IF \E div \in MixDivs : InVcoRange(khz, div)
               THEN CHOOSE div \in MixDivs : InVcoRange(khz, div) ELSE 128

\* The sigma-delta word for what the integer part leaves, bit by bit.
SdmStep(s, n) ==
    IF s.fra > 1 /\ s.fra > (2 * PllRef) \div n
    THEN [sdm |-> s.sdm + 65536 \div n, fra |-> s.fra - (2 * PllRef) \div n]
    ELSE s
FourSteps(s, n) == SdmStep(SdmStep(SdmStep(SdmStep(s, n), 2 * n), 4 * n), 8 * n)
Sdm(fra) ==
    LET first == FourSteps(FourSteps(FourSteps([sdm |-> 0, fra |-> fra], 2), 32), 512)
    IN  SdmStep(SdmStep(SdmStep(first, 8192), 16384), 32768).sdm

\* What the PLL makes of its registers: VCO / divider.
LoOf(pll) == (2 * PllRef * pll.nint + (225 * pll.sdm) \div 256) \div pll.mixDiv

\* Where the ranges of the tracking filter begin, in MHz.
Ranges == <<0, 50, 55, 60, 65, 70, 75, 80, 90, 100, 110, 120, 140, 180, 220, 250, 280, 310,
            450, 588, 650>>
RangeOf(khz) == SelectLastInSeq(Ranges, LAMBDA mhz : khz \div 1000 >= mhz)

r82xx_set_mux(t, khz, bad) ==
    ThenMask(r82xx_write_reg_mask(t, "r17", "open", RangeOf(khz) <= 6, bad),
             "r1b", "tf", RangeOf(khz), bad)

\* The chip divides by 2 when no divider was found: the PLL cannot lock there.
r82xx_set_pll(t, khz, corr, bad) ==
    LET div  == MixDiv(khz)
        nint == (khz * div) \div (2 * PllRef)
        fra  == khz * div - 2 * PllRef * nint
        pll  == [mixDiv |-> div, nint |-> nint, sdm |-> Sdm(fra), corr |-> corr]
    IN  IF nint > 63 THEN [t EXCEPT !.ok = FALSE]
        ELSE Then(r82xx_write(t, "r14", pll, bad),
                  LAMBDA u : [u EXCEPT !.hasLock = div <= 64 /\ "lock" \notin bad])

\* A notch filter is off (open drain low) within its band, on outside.
Notched(khz) == khz <= 2200 \/ khz \in 85000..112000 \/ khz \in 172000..242000

\* The input the band of a Blog V4 needs: the HF input behind the
\* up-converter, the VHF cable or the antenna.
BandOf(khz) == IF khz <= 28800 THEN "hf" ELSE IF khz < 250000 THEN "vhf" ELSE "uhf"

\* The band is noted before it is switched.
switchInput(t, band, bad) ==
    LET u == r82xx_write_reg_mask([t EXCEPT !.input = band], "r06", "cable2", band = "hf", bad)
        v == ThenMask(u, "r05", "cable1", band = "vhf", bad)
    IN  IF band = t.input THEN t ELSE ThenMask(v, "r05", "air", band = "uhf", bad)

\* A PLL that does not lock ends the tuning, with success.
r82xx_set_freq(t, khz, v4, bad) ==
    LET lo == t.intFreq + (IF v4 /\ khz < 28800 THEN khz + 28800 ELSE khz)
        tuned == Then(r82xx_set_mux(t, lo, bad), LAMBDA u : r82xx_set_pll(u, lo, u.xtal, bad))
    IN  Then(tuned, LAMBDA u :
          IF ~(u.hasLock /\ v4) THEN u
          ELSE Then(r82xx_write_reg_mask(u, "r17", "open", ~Notched(khz), bad),
                    LAMBDA v : switchInput(v, BandOf(khz), bad)))
----------------------------------------------------------------------------
(* Bandwidth.                                                               *)

LowPass == <<1700, 1600, 1550, 1450, 1200, 900, 700, 550, 450, 350>>

\* What is left to the low-pass filter after the two high-pass corrections.
HighPass2(bw) == IF bw > LowPass[1] + 350 THEN 380 ELSE 0
HighPass1(bw) == IF bw - HighPass2(bw) > LowPass[1] THEN 350 ELSE 0
LowPassPart(bw) == bw - HighPass2(bw) - HighPass1(bw)

\* The last filter not narrower than that, or the narrowest one.
LowPassIndex(bw) ==
    CHOOSE i \in DOMAIN LowPass :
      /\ LowPassPart(bw) <= LowPass[i]
      /\ i < Len(LowPass) => LowPassPart(bw) > LowPass[i + 1]

\* Register 0x0b and the intermediate frequency for a bandwidth.
FilterOf(bw) ==
    IF bw > 7000 THEN [reg |-> 11, int |-> 4570]
    ELSE IF bw > 6000 THEN [reg |-> 42, int |-> 4570]
    ELSE IF bw > LowPass[1] + 350 + 380 THEN [reg |-> 107, int |-> 3570]
    ELSE LET high == HighPass1(bw) + HighPass2(bw)
             i    == LowPassIndex(bw)
         IN  [reg |-> 128 + (IF HighPass2(bw) = 0 THEN 32 ELSE 0)
                          + (IF HighPass1(bw) = 0 THEN 64 ELSE 0) + 16 - i,
              int |-> 2300 + high - (high + LowPass[i]) \div 2]

\* The driver's intermediate frequency changes before the filter does.
r82xx_set_bandwidth(t, bw, bad) ==
    r82xx_write_reg_mask([t EXCEPT !.intFreq = FilterOf(bw).int],
                         "r0b", "width", FilterOf(bw).reg, bad)
----------------------------------------------------------------------------
(* Gain, in tenths of a dB.                                                 *)

LnaSteps == <<9, 13, 40, 38, 13, 31, 22, 26, 31, 26, 14, 19, 5, 35, 13>>
MixerSteps == <<5, 10, 10, 19, 9, 10, 25, 17, 10, 8, 16, 13, 6, 3, -8>>
VgaSteps == <<26, 26, 30, 42, 35, 24, 13, 14, 32, 36, 34, 35, 37, 35, 36>>

\* LNA and mixer are turned up in turn until their steps reach the gain.
GainStep(gain, g, i) ==
    LET lna == [g EXCEPT !.lna = @ + 1, !.total = @ + LnaSteps[i]]
    IN  IF g.total >= gain THEN g
        ELSE IF lna.total >= gain THEN lna
        ELSE [lna EXCEPT !.mix = @ + 1, !.total = @ + MixerSteps[i]]
GainIndices(gain) == FoldLeft(LAMBDA g, i : GainStep(gain, g, i),
                              [lna |-> 0, mix |-> 0, total |-> 0],
                              [i \in 1..15 |-> i])

r82xx_set_gain(t, manual, gain, bad) ==
    LET u == r82xx_write_reg_mask(t, "r05", "auto", ~manual, bad)
        v == ThenMask(u, "r07", "auto", ~manual, bad)
        w == ThenMask(v, "r05", "lna", GainIndices(gain).lna, bad)
    IN  IF manual THEN ThenMask(w, "r07", "mix", GainIndices(gain).mix, bad) ELSE v

\* The first index whose steps reach the gain, or the last one.
VgaIndex(gain) ==
    FoldLeft(LAMBDA v, i : IF i > 1 /\ v.total >= gain THEN v
                           ELSE [index |-> i, total |-> v.total + VgaSteps[i]],
             [index |-> 0, total |-> 0], [i \in 1..15 |-> i]).index

r82xx_set_if_gain(t, gain, bad) == r82xx_write_reg_mask(t, "r0c", "vga", VgaIndex(gain), bad)
----------------------------------------------------------------------------
(* Standby and initialisation.                                              *)

StandbyRegs == [r06 |-> [cable2 |-> FALSE, awake |-> FALSE],
                r05 |-> [auto |-> TRUE, lna |-> 0, cable1 |-> FALSE, air |-> FALSE],
                r07 |-> [auto |-> TRUE, mix |-> 10],
                r0c |-> [vga |-> 5], r17 |-> [open |-> FALSE]]

r82xx_standby(t, bad) ==
    LET u == r82xx_write(t, "r06", StandbyRegs.r06, bad)
        v == ThenWrite(u, "r05", StandbyRegs.r05, bad)
        w == ThenWrite(v, "r07", StandbyRegs.r07, bad)
        x == ThenWrite(w, "r0c", StandbyRegs.r0c, bad)
    IN  IF ~t.initDone THEN [t EXCEPT !.ok = TRUE] ELSE ThenWrite(x, "r17", StandbyRegs.r17, bad)

\* All registers in bursts of seven; the first that fails ends the writing,
\* and nobody looks at the outcome.
Burst == [r05 |-> 1, r06 |-> 1, r07 |-> 1, r0b |-> 1, r0c |-> 2, r14 |-> 3, r17 |-> 3,
          r1b |-> 4]
writeInitArray(t, bad) ==
    [t EXCEPT !.shadow = InitRegs,
              !.chip = [r \in RegisterNames |->
                          IF \E b \in bad \intersect RegisterNames : Burst[b] <= Burst[r]
                          THEN t.chip[r] ELSE InitRegs[r]]]

\* After the calibration, which takes a PLL that locks.
Calibrated(t, bad) ==
    IF t.ok /\ t.hasLock
    THEN ThenMask(ThenMask(ThenMask(ThenMask(t, "r0b", "width", 107, bad),
                                    "r07", "auto", TRUE, bad),
                           "r06", "awake", TRUE, bad),
                  "r05", "auto", TRUE, bad)
    ELSE t

\* The filter is calibrated with the PLL at 56 MHz.
r82xx_set_tv_standard(t, bad) ==
    LET vga == r82xx_write_reg_mask([t EXCEPT !.shadow = InitRegs], "r0c", "vga", 0, bad)
        width == Then(vga, LAMBDA u : r82xx_write_reg_mask([u EXCEPT !.intFreq = 3570],
                                                           "r0b", "width", 107, bad))
    IN  Calibrated(Then(width, LAMBDA u : r82xx_set_pll(u, 56000, u.xtal, bad)), bad)

\* Takes the air input and notes it.
r82xx_sysfreq_sel(t, bad) ==
    LET u == r82xx_write_reg_mask([t EXCEPT !.input = "air"], "r05", "cable1", FALSE, bad)
        v == ThenMask(u, "r05", "air", TRUE, bad)
    IN  ThenMask(v, "r06", "cable2", FALSE, bad)

r82xx_init(t, bad) ==
    Then(r82xx_set_tv_standard(writeInitArray(t, bad), bad),
         LAMBDA u : [r82xx_sysfreq_sel(u, bad) EXCEPT !.initDone = TRUE])
=============================================================================
