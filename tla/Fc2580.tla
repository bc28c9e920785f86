------------------------------ MODULE Fc2580 -------------------------------
(***************************************************************************)
(* The FCI FC2580 tuner as its driver sees it                               *)
(* (src/radioDiags/src/tuner_fc2580.c).  A tuner t is what is in the chip's *)
(* registers; the values a band wants in some twenty of them are the band.  *)
(* Frequencies are in kHz.  A failed write does not keep the driver from    *)
(* the next ones: the outcomes are and-ed.                                  *)
(***************************************************************************)
EXTENDS Integers

Xtal == 16384              \* CRYSTAL_FREQ, in kHz
BorderFreq == 2600000      \* BORDER_FREQ

fc2580_regs == [band |-> "none", input |-> 0, filter |-> 8, r |-> 1, n |-> 0, k |-> 0,
                high |-> FALSE, ok |-> TRUE]

\* The filter of 1.53, 6.8 or 7.8 MHz; its calibration is tried five times,
\* and nobody looks at the outcome.
fc2580_set_filter(t, mode, bad) ==
    IF "filter" \in bad THEN [t EXCEPT !.ok = FALSE]
    ELSE [t EXCEPT !.filter = mode]

fc2580_set_init(t, bad) == fc2580_set_filter([fc2580_regs EXCEPT !.ok = "init" \notin bad], 8, bad)
fc2580_Initialize(t, bad) == fc2580_set_init(t, bad)

\* Whatever bandwidth is asked for, the mode is 1.
fc2580_SetBandwidthMode(t, bad) == fc2580_set_filter([t EXCEPT !.ok = TRUE], 1, bad)
----------------------------------------------------------------------------
Band(khz) == IF khz > 1000000 THEN "L" ELSE IF khz > 400000 THEN "UHF" ELSE "VHF"
VcoFactor == [L |-> 2, UHF |-> 4, VHF |-> 12]
BandFilter == [L |-> 1, UHF |-> 8, VHF |-> 7]

\* The LNA setting within UHF.
InputOf(khz) == IF khz < 538000 THEN 1 ELSE IF khz < 794000 THEN 2 ELSE 3

\* Reference divider, integer part, fraction in 2^20ths; the fraction is
\* computed with 4 bits less, for 32 bits are too few, and rounded.
Dividers(vco) ==
    LET r     == IF vco >= 152 * Xtal THEN 1 ELSE IF vco >= 76 * Xtal THEN 2 ELSE 4
        comp  == Xtal \div r
        n     == (vco \div 2) \div comp
        diff  == (vco - 2 * comp * n) * 65536
        unit  == (2 * comp) \div 16
        k     == diff \div unit
    IN  [r |-> r, n |-> n,
         k |-> IF diff - k * unit >= comp \div 16 THEN k + 1 ELSE k]

\* What the PLL makes of its registers.
LoOf(t) == LET comp == Xtal \div t.r
           IN  (2 * comp * t.n + (2 * comp * (t.k \div 16)) \div 65536) \div VcoFactor[t.band]

\* Every tuning sets the filter its band wants.
fc2580_set_freq(t, khz, bad) ==
    LET band == Band(khz)
        vco  == khz * VcoFactor[band]
        p    == Dividers(vco)
        u    == fc2580_set_filter([t EXCEPT !.ok = "pll" \notin bad, !.band = band,
                                            !.input = IF band = "UHF" THEN InputOf(khz) ELSE @],
                                  BandFilter[band], bad)
    IN  IF "pll" \in bad THEN u
        ELSE [u EXCEPT !.r = p.r, !.n = p.n % 256, !.k = p.k, !.high = vco >= BorderFreq]

fc2580_SetRfFreqHz(t, khz, bad) == fc2580_set_freq(t, khz, bad)
=============================================================================
