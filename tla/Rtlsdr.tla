------------------------------ MODULE Rtlsdr -------------------------------
(***************************************************************************)
(* The driver of the dongle (src/radioDiags/src/librtlsdr.c) and the helper *)
(* functions Radio calls it through (convenience.c): tuning, direct         *)
(* sampling, bandwidth, gains, sample rate, frequency correction, open and  *)
(* close.                                                                   *)
(*                                                                          *)
(* A device d is a record: what the driver remembers (freq, rate, bw, corr, *)
(* gain, direct), the registers of the demodulator (ddc: the frequency the  *)
(* digital down-converter shifts by and the correction it was computed      *)
(* with; sro: the resampler's correction; ratio: the rate it makes; mode),  *)
(* the I2C repeater that lets a call reach the tuner, and the tuner d.t.    *)
(* Functions take a device and return it, d.ok being the outcome.           *)
(* Frequencies and rates are in kHz, gains in tenths of a dB.  `bad' is     *)
(* the set of register groups that are out of reach for the whole call.     *)
(* d.deaf is history: a call went to the tuner with the repeater off.       *)
(***************************************************************************)
EXTENDS Integers, Sequences, SequencesExt

R == INSTANCE R82xx
E == INSTANCE E4k
F == INSTANCE Fc001x
K == INSTANCE Fc2580

Rafael(kind) == kind \in {"R820T", "V4"}
Kinds == {"R820T", "V4", "E4000", "FC0012", "FC0013", "FC2580"}

R82xxIf == 3570            \* R82XX_IF_FREQ

\* A chip that was never initialised.
FreshChip(kind) ==
    CASE Rafael(kind) -> R!Unused
      [] kind = "E4000" -> E!e4k_regs
      [] kind = "FC0012" -> [F!fc0012_regs EXCEPT !.multi = 4]
      [] kind = "FC0013" -> [F!fc0013_regs EXCEPT !.multi = 4]
      [] kind = "FC2580" -> [K!fc2580_regs EXCEPT !.band = "VHF"]
----------------------------------------------------------------------------
(* The tuner's functions, by kind of tuner.                                 *)

\* The device after its tuner has done something.
WithTuner(d, u) == [d EXCEPT !.t = u, !.ok = u.ok, !.deaf = @ \/ ~d.repeater]

tuner_init(d, bad) ==
    WithTuner(d, CASE Rafael(d.kind) -> R!r82xx_init([d.t EXCEPT !.xtal = d.corr], bad)
                   [] d.kind = "E4000" -> E!e4k_init(d.t, bad)
                   [] d.kind = "FC0012" -> F!fc0012_init(d.t, bad)
                   [] d.kind = "FC0013" -> F!fc0013_init(d.t, bad)
                   [] d.kind = "FC2580" -> K!fc2580_Initialize(d.t, bad))

\* The Fitipower and FCI tuners have no standby.
tuner_exit(d, bad) ==
    CASE Rafael(d.kind) -> WithTuner(d, R!r82xx_standby(d.t, bad))
      [] d.kind = "E4000" -> WithTuner(d, E!e4k_standby(d.t, bad))
      [] OTHER -> [d EXCEPT !.ok = TRUE]

\* The FC2580 has a crystal of its own, which the correction does not reach.
tuner_set_freq(d, khz, bad) ==
    WithTuner(d, CASE Rafael(d.kind) -> R!r82xx_set_freq(d.t, khz, d.kind = "V4", bad)
                   [] d.kind = "E4000" -> E!e4k_tune_freq(d.t, khz, d.corr, bad)
                   [] d.kind = "FC0012" -> F!fc0012_set_params(d.t, khz, d.corr, bad)
                   [] d.kind = "FC0013" -> F!fc0013_set_params(d.t, khz, d.corr, bad)
                   [] d.kind = "FC2580" -> K!fc2580_SetRfFreqHz(d.t, khz, bad))

\* 4 or 12 dB in the mixer, the rest in the LNA.
e4000_set_gain(t, gain, bad) ==
    LET mixer == IF gain > 340 THEN 12 ELSE 4
        left  == gain - 10 * mixer
        u     == E!e4k_set_lna_gain(t, IF left < 300 THEN left ELSE 300, bad)
    IN  IF u.ok THEN [E!e4k_mixer_gain_set(u, mixer, bad) EXCEPT !.ok = TRUE] ELSE u

tuner_set_gain(d, gain, bad) ==
    CASE Rafael(d.kind) -> WithTuner(d, R!r82xx_set_gain(d.t, TRUE, gain, bad))
      [] d.kind = "E4000" -> WithTuner(d, e4000_set_gain(d.t, gain, bad))
      [] d.kind = "FC0012" -> WithTuner(d, F!fc0012_set_gain(d.t, gain, bad))
      [] d.kind = "FC0013" -> WithTuner(d, F!fc0013_set_lna_gain(d.t, gain, bad))
      [] d.kind = "FC2580" -> [d EXCEPT !.ok = TRUE]

tuner_set_gain_mode(d, manual, bad) ==
    CASE Rafael(d.kind) -> WithTuner(d, R!r82xx_set_gain(d.t, manual, 0, bad))
      [] d.kind = "E4000" -> WithTuner(d, E!e4k_enable_manual_gain(d.t, manual, bad))
      [] d.kind = "FC0013" -> WithTuner(d, F!fc0013_set_gain_mode(d.t, manual, bad))
      [] OTHER -> [d EXCEPT !.ok = TRUE]

\* Only two of the tuners have an IF gain; the others' entry is NULL.
HasIfGain(kind) == Rafael(kind) \/ kind = "E4000"
tuner_set_if_gain(d, stage, gain, bad) ==
    IF Rafael(d.kind) THEN WithTuner(d, R!r82xx_set_if_gain(d.t, gain, bad))
    ELSE WithTuner(d, E!e4k_if_gain_set(d.t, stage, gain \div 10, bad))
----------------------------------------------------------------------------
(* The demodulator's registers.                                             *)

\* A step that is taken only when the one before went well.
Then(d, Step(_)) == IF d.ok THEN Step(d) ELSE d

Repeater(d, on) == [d EXCEPT !.repeater = on]
And(d, ok) == [d EXCEPT !.ok = @ /\ ok]

rtlsdr_set_if_freq(d, khz, bad) ==
    [d EXCEPT !.ddc = IF "ddc" \in bad THEN @ ELSE [freq |-> khz, corr |-> d.corr],
              !.ok = "ddc" \notin bad]

\* The resampler's register: the correction in 2^-24ths, in 14 bits.
ResamplerOffset(ppm) ==
    LET size == ((IF ppm < 0 THEN -ppm ELSE ppm) * 16777) \div 1000
    IN  (IF ppm > 0 THEN -size ELSE size) % 16384

rtlsdr_set_sample_freq_correction(d, ppm, bad) ==
    [d EXCEPT !.sro = IF "sro" \in bad THEN @ ELSE ResamplerOffset(ppm), !.ok = "sro" \notin bad]

SetMode(d, mode, bad) ==
    [d EXCEPT !.mode = IF "mode" \in bad THEN @ ELSE mode, !.ok = @ /\ "mode" \notin bad]
----------------------------------------------------------------------------
(* Tuning and direct sampling.  An R820T does not reach below 24 MHz: the   *)
(* driver then puts the tuner to sleep and samples the antenna directly.    *)

\* Faulty variant, the other ADC input.
WantsDirectInput1(d, khz) == IF d.kind = "R820T" /\ khz < 24000 THEN 1 ELSE 0

WantsDirect(d, khz) == IF d.kind = "R820T" /\ khz < 24000 THEN 2 ELSE 0

\* A tuning that failed leaves no frequency.
Tuned(d, khz) == [d EXCEPT !.freq = IF d.ok THEN khz ELSE 0]

\* Faulty variant: the repeater is left as the last call left it.
RetunedAsItIs(d, khz, bad) ==
    LET e == [d EXCEPT !.direct = WantsDirect(d, khz)]
    IN  Tuned(IF e.direct # 0 THEN rtlsdr_set_if_freq(e, khz, bad)
              ELSE tuner_set_freq(e, khz, bad), khz)

\* rtlsdr_set_center_freq without the switch at its end.
Retuned(d, khz, bad) ==
    LET e == [d EXCEPT !.direct = WantsDirect(d, khz)]
    IN  Tuned(IF e.direct # 0 THEN rtlsdr_set_if_freq(Repeater(e, FALSE), khz, bad)
              ELSE tuner_set_freq(Repeater(e, TRUE), khz, bad), khz)

\* The down-converter is set whether or not the tuner could be initialised.
ShiftedBy(d, khz, bad) == And(rtlsdr_set_if_freq(d, khz, bad), d.ok)

\* Faulty variant: only the flag is switched.
SwitchedFlagOnly(d, on, bad) == [d EXCEPT !.direct = on, !.ok = TRUE]

\* _rtlsdr_set_direct_sampling without the tuning at its end.
Switched(d, on, bad) ==
    IF on # 0
    THEN LET u == Repeater(tuner_exit(Repeater(d, TRUE), bad), FALSE)
         IN  [SetMode(u, "direct", bad) EXCEPT !.direct = on]
    ELSE LET u == Repeater(tuner_init(Repeater(d, TRUE), bad), FALSE)
             v == ShiftedBy(u, IF Rafael(d.kind) THEN R82xxIf ELSE 0, bad)
         IN  [SetMode(v, IF Rafael(d.kind) THEN "lowIf" ELSE "zeroIf", bad) EXCEPT !.direct = 0]

\* After a tuning to u: done, or the mode is switched to s and the frequency
\* that is noted then is to be tuned again.
ToBeTuned(r, s) == [r EXCEPT !.dev = s, !.ok = @ /\ s.ok]
SwitchIfNeeded(r, u, bad) ==
    IF u.direct = r.dev.direct THEN [r EXCEPT !.dev = And(u, r.ok), !.done = TRUE]
    ELSE ToBeTuned(r, Switched(u, u.direct, bad))

Round(r, khz, bad) == SwitchIfNeeded(r, Retuned(r.dev, khz, bad), bad)

\* The two call each other.  The second tuning is of the frequency the first
\* one left, which is 0 when it failed: that can switch once more, to direct
\* sampling, and there it ends.
RoundAgain(r, bad) == IF r.done THEN r ELSE Round(r, r.dev.freq, bad)

rtlsdr_set_center_freq(d, khz, bad) ==
    RoundAgain(RoundAgain(Round([dev |-> d, ok |-> TRUE, done |-> FALSE], khz, bad), bad), bad).dev
----------------------------------------------------------------------------
(* Bandwidth and sample rate.                                               *)

\* Faulty variant: the tuner is not tuned again.
r820t_set_bwOnly(d, bw, bad) ==
    Then(WithTuner(d, R!r82xx_set_bandwidth(d.t, bw, bad)),
         LAMBDA u : rtlsdr_set_if_freq(u, u.t.intFreq, bad))

\* The intermediate frequency depends on the filter: down-converter and
\* tuner follow it.  A failure on the way leaves what has been done.
r820t_set_bw(d, bw, bad) ==
    Then(Then(WithTuner(d, R!r82xx_set_bandwidth(d.t, bw, bad)),
              LAMBDA u : rtlsdr_set_if_freq(u, u.t.intFreq, bad)),
         LAMBDA v : rtlsdr_set_center_freq(v, v.freq, bad))

e4000_set_bw(t, bw, bad) ==
    LET u == E!e4k_if_filter_bw_set(t, "mix", bw, bad)
        v == E!e4k_if_filter_bw_set(u, "rc", bw, bad)
        w == E!e4k_if_filter_bw_set(v, "chan", bw, bad)
    IN  And(w, u.ok /\ v.ok)

tuner_set_bw(d, bw, bad) ==
    CASE Rafael(d.kind) -> r820t_set_bw(d, bw, bad)
      [] d.kind = "E4000" -> WithTuner(d, e4000_set_bw(d.t, bw, bad))
      [] d.kind = "FC2580" -> WithTuner(d, K!fc2580_SetBandwidthMode(d.t, bad))
      [] OTHER -> [d EXCEPT !.ok = TRUE]

\* The bandwidth that is asked for, or else the sample rate.
WantedBw(d) == IF d.bw > 0 THEN d.bw ELSE d.rate

Limited(d, bw) == [d EXCEPT !.bw = IF d.ok THEN bw ELSE @]

rtlsdr_set_tuner_bandwidth(d, bw, bad) ==
    Repeater(Limited(tuner_set_bw(Repeater(d, TRUE), WantedBw([d EXCEPT !.bw = bw]), bad), bw),
             FALSE)

ValidRate(khz) == khz \in 226..300 \cup 901..3200

\* The resampler is set to the ratio and then to the correction.
Resampled(d, khz, ppm, bad) ==
    And(rtlsdr_set_sample_freq_correction([d EXCEPT !.ratio = IF "ratio" \in bad THEN @ ELSE khz],
                                          ppm, bad),
        "ratio" \notin bad)

\* Nobody looks at the outcome of the bandwidth.
rtlsdr_set_sample_rate(d, khz, bad) ==
    LET e == [d EXCEPT !.rate = khz]
    IN  IF ValidRate(khz)
        THEN Resampled(Repeater(tuner_set_bw(Repeater(e, TRUE), WantedBw(e), bad), FALSE),
                       khz, d.corr, bad)
        ELSE [d EXCEPT !.ok = FALSE]
----------------------------------------------------------------------------
(* Frequency correction.                                                    *)

\* The correction is noted before anything is done; a value that is noted is
\* refused.
rtlsdr_set_freq_correction(d, ppm, bad) ==
    LET u == rtlsdr_set_sample_freq_correction([d EXCEPT !.corr = ppm], ppm, bad)
        v == IF Rafael(d.kind) THEN [u EXCEPT !.t.xtal = ppm] ELSE u
    IN  IF ppm = d.corr THEN [d EXCEPT !.ok = FALSE]
        ELSE IF d.freq = 0 THEN v
        ELSE And(rtlsdr_set_center_freq(v, d.freq, bad), v.ok)

\* Zero is not passed on.
verbose_ppm_set(d, ppm, bad) ==
    IF ppm = 0 THEN [d EXCEPT !.ok = TRUE] ELSE rtlsdr_set_freq_correction(d, ppm, bad)
----------------------------------------------------------------------------
(* Gain.                                                                    *)

rtlsdr_get_tuner_gains(kind) ==
    CASE kind = "E4000" -> <<-10, 15, 40, 65, 90, 115, 140, 165, 190, 215, 240, 290, 340, 420>>
      [] kind = "FC0012" -> <<-99, -40, 71, 179, 192>>
      [] kind = "FC0013" -> <<-99, -73, -65, -63, -60, -58, -54, 58, 61, 63, 65, 67, 68, 70, 71,
                              179, 181, 182, 184, 186, 188, 191, 197>>
      [] kind = "FC2580" -> <<0>>
      [] OTHER -> <<0, 9, 14, 27, 37, 77, 87, 125, 144, 157, 166, 197, 207, 229, 254, 280, 297,
                    328, 338, 364, 372, 386, 402, 421, 434, 439, 445, 480, 496>>

rtlsdr_set_tuner_gain_mode(d, manual, bad) ==
    tuner_set_gain_mode(Repeater(d, TRUE), manual, bad)

Amplified(d, gain) == [d EXCEPT !.gain = IF d.ok THEN gain ELSE 0]

rtlsdr_set_tuner_gain(d, gain, bad) ==
    Amplified(tuner_set_gain(Repeater(d, TRUE), gain, bad), gain)

rtlsdr_set_tuner_if_gain(d, stage, gain, bad) ==
    IF HasIfGain(d.kind) THEN tuner_set_if_gain(Repeater(d, TRUE), stage, gain, bad)
    ELSE [d EXCEPT !.ok = TRUE]

Off(a, b) == IF a > b THEN a - b ELSE b - a

\* The first of the closest gains.
NearestOf(gains, target) ==
    FoldLeft(LAMBDA best, g : IF Off(target, g) < Off(target, best) THEN g ELSE best,
             gains[1], gains)

\* The search for the gain first switches to manual gain, and so does
\* setting it.  (A search that fails gives its error code as the gain; the
\* setting then fails as well.)
nearest_gain(d, target, bad) ==
    LET u == rtlsdr_set_tuner_gain_mode(d, TRUE, bad)
    IN  [dev |-> u, gain |-> IF u.ok THEN NearestOf(rtlsdr_get_tuner_gains(d.kind), target) ELSE -1]

verbose_gain_set(d, gain, bad) ==
    Then(rtlsdr_set_tuner_gain_mode(d, TRUE, bad),
         LAMBDA u : rtlsdr_set_tuner_gain(u, gain, bad))

verbose_auto_gain(d, bad) == rtlsdr_set_tuner_gain_mode(d, FALSE, bad)
----------------------------------------------------------------------------
(* Open and close.                                                          *)

\* What malloc and memset leave, with the chip as it was found.
NewDevice(kind, chip) ==
    [kind |-> kind, freq |-> 0, rate |-> 0, bw |-> 0, corr |-> 0, gain |-> 0, direct |-> 0,
     ddc |-> [freq |-> 0, corr |-> 0], sro |-> 0, ratio |-> 0, mode |-> "zeroIf",
     repeater |-> FALSE, deaf |-> FALSE, ok |-> TRUE,
     t |-> IF Rafael(kind) THEN [R!Unused EXCEPT !.chip = chip.chip] ELSE chip]

\* Whether a known dongle with the number asked for is on the bus: "absent".
rtlsdr_get_device_count(bad) == IF "absent" \in bad THEN 0 ELSE 1
verbose_device_search(bad) == IF rtlsdr_get_device_count(bad) = 0 THEN -1 ELSE 0

\* The USB calls before the first register: libusb_open or the interface may
\* be refused ("usb"), and the kernel may keep its own driver ("driver").
\* Then the error returned is that of the call before, which went well: 0
\* without a device.
OpenError(bad) == IF "usb" \in bad THEN -1 ELSE 0
GivesDevice(bad) == {"usb", "driver"} \cap bad = {}

\* The outcome of the tuner's initialisation is not looked at.
rtlsdr_open(kind, chip, bad) ==
    LET d == Repeater(NewDevice(kind, chip), TRUE)
        u == IF Rafael(kind) THEN SetMode(rtlsdr_set_if_freq(d, R82xxIf, bad), "lowIf", bad) ELSE d
    IN  [Repeater(tuner_init(u, bad), FALSE) EXCEPT !.ok = TRUE]

\* The tuner is put to sleep; what the driver knew is freed, the chip stays.
rtlsdr_close(d, bad) ==
    LET u == tuner_exit(Repeater(d, TRUE), bad)
    IN  [NewDevice(d.kind, u.t) EXCEPT !.deaf = u.deaf]
=============================================================================
