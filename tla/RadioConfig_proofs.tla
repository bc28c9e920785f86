------------------------- MODULE RadioConfig_proofs -------------------------
(***************************************************************************)
(* Proofs about RadioConfig and the driver below it (Rtlsdr, R82xx, Fc001x, *)
(* E4k, Fc2580), for any frequencies, rates, bandwidths, gains and          *)
(* corrections, any faults of the bus, and any number of calls.             *)
(*                                                                          *)
(* In the lemmas bad is the set of register groups out of reach during a    *)
(* call, d the device before it and e or u the device after it.             *)
(***************************************************************************)
EXTENDS RadioConfig, SequenceTheorems, TLAPS

(****************************************************************************)
(* The device's own fields: each call of the driver leaves their types, the *)
(* kind of tuner, and the flag that no call has missed the tuner.           *)
(****************************************************************************)

DeviceFields == {"kind", "freq", "rate", "bw", "corr", "gain", "direct", "ddc", "sro", "ratio",
                 "mode", "repeater", "deaf", "ok", "t"}

\* A device of the right shape whose tuner no call has missed.
Fine(d) == /\ DOMAIN d = DeviceFields
           /\ d.kind \in Kinds /\ d.direct \in {0, 2}
           /\ d.freq \in Nat /\ d.rate \in Nat /\ d.bw \in Nat /\ d.corr \in Int
           /\ ~d.deaf

\* The same device after a call.
Same(d, e) == Fine(e) /\ e.kind = d.kind

\* What is done to the tuner while the repeater is on leaves the device fine.
LEMMA TunerStep ==
    ASSUME NEW d, NEW u, Fine(d), d.repeater
    PROVE  Same(d, WithTuner(d, u)) /\ WithTuner(d, u).repeater
BY DEF Same, Fine, WithTuner, DeviceFields

\* Switching the I2C repeater leaves the device fine.
LEMMA RepeaterStep ==
    ASSUME NEW d, NEW on, Fine(d)
    PROVE  Same(d, Repeater(d, on)) /\ Repeater(d, on).repeater = on
BY DEF Same, Fine, Repeater, DeviceFields

\* Setting the IF of the down-converter leaves the device fine.
LEMMA FreqStep ==
    ASSUME NEW d, NEW khz, NEW bad, Fine(d)
    PROVE  Same(d, rtlsdr_set_if_freq(d, khz, bad))
BY DEF Same, Fine, rtlsdr_set_if_freq, DeviceFields

\* Collecting outcomes leaves the device fine.
LEMMA OkStep ==
    ASSUME NEW d, NEW ok, Fine(d)
    PROVE  Same(d, And(d, ok)) /\ Same(d, [d EXCEPT !.ok = ok])
BY DEF Same, Fine, And, DeviceFields

\* A new device is fine.
LEMMA NewDeviceFine ==
    ASSUME NEW kind \in Kinds, NEW chip
    PROVE  Fine(NewDevice(kind, chip)) /\ NewDevice(kind, chip).kind = kind
BY DEF Fine, NewDevice, DeviceFields

\* Initialising the tuner with the repeater on leaves the device fine.
LEMMA TunerInit ==
    ASSUME NEW d, NEW bad, Fine(d), d.repeater
    PROVE  Same(d, tuner_init(d, bad))
BY TunerStep DEF tuner_init
\* Sending the tuner to standby with the repeater on leaves the device fine.
LEMMA TunerExit ==
    ASSUME NEW d, NEW bad, Fine(d), d.repeater
    PROVE  Same(d, tuner_exit(d, bad))
BY TunerStep, OkStep DEF tuner_exit
\* Tuning with the repeater on leaves the device fine.
LEMMA TunerFreq ==
    ASSUME NEW d, NEW khz, NEW bad, Fine(d), d.repeater
    PROVE  Same(d, tuner_set_freq(d, khz, bad))
BY TunerStep DEF tuner_set_freq

\* The device's own fields may be set to anything of their types.
LEMMA FieldSteps ==
    ASSUME NEW d, Fine(d)
    PROVE  /\ \A on \in {0, 2} : Same(d, [d EXCEPT !.direct = on])
           /\ \A khz \in Nat : Same(d, [d EXCEPT !.freq = khz])
           /\ \A khz \in Nat : Same(d, [d EXCEPT !.bw = khz]) 
           /\ \A khz \in Nat : Same(d, [d EXCEPT !.rate = khz]) 
           /\ \A ppm \in Int : Same(d, [d EXCEPT !.corr = ppm]) 
           /\ \A v : Same(d, [d EXCEPT !.ratio = v]) /\ Same(d, [d EXCEPT !.gain = v])
                     /\ Same(d, [d EXCEPT !.t = v])
BY DEF Same, Fine, DeviceFields

\* One call after another.
LEMMA SameTrans == /\ \A d, e, g : Same(d, e) /\ Same(e, g) => Same(d, g)
                   /\ \A d, e : Same(d, e) => Fine(e)
BY DEF Same

\* Setting the demodulator's mode leaves the device fine.
LEMMA ModeStep ==
    ASSUME NEW d, NEW mode, NEW bad, Fine(d)
    PROVE  Same(d, SetMode(d, mode, bad))
BY DEF Same, Fine, SetMode, DeviceFields

\* Direct sampling is off (0) or on the Q branch (2).
LEMMA WantsDirectIs == \A d, khz : WantsDirect(d, khz) \in {0, 2}
BY DEF WantsDirect

\* A tuning switches the repeater itself, so it leaves the device fine.
LEMMA RetunedFine ==
    ASSUME NEW d, NEW khz \in Nat, NEW bad, Fine(d)
    PROVE  Same(d, Retuned(d, khz, bad))
<1> DEFINE e == [d EXCEPT !.direct = WantsDirect(d, khz)]
           f == IF e.direct # 0 THEN rtlsdr_set_if_freq(Repeater(e, FALSE), khz, bad)
                ELSE tuner_set_freq(Repeater(e, TRUE), khz, bad)
<1>1. Same(d, e)
  BY FieldSteps, WantsDirectIs
<1> HIDE DEF e
<1>2. Same(e, f)
  <2>1. Same(Repeater(e, FALSE), rtlsdr_set_if_freq(Repeater(e, FALSE), khz, bad))
    BY <1>1, RepeaterStep, FreqStep, SameTrans
  <2>2. Same(Repeater(e, TRUE), tuner_set_freq(Repeater(e, TRUE), khz, bad))
    BY <1>1, RepeaterStep, TunerFreq, SameTrans
  <2> QED  BY <2>1, <2>2, <1>1, RepeaterStep, SameTrans
<1> HIDE DEF f
<1>3. Same(f, Tuned(f, khz))
  BY <1>2, FieldSteps, SameTrans DEF Tuned
<1>4. Retuned(d, khz, bad) = Tuned(f, khz)
  BY DEF Retuned, e, f
<1> QED  BY <1>1, <1>2, <1>3, <1>4, SameTrans

\* So does a switch to direct sampling or back.
LEMMA SwitchedFine ==
    ASSUME NEW d, NEW on \in {0, 2}, NEW bad, Fine(d)
    PROVE  Same(d, Switched(d, on, bad))
<1>1. ASSUME NEW e, Same(d, e), NEW mode
      PROVE  Same(d, [SetMode(Repeater(e, FALSE), mode, bad) EXCEPT !.direct = on])
  BY <1>1, RepeaterStep, ModeStep, FieldSteps, SameTrans
<1>2. ASSUME NEW e, Same(d, e), NEW mode, NEW khz
      PROVE  Same(d, [SetMode(ShiftedBy(Repeater(e, FALSE), khz, bad), mode, bad)
                        EXCEPT !.direct = 0])
  <2> DEFINE g == rtlsdr_set_if_freq(Repeater(e, FALSE), khz, bad)
             h == And(g, Repeater(e, FALSE).ok)
  <2>1. Same(d, g)
    BY <1>2, RepeaterStep, FreqStep, SameTrans
  <2> HIDE DEF g
  <2>2. Same(d, h)
    BY <2>1, OkStep, SameTrans
  <2>3. h = ShiftedBy(Repeater(e, FALSE), khz, bad)
    BY DEF ShiftedBy, g
  <2> HIDE DEF h
  <2> QED  BY <2>2, <2>3, ModeStep, FieldSteps, SameTrans
<1>3. Same(d, tuner_exit(Repeater(d, TRUE), bad)) /\ Same(d, tuner_init(Repeater(d, TRUE), bad))
  BY RepeaterStep, TunerExit, TunerInit, SameTrans
<1> QED  BY <1>1, <1>2, <1>3 DEF Switched

\* A round of the loop between tuning and direct sampling.
IsRound(r) == DOMAIN r = {"dev", "ok", "done"} /\ Fine(r.dev)

\* A round of that loop leaves the device fine.
LEMMA RoundFine ==
    ASSUME NEW r, NEW khz \in Nat, NEW bad, IsRound(r)
    PROVE  IsRound(Round(r, khz, bad)) /\ Same(r.dev, Round(r, khz, bad).dev)
<1> DEFINE u == Retuned(r.dev, khz, bad)
<1>1. Same(r.dev, u)
  BY RetunedFine DEF IsRound
<1>2. Round(r, khz, bad) = SwitchIfNeeded(r, u, bad)
  BY DEF Round
<1> HIDE DEF u
<1>3. Same(r.dev, And(u, r.ok))
  BY <1>1, OkStep, SameTrans
<1>4. Same(r.dev, Switched(u, u.direct, bad))
  BY <1>1, SwitchedFine, SameTrans DEF Same, Fine
<1> QED  BY <1>1, <1>2, <1>3, <1>4 DEF IsRound, SwitchIfNeeded, ToBeTuned, Same

\* rtlsdr_set_center_freq leaves the device fine.
LEMMA CentreFreqFine ==
    ASSUME NEW d, NEW khz \in Nat, NEW bad, Fine(d)
    PROVE  Same(d, rtlsdr_set_center_freq(d, khz, bad))
<1> DEFINE r0 == [dev |-> d, ok |-> TRUE, done |-> FALSE]
           r1 == Round(r0, khz, bad)
           r2 == RoundAgain(r1, bad)
           r3 == RoundAgain(r2, bad)
<1>1. IsRound(r0) /\ r0.dev = d
  BY DEF IsRound
<1> HIDE DEF r0
<1>2. IsRound(r1) /\ Same(d, r1.dev)
  BY <1>1, RoundFine
<1> HIDE DEF r1
<1>3. IsRound(r2) /\ Same(d, r2.dev)
  BY <1>2, RoundFine, SameTrans DEF RoundAgain, IsRound, Fine
<1> HIDE DEF r2
<1>4. IsRound(r3) /\ Same(d, r3.dev)
  BY <1>3, RoundFine, SameTrans DEF RoundAgain, IsRound, Fine
<1> QED  BY <1>4 DEF rtlsdr_set_center_freq, r0, r1, r2, r3

\* r820t_set_bw, which tunes again in the middle, leaves the device fine
\* (the repeater it was given on is on again for what follows).
LEMMA BandwidthR820t ==
    ASSUME NEW d, NEW bw, NEW bad, Fine(d), d.repeater
    PROVE  Same(d, r820t_set_bw(d, bw, bad))
<1> DEFINE u == WithTuner(d, R!r82xx_set_bandwidth(d.t, bw, bad))
           v == Then(u, LAMBDA x : rtlsdr_set_if_freq(x, x.t.intFreq, bad))
<1>1. Same(d, u)
  BY TunerStep
<1> HIDE DEF u
<1>2. v = IF u.ok THEN rtlsdr_set_if_freq(u, u.t.intFreq, bad) ELSE u
  BY DEF Then
<1>3. Same(d, v)
  BY <1>1, <1>2, FreqStep, SameTrans
<1>4. r820t_set_bw(d, bw, bad) = Then(v, LAMBDA x : rtlsdr_set_center_freq(x, x.freq, bad))
  BY DEF r820t_set_bw, u
<1> HIDE DEF v
<1>5. r820t_set_bw(d, bw, bad) = IF v.ok THEN rtlsdr_set_center_freq(v, v.freq, bad) ELSE v
  BY <1>4 DEF Then
<1>6. Fine(v) /\ v.freq \in Nat
  BY <1>3, SameTrans DEF Fine
<1> QED  BY <1>3, <1>5, <1>6, CentreFreqFine, SameTrans

\* The bandwidth of every tuner leaves the device fine.
LEMMA BandwidthFine ==
    ASSUME NEW d, NEW bw, NEW bad, Fine(d), d.repeater
    PROVE  Same(d, tuner_set_bw(d, bw, bad))
BY BandwidthR820t, TunerStep, OkStep DEF tuner_set_bw

\* rtlsdr_set_tuner_bandwidth leaves the device fine.
LEMMA SetBandwidthFine ==
    ASSUME NEW d, NEW bw \in Nat, NEW bad, Fine(d)
    PROVE  Same(d, rtlsdr_set_tuner_bandwidth(d, bw, bad))
<1> DEFINE w == WantedBw([d EXCEPT !.bw = bw])
           u == tuner_set_bw(Repeater(d, TRUE), w, bad)
<1>1. Same(d, u)
  <2> HIDE DEF w
  <2> QED  BY RepeaterStep, BandwidthFine, SameTrans
<1>2. rtlsdr_set_tuner_bandwidth(d, bw, bad) = Repeater(Limited(u, bw), FALSE)
  BY DEF rtlsdr_set_tuner_bandwidth
<1> HIDE DEF u
<1>3. Same(d, Limited(u, bw))
  <2>1. Fine(u) /\ u.bw \in Nat
    BY <1>1, SameTrans DEF Fine
  <2> QED  BY <1>1, <2>1, FieldSteps, SameTrans DEF Limited
<1> QED  BY <1>2, <1>3, RepeaterStep, SameTrans

\* The resampler's correction leaves the device fine.
LEMMA OffsetStep ==
    ASSUME NEW d, NEW ppm, NEW bad, Fine(d)
    PROVE  Same(d, rtlsdr_set_sample_freq_correction(d, ppm, bad))
BY DEF Same, Fine, rtlsdr_set_sample_freq_correction, DeviceFields

\* rtlsdr_set_sample_rate leaves the device fine.
LEMMA SetRateFine ==
    ASSUME NEW d, NEW khz \in Nat, NEW bad, Fine(d)
    PROVE  Same(d, rtlsdr_set_sample_rate(d, khz, bad))
<1> DEFINE e == [d EXCEPT !.rate = khz]
           u == Repeater(tuner_set_bw(Repeater(e, TRUE), WantedBw(e), bad), FALSE)
           v == [u EXCEPT !.ratio = IF "ratio" \in bad THEN @ ELSE khz]
           w == rtlsdr_set_sample_freq_correction(v, d.corr, bad)
<1>1. Same(d, e)
  BY FieldSteps
<1> HIDE DEF e
<1>2. Same(d, u)
  BY <1>1, RepeaterStep, BandwidthFine, SameTrans
<1> HIDE DEF u
<1>3. Same(d, v)
  BY <1>2, FieldSteps, SameTrans
<1> HIDE DEF v
<1>4. Same(d, w)
  BY <1>3, OffsetStep, SameTrans
<1>5. rtlsdr_set_sample_rate(d, khz, bad)
        = IF ValidRate(khz) THEN And(w, "ratio" \notin bad) ELSE [d EXCEPT !.ok = FALSE]
  BY DEF rtlsdr_set_sample_rate, Resampled, e, u, v
<1> HIDE DEF w
<1>6. Same(d, And(w, "ratio" \notin bad)) /\ Same(d, [d EXCEPT !.ok = FALSE])
  BY <1>4, OkStep, SameTrans
<1> QED  BY <1>5, <1>6

\* verbose_ppm_set leaves the device fine.
LEMMA SetCorrectionFine ==
    ASSUME NEW d, NEW ppm \in Int, NEW bad, Fine(d)
    PROVE  Same(d, verbose_ppm_set(d, ppm, bad))
<1> DEFINE e == [d EXCEPT !.corr = ppm]
           u == rtlsdr_set_sample_freq_correction(e, ppm, bad)
           v == IF Rafael(d.kind) THEN [u EXCEPT !.t.xtal = ppm] ELSE u
<1>1. Same(d, e)
  BY FieldSteps
<1> HIDE DEF e
<1>2. Same(d, u)
  BY <1>1, OffsetStep, SameTrans
<1> HIDE DEF u
<1>3. Same(d, v)
  BY <1>2, FieldSteps, SameTrans
<1>4. Same(d, And(rtlsdr_set_center_freq(v, d.freq, bad), v.ok))
  <2> HIDE DEF v
  <2>1. d.freq \in Nat
    BY DEF Fine
  <2> QED  BY <2>1, <1>3, CentreFreqFine, OkStep, SameTrans
<1>5. rtlsdr_set_freq_correction(d, ppm, bad)
        = IF ppm = d.corr THEN [d EXCEPT !.ok = FALSE]
          ELSE IF d.freq = 0 THEN v ELSE And(rtlsdr_set_center_freq(v, d.freq, bad), v.ok)
  BY DEF rtlsdr_set_freq_correction, e, u
<1> HIDE DEF v
<1> QED  BY <1>3, <1>4, <1>5, OkStep DEF verbose_ppm_set

\* rtlsdr_set_tuner_gain_mode leaves the device fine.
LEMMA GainModeFine ==
    ASSUME NEW d, NEW manual, NEW bad, Fine(d)
    PROVE  Same(d, rtlsdr_set_tuner_gain_mode(d, manual, bad))
<1>1. ASSUME NEW e, Fine(e), e.repeater
      PROVE  Same(e, tuner_set_gain_mode(e, manual, bad))
  BY <1>1, TunerStep, OkStep DEF tuner_set_gain_mode
<1> QED  BY <1>1, RepeaterStep, SameTrans DEF rtlsdr_set_tuner_gain_mode

\* rtlsdr_set_tuner_gain leaves the device fine.
LEMMA GainFine ==
    ASSUME NEW d, NEW gain, NEW bad, Fine(d)
    PROVE  Same(d, rtlsdr_set_tuner_gain(d, gain, bad))
<1>1. ASSUME NEW e, Fine(e), e.repeater
      PROVE  Same(e, tuner_set_gain(e, gain, bad))
  <2>1. e.kind \in Kinds /\ Same(e, [e EXCEPT !.ok = TRUE])
    BY <1>1, OkStep DEF Fine
  <2> QED  BY <1>1, <2>1, TunerStep DEF tuner_set_gain, Kinds, Rafael
<1>2. ASSUME NEW e, Fine(e)
      PROVE  Same(e, Amplified(e, gain))
  BY <1>2, FieldSteps DEF Amplified
<1> QED  BY <1>1, <1>2, RepeaterStep, SameTrans DEF rtlsdr_set_tuner_gain

\* rtlsdr_set_tuner_if_gain leaves the device fine.
LEMMA IfGainFine ==
    ASSUME NEW d, NEW stage, NEW gain, NEW bad, Fine(d)
    PROVE  Same(d, rtlsdr_set_tuner_if_gain(d, stage, gain, bad))
<1>1. ASSUME NEW e, Fine(e), e.repeater
      PROVE  Same(e, tuner_set_if_gain(e, stage, gain, bad))
  BY <1>1, TunerStep, OkStep DEF tuner_set_if_gain
<1> QED  BY <1>1, RepeaterStep, OkStep, SameTrans DEF rtlsdr_set_tuner_if_gain

\* verbose_gain_set leaves the device fine.
LEMMA SetGainFine ==
    ASSUME NEW d, NEW gain, NEW bad, Fine(d)
    PROVE  Same(d, verbose_gain_set(d, gain, bad))
<1> DEFINE u == rtlsdr_set_tuner_gain_mode(d, TRUE, bad)
<1>1. Same(d, u)
  BY GainModeFine
<1>2. verbose_gain_set(d, gain, bad) = IF u.ok THEN rtlsdr_set_tuner_gain(u, gain, bad) ELSE u
  BY DEF verbose_gain_set, Then
<1> HIDE DEF u
<1> QED  BY <1>1, <1>2, GainFine, SameTrans

\* rtlsdr_open gives a fine device, whatever is out of reach.
LEMMA OpenFine ==
    ASSUME NEW kind \in Kinds, NEW chip, NEW bad
    PROVE  Fine(rtlsdr_open(kind, chip, bad)) /\ rtlsdr_open(kind, chip, bad).kind = kind
<1> DEFINE d == Repeater(NewDevice(kind, chip), TRUE)
           u == IF Rafael(kind) THEN SetMode(rtlsdr_set_if_freq(d, R82xxIf, bad), "lowIf", bad)
                ELSE d
<1>1. Fine(d) /\ d.repeater /\ d.kind = kind
  <2>1. Fine(NewDevice(kind, chip)) /\ NewDevice(kind, chip).kind = kind
    BY NewDeviceFine
  <2> QED  BY <2>1, RepeaterStep DEF Same
<1> HIDE DEF d
<1>2. Same(d, u) /\ u.repeater
  <2>1. Same(d, u)
    BY <1>1, FreqStep, ModeStep, SameTrans DEF Same
  <2>2. rtlsdr_set_if_freq(d, R82xxIf, bad).repeater
    BY <1>1 DEF rtlsdr_set_if_freq, Fine, DeviceFields
  <2>3. u.repeater
    BY <1>1, <2>2, FreqStep DEF SetMode, Same, Fine, DeviceFields
  <2> QED  BY <2>1, <2>3
<1> HIDE DEF u
<1>3. Same(d, [Repeater(tuner_init(u, bad), FALSE) EXCEPT !.ok = TRUE])
  BY <1>2, TunerInit, RepeaterStep, OkStep, SameTrans
<1> QED  BY <1>1, <1>3 DEF rtlsdr_open, u, d, Same

\* rtlsdr_close leaves a fine device.
LEMMA CloseFine ==
    ASSUME NEW d, NEW bad, Fine(d)
    PROVE  Same(d, rtlsdr_close(d, bad))
<1> DEFINE u == tuner_exit(Repeater(d, TRUE), bad)
<1>1. Same(d, u) /\ d.kind \in Kinds
  BY RepeaterStep, TunerExit, SameTrans DEF Fine
<1> HIDE DEF u
<1>2. rtlsdr_close(d, bad) = [NewDevice(d.kind, u.t) EXCEPT !.deaf = u.deaf]
  BY DEF rtlsdr_close, u
<1>3. Fine(NewDevice(d.kind, u.t)) /\ NewDevice(d.kind, u.t).kind = d.kind
  BY <1>1, NewDeviceFine
<1>4. ~u.deaf
  BY <1>1 DEF Same, Fine
<1> QED  BY <1>2, <1>3, <1>4 DEF Same, Fine, DeviceFields

(****************************************************************************)
(* Radio's part: types, and the first invariant.                            *)
(****************************************************************************)

Attributes == [freq : Nat, rate : Nat, bw : Nat, gain : Nat, ifGain : Nat, adjustable : Nat,
               warp : Int]

\* Radio's record of the right shape.
IsConfig(c) ==
    /\ DOMAIN c = {"attr", "dev", "isOpen", "enabled", "success", "tunedAt", "unsure", "reset"}
    /\ c.attr \in Attributes
    /\ c.isOpen \in BOOLEAN /\ c.enabled \in BOOLEAN
    /\ c.unsure \subseteq Settings /\ c.reset \subseteq TunerSettings
    /\ Fine(c.dev)

\* A set function neither opens nor closes the device.
Keeps(c, e) == IsConfig(e) /\ e.isOpen = c.isOpen /\ e.enabled = c.enabled

\* One set function after another.
LEMMA KeepsTrans == /\ \A c, e, g : Keeps(c, e) /\ Keeps(e, g) => Keeps(c, g)
                    /\ \A c, e : Keeps(c, e) => IsConfig(e)
BY DEF Keeps

\* Only settings become unsure, and only the tuner's are reset.
LEMMA UnsureIs ==
    ASSUME NEW c, NEW u, NEW setting \in Settings \ {"input"}, NEW bad,
           c.unsure \subseteq Settings, c.reset \subseteq TunerSettings
    PROVE  /\ StillUnsure(c, u, setting, bad) \subseteq Settings
           /\ StillReset(c, u, setting, bad) \subseteq TunerSettings
<1>1. Disturbs(setting, c.dev, u) \subseteq Settings
  BY DEF Disturbs, Touches, Settings
<1>2. TunerSettings \subseteq Settings
  BY DEF TunerSettings, Settings
<1> QED  BY <1>1, <1>2 DEF StillUnsure, StillReset

\* The shape of the set functions keeps Radio's record in shape.
LEMMA ApplyKeeps ==
    ASSUME NEW c, NEW setting \in Settings \ {"input"}, NEW value, NEW u, NEW bad,
           IsConfig(c), Same(c.dev, u), [c.attr EXCEPT ![setting] = value] \in Attributes
    PROVE  Keeps(c, Apply(c, setting, value, u, bad))
<1>1. c.unsure \subseteq Settings /\ c.reset \subseteq TunerSettings
  BY DEF IsConfig
<1> DEFINE s == StillUnsure(c, u, setting, bad)
           r == StillReset(c, u, setting, bad)
<1>2. s \subseteq Settings /\ r \subseteq TunerSettings
  BY <1>1, UnsureIs
<1>3. Apply(c, setting, value, u, bad)
        = IF ~c.isOpen THEN [c EXCEPT !.attr[setting] = value, !.success = TRUE]
          ELSE [c EXCEPT !.dev = u, !.success = u.ok,
                         !.attr[setting] = IF u.ok THEN value ELSE @,
                         !.tunedAt = IF u.ok /\ setting = "freq" THEN c.attr.rate ELSE @,
                         !.unsure = s, !.reset = r]
  BY DEF Apply
<1> HIDE DEF s, r
<1>4. [c.attr EXCEPT ![setting] = @] \in Attributes
  BY DEF IsConfig, Attributes, Settings
<1>5. Fine(u)
  BY SameTrans
<1> HIDE DEF Attributes
<1> QED  BY <1>2, <1>3, <1>4, <1>5 DEF IsConfig, Keeps

\* setReceiveFrequency keeps Radio's record in shape.
LEMMA SetFrequencyKeeps ==
    ASSUME NEW c, NEW khz \in Nat, NEW bad, IsConfig(c)
    PROVE  Keeps(c, setReceiveFrequency(c, khz, bad))
<1>1. khz + c.attr.rate \div 4 \in Nat
  BY DEF IsConfig, Attributes
<1>2. Same(c.dev, rtlsdr_set_center_freq(c.dev, khz + c.attr.rate \div 4, bad))
  BY <1>1, CentreFreqFine DEF IsConfig
<1>3. [c.attr EXCEPT !.freq = khz] \in Attributes
  BY DEF IsConfig, Attributes
<1> QED  BY <1>2, <1>3, ApplyKeeps DEF setReceiveFrequency, Settings

\* setReceiveSampleRate does.
LEMMA SetSampleRateKeeps ==
    ASSUME NEW c, NEW khz \in Nat, NEW bad, IsConfig(c)
    PROVE  Keeps(c, setReceiveSampleRate(c, khz, bad))
<1>2. Same(c.dev, rtlsdr_set_sample_rate(c.dev, khz, bad))
  BY SetRateFine DEF IsConfig
<1>3. [c.attr EXCEPT !.rate = khz] \in Attributes
  BY DEF IsConfig, Attributes
<1> QED  BY <1>2, <1>3, ApplyKeeps DEF setReceiveSampleRate, Settings

\* setReceiveBandwidth does.
LEMMA SetBandwidthKeeps ==
    ASSUME NEW c, NEW khz \in Nat, NEW bad, IsConfig(c)
    PROVE  Keeps(c, setReceiveBandwidth(c, khz, bad))
<1>2. Same(c.dev, rtlsdr_set_tuner_bandwidth(c.dev, khz, bad))
  BY SetBandwidthFine DEF IsConfig
<1>3. [c.attr EXCEPT !.bw = khz] \in Attributes
  BY DEF IsConfig, Attributes
<1> QED  BY <1>2, <1>3, ApplyKeeps DEF setReceiveBandwidth, Settings

\* setReceiveGainInDb does, automatic or not.
LEMMA SetGainKeeps ==
    ASSUME NEW c, NEW gain \in Nat, NEW bad, IsConfig(c)
    PROVE  Keeps(c, setReceiveGainInDb(c, gain, bad))
<1> DEFINE n == nearest_gain(c.dev, 10 * gain, bad)
           u == IF gain = AutoGain THEN verbose_auto_gain(c.dev, bad)
                ELSE verbose_gain_set(n.dev, n.gain, bad)
<1>1. Fine(c.dev)
  BY DEF IsConfig
<1>2. n.dev = rtlsdr_set_tuner_gain_mode(c.dev, TRUE, bad)
  BY DEF nearest_gain
<1> HIDE DEF n
<1>3. Same(c.dev, u)
  BY <1>1, <1>2, GainModeFine, SetGainFine, SameTrans DEF verbose_auto_gain
<1>4. [c.attr EXCEPT !.gain = gain] \in Attributes
  BY DEF IsConfig, Attributes
<1>5. setReceiveGainInDb(c, gain, bad) = Apply(c, "gain", gain, u, bad)
  BY DEF setReceiveGainInDb, n
<1> HIDE DEF u
<1> QED  BY <1>3, <1>4, <1>5, ApplyKeeps DEF Settings

\* setReceiveIfGainInDb does, with the copy of the gain for the squelch.
LEMMA SetIfGainKeeps ==
    ASSUME NEW c, NEW stage, NEW gain \in Nat, NEW bad, IsConfig(c)
    PROVE  Keeps(c, setReceiveIfGainInDb(c, stage, gain, bad))
<1> DEFINE u == Apply(c, "ifGain", gain, rtlsdr_set_tuner_if_gain(c.dev, stage, 10 * gain, bad),
                      bad)
<1>1. Same(c.dev, rtlsdr_set_tuner_if_gain(c.dev, stage, 10 * gain, bad))
  BY IfGainFine DEF IsConfig
<1>2. [c.attr EXCEPT !.ifGain = gain] \in Attributes
  BY DEF IsConfig, Attributes
<1>3. Keeps(c, u)
  BY <1>1, <1>2, ApplyKeeps DEF Settings
<1>4. setReceiveIfGainInDb(c, stage, gain, bad)
        = [u EXCEPT !.attr.adjustable = IF u.success THEN gain ELSE @]
  BY DEF setReceiveIfGainInDb
<1> HIDE DEF u
<1>5. [u.attr EXCEPT !.adjustable = gain] \in Attributes /\ [u.attr EXCEPT !.adjustable = @] \in Attributes
  BY <1>3 DEF Keeps, IsConfig, Attributes
<1> QED  BY <1>3, <1>4, <1>5 DEF Keeps, IsConfig

\* setReceiveWarpInPartsPerMillion does.
LEMMA SetWarpKeeps ==
    ASSUME NEW c, NEW ppm \in Int, NEW bad, IsConfig(c)
    PROVE  Keeps(c, setReceiveWarpInPartsPerMillion(c, ppm, bad))
<1>2. Same(c.dev, verbose_ppm_set(c.dev, ppm, bad))
  BY SetCorrectionFine DEF IsConfig
<1>3. [c.attr EXCEPT !.warp = ppm] \in Attributes
  BY DEF IsConfig, Attributes
<1> QED  BY <1>2, <1>3, ApplyKeeps DEF setReceiveWarpInPartsPerMillion, Settings

\* The set functions a start calls, by the setting they apply: alone, and after
\* another whose failure is remembered.
setAttribute(c, setting, bad) ==
    CASE setting = "freq" -> setReceiveFrequency(c, c.attr.freq, bad)
      [] setting = "rate" -> setReceiveSampleRate(c, c.attr.rate, bad)
      [] setting = "bw" -> setReceiveBandwidth(c, c.attr.bw, bad)
      [] setting = "ifGain" -> setReceiveIfGainInDb(c, 0, c.attr.ifGain, bad)
      [] setting = "gain" -> setReceiveGainInDb(c, c.attr.gain, bad)
      [] setting = "warp" -> setReceiveWarpInPartsPerMillion(c, c.attr.warp, bad)

AlsoApplied(c, setting, bad) == With(setAttribute(c, setting, bad), c.success)

\* They are the steps of a start.
LEMMA StartSteps ==
    ASSUME NEW c, NEW bad
    PROVE  /\ setReceiveFrequency(c, c.attr.freq, bad) = setAttribute(c, "freq", bad)
           /\ RateApplied(c, bad) = AlsoApplied(c, "rate", bad)
           /\ BandwidthApplied(c, bad) = AlsoApplied(c, "bw", bad)
           /\ IfGainApplied(c, bad) = AlsoApplied(c, "ifGain", bad)
           /\ GainApplied(c, bad) = AlsoApplied(c, "gain", bad)
           /\ WarpApplied(c, bad) = AlsoApplied(c, "warp", bad)
BY DEF setAttribute, AlsoApplied, RateApplied, BandwidthApplied, IfGainApplied, GainApplied,
   WarpApplied

\* A start applies them in this order.
LEMMA AllAppliedIs ==
    ASSUME NEW c, NEW bad,
           NEW c1, c1 = setAttribute(c, "freq", bad), NEW c2, c2 = AlsoApplied(c1, "rate", bad),
           NEW c3, c3 = AlsoApplied(c2, "bw", bad), NEW c4, c4 = AlsoApplied(c3, "ifGain", bad),
           NEW c5, c5 = AlsoApplied(c4, "gain", bad)
    PROVE  AllApplied(c, bad) = AlsoApplied(c5, "warp", bad)
<1>1. c1 = setReceiveFrequency(c, c.attr.freq, bad)
  BY StartSteps
<1>2. c2 = RateApplied(c1, bad)
  BY StartSteps
<1>3. c3 = BandwidthApplied(c2, bad)
  BY StartSteps
<1>4. c4 = IfGainApplied(c3, bad)
  BY StartSteps
<1>5. c5 = GainApplied(c4, bad)
  BY StartSteps
<1>6. AllApplied(c, bad) = WarpApplied(c5, bad)
  BY <1>1, <1>2, <1>3, <1>4, <1>5 DEF AllApplied, AllButWarpApplied
<1> QED  BY <1>6, StartSteps

\* Applying what is noted does.
LEMMA AttributeKeeps ==
    ASSUME NEW c, NEW setting \in {"freq", "rate", "bw", "ifGain", "gain", "warp"}, NEW bad, IsConfig(c)
    PROVE  Keeps(c, setAttribute(c, setting, bad)) /\ Keeps(c, AlsoApplied(c, setting, bad))
<1>1. /\ c.attr.freq \in Nat /\ c.attr.rate \in Nat /\ c.attr.bw \in Nat
      /\ c.attr.ifGain \in Nat /\ c.attr.gain \in Nat /\ c.attr.warp \in Int
  BY DEF IsConfig, Attributes
<1>2. Keeps(c, setAttribute(c, setting, bad))
  BY <1>1, SetFrequencyKeeps, SetSampleRateKeeps, SetBandwidthKeeps, SetGainKeeps,
     SetIfGainKeeps, SetWarpKeeps DEF setAttribute
<1> DEFINE u == setAttribute(c, setting, bad)
<1>3. AlsoApplied(c, setting, bad) = [u EXCEPT !.success = @ /\ c.success]
  BY DEF AlsoApplied, With
<1> HIDE DEF u
<1>4. Keeps(c, u)
  BY <1>2 DEF u
<1>5. Keeps(c, [u EXCEPT !.success = @ /\ c.success])
  BY <1>4 DEF Keeps, IsConfig
<1> QED  BY <1>2, <1>3, <1>5

\* Applying all that is noted does.
LEMMA AllAppliedKeeps ==
    ASSUME NEW c, NEW bad, IsConfig(c)
    PROVE  Keeps(c, AllApplied(c, bad))
<1> DEFINE c1 == setAttribute(c, "freq", bad)
           c2 == AlsoApplied(c1, "rate", bad)
           c3 == AlsoApplied(c2, "bw", bad)
           c4 == AlsoApplied(c3, "ifGain", bad)
           c5 == AlsoApplied(c4, "gain", bad)
           c6 == AlsoApplied(c5, "warp", bad)
<1>1. Keeps(c, c1)  BY AttributeKeeps
<1> HIDE DEF c1
<1>2. Keeps(c, c2)  BY <1>1, AttributeKeeps, KeepsTrans
<1> HIDE DEF c2
<1>3. Keeps(c, c3)  BY <1>2, AttributeKeeps, KeepsTrans
<1> HIDE DEF c3
<1>4. Keeps(c, c4)  BY <1>3, AttributeKeeps, KeepsTrans
<1> HIDE DEF c4
<1>5. Keeps(c, c5)  BY <1>4, AttributeKeeps, KeepsTrans
<1> HIDE DEF c5
<1>6. Keeps(c, c6)  BY <1>5, AttributeKeeps, KeepsTrans
<1>7. c6 = AllApplied(c, bad)
  BY AllAppliedIs DEF c1, c2, c3, c4, c5
<1> QED  BY <1>6, <1>7

\* Opening the device keeps the record in shape.
LEMMA OpenedIs ==
    ASSUME NEW c, NEW bad, IsConfig(c)
    PROVE  IsConfig(Opened(c, bad)) /\ Opened(c, bad).enabled = c.enabled
<1>1. Fine(rtlsdr_open(c.dev.kind, c.dev.t, bad))
  BY OpenFine DEF IsConfig, Fine
<1> QED  BY <1>1 DEF Opened, IsConfig

\* Only an enabled receiver has a device open.
Settling(c) == IsConfig(c) /\ (c.isOpen => c.enabled)

\* A start that fails closes what it opened.
LEMMA StartSettles ==
    ASSUME NEW c, NEW bad, Settling(c)
    PROVE  Settling(startReceiver(c, bad))
<1> DEFINE e == AllApplied(Opened(c, bad), bad)
<1>1. IsConfig(e)
  BY OpenedIs, AllAppliedKeeps, KeepsTrans DEF Settling
<1>2. IsConfig([c EXCEPT !.success = TRUE]) /\ IsConfig([c EXCEPT !.success = FALSE])
  BY DEF Settling, IsConfig
<1> HIDE DEF e
<1>3. IsConfig(Started(e, bad)) /\ (Started(e, bad).isOpen => Started(e, bad).enabled)
  <2>1. Fine(e.dev) /\ Fine(rtlsdr_close(e.dev, bad))
    BY <1>1, CloseFine, SameTrans DEF IsConfig
  <2> QED  BY <1>1, <2>1 DEF IsConfig, Started
<1> QED  BY <1>2, <1>3 DEF startReceiver, e, Settling, IsConfig

\* A stop closes the device.
LEMMA StopSettles ==
    ASSUME NEW c, NEW bad, Settling(c)
    PROVE  Settling(stopReceiver(c, bad))
<1>1. Fine(c.dev) /\ Fine(rtlsdr_close(c.dev, bad))
  BY CloseFine, SameTrans DEF IsConfig, Settling
<1> QED  BY <1>1 DEF Settling, IsConfig, stopReceiver

\* A set function leaves it at that.
LEMMA KeepsSettles ==
    ASSUME NEW c, NEW e, Settling(c), Keeps(c, e)
    PROVE  Settling(e)
BY DEF Settling, Keeps

\* So does the end of a call.
LEMMA SettledSettles ==
    ASSUME NEW c, Settling(c)
    PROVE  Settling(Settled(c)) /\ Settled(c).success = TRUE
<1> DEFINE d == [c.dev EXCEPT !.ok = TRUE, !.t.ok = TRUE]
<1>1. Fine(d)
  BY DEF Settling, IsConfig, Fine, DeviceFields
<1>2. Settled(c) = [c EXCEPT !.success = TRUE, !.dev = d]
  BY DEF Settled, Settling, IsConfig, Fine, DeviceFields
<1> HIDE DEF d
<1> QED  BY <1>1, <1>2 DEF Settling, IsConfig

\* The first invariant: the types, and that no call has missed the tuner.
ConfigInv ==
    /\ Settling(config) /\ config.success = TRUE
    /\ v4BlogRadio \in BOOLEAN /\ calls \in 0..MaxCalls /\ faults \in 0..MaxFaults

\* Every command that calls Radio keeps the first invariant.
LEMMA CalledStep ==
    ASSUME NEW e, NEW bad, ConfigInv, Settling(e),
           calls < MaxCalls /\ calls' = calls + 1,
           bad # {} => faults < MaxFaults,
           faults' = IF bad = {} THEN faults ELSE faults + 1,
           config' = Settled(e), UNCHANGED v4BlogRadio
    PROVE  ConfigInv'
<1>1. Settling(config') /\ config'.success = TRUE
  BY SettledSettles
<1>2. Settling(config)' /\ (config.success = TRUE)'
  BY <1>1 DEF Settling, IsConfig, Fine
<1> QED  BY <1>2, ConfigAssumption DEF ConfigInv

\* The code for automatic gain is a number like the gains.
LEMMA AutoIsNat == AutoGain \in Nat
BY DEF AutoGain

\* The first invariant holds in every reachable state, whatever commands
\* and faults follow one another.
THEOREM TypeInvariant == Spec => []ConfigInv
<1>1. Init => ConfigInv
  <2> SUFFICES ASSUME Init PROVE ConfigInv
    OBVIOUS
  <2>1. PICK kind \in Dongles : config = setupReceiver(kind)
    BY DEF Init
  <2>2. Fine(NewDevice(kind, FreshChip(kind)))
    BY NewDeviceFine, ConfigAssumption
  <2> DEFINE d == NewDevice(kind, FreshChip(kind))
  <2>3. config = [attr |-> [freq |-> 100000, rate |-> 256, bw |-> 0, gain |-> AutoGain,
                            ifGain |-> 24, adjustable |-> 24, warp |-> 0],
                  dev |-> d, isOpen |-> FALSE, enabled |-> FALSE, success |-> TRUE,
                  tunedAt |-> 256, unsure |-> {}, reset |-> {}]
    BY <2>1 DEF setupReceiver
  <2> HIDE DEF d
  <2>4. Fine(d)
    BY <2>2 DEF d
  <2>5. Settling(config) /\ config.success = TRUE
    BY <2>3, <2>4 DEF Settling, IsConfig, Attributes, Settings, AutoGain
  <2>6. v4BlogRadio = FALSE /\ calls = 0 /\ faults = 0
    BY DEF Init
  <2>7. v4BlogRadio \in BOOLEAN
    BY <2>6, Zenon
  <2>8. calls \in 0..MaxCalls /\ faults \in 0..MaxFaults
    BY <2>6, ConfigAssumption
  <2> QED  BY <2>5, <2>7, <2>8 DEF ConfigInv
<1>2. ConfigInv /\ [Next]_vars => ConfigInv'
  <2> SUFFICES ASSUME ConfigInv, [Next]_vars PROVE ConfigInv'
    OBVIOUS
  <2>0. Settling(config) /\ IsConfig(config)
    BY DEF ConfigInv, Settling
  <2>1. CASE cmdSetRxFrequency
    <3>1. PICK khz \in Frequencies, bad \in Faults[config.dev.kind] :
            /\ calls < MaxCalls /\ calls' = calls + 1
            /\ bad # {} => faults < MaxFaults
            /\ faults' = IF bad = {} THEN faults ELSE faults + 1
            /\ config' = Settled(setReceiveFrequency(config, khz, bad))
            /\ UNCHANGED v4BlogRadio
      BY <2>1 DEF cmdSetRxFrequency, Called
    <3>2. Settling(setReceiveFrequency(config, khz, bad))
      BY <2>0, SetFrequencyKeeps, KeepsSettles, ConfigAssumption
    <3> QED  BY <3>1, <3>2, CalledStep
  <2>2. CASE cmdSetRxSampleRate
    <3>1. PICK khz \in Rates, bad \in Faults[config.dev.kind] :
            /\ calls < MaxCalls /\ calls' = calls + 1
            /\ bad # {} => faults < MaxFaults
            /\ faults' = IF bad = {} THEN faults ELSE faults + 1
            /\ config' = Settled(setReceiveSampleRate(config, khz, bad))
            /\ UNCHANGED v4BlogRadio
      BY <2>2 DEF cmdSetRxSampleRate, Called
    <3>2. Settling(setReceiveSampleRate(config, khz, bad))
      BY <2>0, SetSampleRateKeeps, KeepsSettles, ConfigAssumption
    <3> QED  BY <3>1, <3>2, CalledStep
  <2>3. CASE cmdSetRxBandwidth
    <3>1. PICK khz \in Bandwidths, bad \in Faults[config.dev.kind] :
            /\ calls < MaxCalls /\ calls' = calls + 1
            /\ bad # {} => faults < MaxFaults
            /\ faults' = IF bad = {} THEN faults ELSE faults + 1
            /\ config' = Settled(setReceiveBandwidth(config, khz, bad))
            /\ UNCHANGED v4BlogRadio
      BY <2>3 DEF cmdSetRxBandwidth, Called
    <3>2. Settling(setReceiveBandwidth(config, khz, bad))
      BY <2>0, SetBandwidthKeeps, KeepsSettles, ConfigAssumption
    <3> QED  BY <3>1, <3>2, CalledStep
  <2>4. CASE cmdSetRxGain
    <3>1. PICK gain \in Gains \cup {AutoGain}, bad \in Faults[config.dev.kind] :
            /\ calls < MaxCalls /\ calls' = calls + 1
            /\ bad # {} => faults < MaxFaults
            /\ faults' = IF bad = {} THEN faults ELSE faults + 1
            /\ config' = Settled(setReceiveGainInDb(config, gain, bad))
            /\ UNCHANGED v4BlogRadio
      BY <2>4 DEF cmdSetRxGain, Called
    <3>2. Settling(setReceiveGainInDb(config, gain, bad))
      BY <2>0, AutoIsNat, SetGainKeeps, KeepsSettles, ConfigAssumption
    <3> QED  BY <3>1, <3>2, CalledStep
  <2>5. CASE cmdSetRxIfGain
    <3>1. PICK gain \in IfGains, bad \in Faults[config.dev.kind] :
            /\ calls < MaxCalls /\ calls' = calls + 1
            /\ bad # {} => faults < MaxFaults
            /\ faults' = IF bad = {} THEN faults ELSE faults + 1
            /\ config' = Settled(setReceiveIfGainInDb(config, 0, gain, bad))
            /\ UNCHANGED v4BlogRadio
      BY <2>5 DEF cmdSetRxIfGain, Called
    <3>2. Settling(setReceiveIfGainInDb(config, 0, gain, bad))
      BY <2>0, SetIfGainKeeps, KeepsSettles, ConfigAssumption
    <3> QED  BY <3>1, <3>2, CalledStep
  <2>6. CASE cmdSetRxWarp
    <3>1. PICK ppm \in Warps, bad \in Faults[config.dev.kind] :
            /\ calls < MaxCalls /\ calls' = calls + 1
            /\ bad # {} => faults < MaxFaults
            /\ faults' = IF bad = {} THEN faults ELSE faults + 1
            /\ config' = Settled(setReceiveWarpInPartsPerMillion(config, ppm, bad))
            /\ UNCHANGED v4BlogRadio
      BY <2>6 DEF cmdSetRxWarp, Called
    <3>2. Settling(setReceiveWarpInPartsPerMillion(config, ppm, bad))
      BY <2>0, SetWarpKeeps, KeepsSettles, ConfigAssumption
    <3> QED  BY <3>1, <3>2, CalledStep
  <2>7. CASE cmdStartReceiver
    <3>1. PICK bad \in Faults[config.dev.kind] :
            /\ calls < MaxCalls /\ calls' = calls + 1
            /\ bad # {} => faults < MaxFaults
            /\ faults' = IF bad = {} THEN faults ELSE faults + 1
            /\ config' = Settled(startReceiver(config, bad))
            /\ UNCHANGED v4BlogRadio
      BY <2>7 DEF cmdStartReceiver, Called
    <3>2. Settling(startReceiver(config, bad))
      BY <2>0, StartSettles, ConfigAssumption
    <3> QED  BY <3>1, <3>2, CalledStep
  <2>8. CASE cmdStopReceiver
    <3>1. PICK bad \in Faults[config.dev.kind] :
            /\ calls < MaxCalls /\ calls' = calls + 1
            /\ bad # {} => faults < MaxFaults
            /\ faults' = IF bad = {} THEN faults ELSE faults + 1
            /\ config' = Settled(stopReceiver(config, bad))
            /\ UNCHANGED v4BlogRadio
      BY <2>8 DEF cmdStopReceiver, Called
    <3>2. Settling(stopReceiver(config, bad))
      BY <2>0, StopSettles, ConfigAssumption
    <3> QED  BY <3>1, <3>2, CalledStep
  <2>9. CASE cmdSelectV4BlogRadio
    BY <2>9 DEF cmdSelectV4BlogRadio, ConfigInv
  <2>10. CASE cmdSelectNormalRadio
    BY <2>10 DEF cmdSelectNormalRadio, ConfigInv
  <2>11. CASE UNCHANGED vars
    BY <2>11 DEF vars, ConfigInv
  <2> QED  BY <2>1, <2>2, <2>3, <2>4, <2>5, <2>6, <2>7, <2>8, <2>9, <2>10, <2>11 DEF Next
<1> QED  BY <1>1, <1>2, PTL DEF Spec

\* No call of the driver goes to the tuner while the I2C repeater is off,
\* whichever of tuning, bandwidth, rate, correction and direct sampling calls
\* which, whatever fails on the way.
THEOREM TunerAlwaysReached == Spec => []TunerIsReached
<1>1. ConfigInv => TunerIsReached
  BY DEF ConfigInv, Settling, IsConfig, Fine, TunerIsReached, Dev
<1> QED  BY <1>1, TypeInvariant, PTL

(****************************************************************************)
(* The R82xx: what a write to a register leaves alone.  The tuner keeps a   *)
(* shadow of what it writes; a masked write changes one field of the shadow *)
(* and writes the whole register.                                           *)
(****************************************************************************)

\* The fields of the registers a masked write goes to; r14, the PLL's, is
\* written as a whole.
Fields == [r05 |-> {"auto", "lna", "cable1", "air"}, r06 |-> {"cable2", "awake"},
           r07 |-> {"auto", "mix"}, r0b |-> {"width"}, r0c |-> {"vga"},
           r17 |-> {"open"}, r1b |-> {"tf"}]

IsRegs(r) ==
    /\ DOMAIN r = {"r05", "r06", "r07", "r0b", "r0c", "r14", "r17", "r1b"}
    /\ \A reg \in DOMAIN Fields : DOMAIN r[reg] = Fields[reg]

IsR82xx(t) ==
    /\ DOMAIN t = {"shadow", "chip", "intFreq", "input", "hasLock", "initDone", "xtal", "ok"}
    /\ IsRegs(t.shadow) /\ IsRegs(t.chip)
    /\ t.intFreq \in Nat /\ t.intFreq <= 4570

\* Shadow and chip agree on the gain.
GainAgrees(t) == t.shadow.r05.auto = t.chip.r05.auto /\ t.shadow.r05.lna = t.chip.r05.lna
\* While shadow and chip agree on the gain, both stay.
GainKept(t, u) ==
    GainAgrees(t)
      => /\ GainAgrees(u)
         /\ u.chip.r05.auto = t.chip.r05.auto /\ u.chip.r05.lna = t.chip.r05.lna
         /\ u.chip.r07 = t.chip.r07

\* The switches of the antenna input are those of the band noted.
InputAgrees(t) ==
    /\ t.chip.r06.cable2 = (t.input = "hf") /\ t.shadow.r06.cable2 = t.chip.r06.cable2
    /\ t.chip.r05.cable1 = (t.input = "vhf") /\ t.shadow.r05.cable1 = t.chip.r05.cable1
    /\ t.chip.r05.air = (t.input \in {"uhf", "air"}) /\ t.shadow.r05.air = t.chip.r05.air
InputKept(t, u) == u.input = t.input /\ (InputAgrees(t) => InputAgrees(u))

FilterKept(t, u) == u.chip.r0b = t.chip.r0b /\ u.intFreq = t.intFreq
VgaKept(t, u) == u.chip.r0c = t.chip.r0c
LockKept(t, u) == u.hasLock = t.hasLock

\* Shadow and chip agree on the sleep bit.
AwakeAgrees(t) == t.shadow.r06.awake = t.chip.r06.awake
AwakeKept(t, u) ==
    /\ u.initDone = t.initDone
    /\ AwakeAgrees(t) => AwakeAgrees(u) /\ u.chip.r06.awake = t.chip.r06.awake

\* What a masked write leaves alone, whether it reaches the chip or not.
LEMMA MaskIs ==
    ASSUME NEW t, NEW reg \in DOMAIN Fields, NEW field \in Fields[reg], NEW val, NEW bad, IsR82xx(t)
    PROVE  LET u == R!r82xx_write_reg_mask(t, reg, field, val, bad) IN
           /\ IsR82xx(u)
           /\ u.ok = (reg \notin bad)
           /\ LockKept(t, u)
           /\ reg # "r0b" => FilterKept(t, u)
           /\ reg # "r0c" => VgaKept(t, u)
           /\ <<reg, field>> # <<"r06", "awake">> => AwakeKept(t, u)
           /\ reg # "r07" /\ field \notin {"auto", "lna"} => GainKept(t, u)
           /\ field \notin {"cable1", "cable2", "air"} => InputKept(t, u)
<1> DEFINE s == [t.shadow[reg] EXCEPT ![field] = val]
           u == [t EXCEPT !.shadow[reg] = s, !.chip[reg] = IF reg \in bad THEN @ ELSE s,
                          !.ok = reg \notin bad]
<1>1. R!r82xx_write_reg_mask(t, reg, field, val, bad) = u
  BY DEF R!r82xx_write_reg_mask, R!r82xx_write
<1>2. DOMAIN t = {"shadow", "chip", "intFreq", "input", "hasLock", "initDone", "xtal", "ok"}
  BY DEF IsR82xx
<1>3. /\ DOMAIN t.shadow = {"r05", "r06", "r07", "r0b", "r0c", "r14", "r17", "r1b"}
      /\ DOMAIN t.chip = {"r05", "r06", "r07", "r0b", "r0c", "r14", "r17", "r1b"}
  BY DEF IsR82xx, IsRegs
<1>4. /\ u.ok = (reg \notin bad) /\ u.input = t.input /\ u.intFreq = t.intFreq
      /\ u.hasLock = t.hasLock /\ u.initDone = t.initDone
      /\ DOMAIN u = DOMAIN t
  BY <1>2
<1>5. /\ DOMAIN u.shadow = DOMAIN t.shadow /\ DOMAIN u.chip = DOMAIN t.chip
      /\ \A r \in DOMAIN t.chip \ {reg} : u.chip[r] = t.chip[r] /\ u.shadow[r] = t.shadow[r]
      /\ u.shadow[reg] = s /\ u.chip[reg] = IF reg \in bad THEN t.chip[reg] ELSE s
  BY <1>2, <1>3 DEF Fields
<1>6. DOMAIN s = DOMAIN t.shadow[reg] /\ (\A f \in DOMAIN s \ {field} : s[f] = t.shadow[reg][f])
  OBVIOUS
<1> HIDE DEF u, s
<1>7. IsR82xx(u)
  <2>1. IsRegs(t.shadow) /\ IsRegs(t.chip) /\ t.intFreq \in Nat /\ t.intFreq <= 4570
    BY DEF IsR82xx
  <2>2. DOMAIN s = Fields[reg] /\ DOMAIN u.chip[reg] = Fields[reg]
    BY <1>5, <1>6, <2>1 DEF IsRegs
  <2>3. \A r \in DOMAIN Fields : r \in DOMAIN t.chip
    BY <1>3 DEF Fields
  <2>4. IsRegs(u.shadow) /\ IsRegs(u.chip)
    BY <1>3, <1>5, <2>1, <2>2, <2>3 DEF IsRegs
  <2> QED  BY <1>2, <1>4, <2>1, <2>4 DEF IsR82xx
<1>8. LockKept(t, u) /\ (reg # "r0b" => FilterKept(t, u)) /\ (reg # "r0c" => VgaKept(t, u))
  BY <1>3, <1>4, <1>5 DEF LockKept, FilterKept, VgaKept
<1>9. <<reg, field>> # <<"r06", "awake">> => AwakeKept(t, u)
  BY <1>3, <1>4, <1>5, <1>6 DEF AwakeKept, AwakeAgrees, IsR82xx, IsRegs, Fields
<1>10. reg # "r07" /\ field \notin {"auto", "lna"} => GainKept(t, u)
  BY <1>3, <1>4, <1>5, <1>6 DEF GainKept, GainAgrees, IsR82xx, IsRegs, Fields
<1>11. field \notin {"cable1", "cable2", "air"} => InputKept(t, u)
  BY <1>3, <1>4, <1>5, <1>6 DEF InputKept, InputAgrees, IsR82xx, IsRegs, Fields
<1> QED  BY <1>1, <1>4, <1>7, <1>8, <1>9, <1>10, <1>11

Mask(t, reg, field, val, bad) == R!r82xx_write_reg_mask(t, reg, field, val, bad)

\* A masked write changes one register, in the shadow and, when it is in
\* reach, the same in the chip.
LEMMA MaskWrites ==
    ASSUME NEW t, NEW reg \in DOMAIN Fields, NEW field \in Fields[reg], NEW val, NEW bad, IsR82xx(t)
    PROVE  LET u == R!r82xx_write_reg_mask(t, reg, field, val, bad)
               s == [t.shadow[reg] EXCEPT ![field] = val] IN
           /\ u.input = t.input
           /\ u.shadow = [t.shadow EXCEPT ![reg] = s]
           /\ u.chip = [t.chip EXCEPT ![reg] = IF reg \in bad THEN @ ELSE s]
           /\ reg \in DOMAIN t.shadow /\ reg \in DOMAIN t.chip
<1> DEFINE s == [t.shadow[reg] EXCEPT ![field] = val]
           u == [t EXCEPT !.shadow[reg] = s, !.chip[reg] = IF reg \in bad THEN @ ELSE s,
                          !.ok = reg \notin bad]
<1>1. R!r82xx_write_reg_mask(t, reg, field, val, bad) = u
  BY DEF R!r82xx_write_reg_mask, R!r82xx_write
<1>2. /\ DOMAIN t = {"shadow", "chip", "intFreq", "input", "hasLock", "initDone", "xtal", "ok"}
      /\ DOMAIN t.shadow = {"r05", "r06", "r07", "r0b", "r0c", "r14", "r17", "r1b"}
      /\ DOMAIN t.chip = {"r05", "r06", "r07", "r0b", "r0c", "r14", "r17", "r1b"}
  BY DEF IsR82xx, IsRegs
<1>3. reg \in DOMAIN t.chip /\ reg \in DOMAIN t.shadow
  BY <1>2 DEF Fields
<1>4. /\ u.input = t.input
      /\ u.shadow = [t.shadow EXCEPT ![reg] = s]
      /\ u.chip = [t.chip EXCEPT ![reg] = IF reg \in bad THEN @ ELSE s]
  BY <1>2
<1> HIDE DEF u
<1> QED  BY <1>1, <1>3, <1>4

\* It sets its field, and makes chip and shadow agree on the register.
LEMMA MaskSetsField ==
    ASSUME NEW t, NEW reg \in DOMAIN Fields, NEW field \in Fields[reg], NEW val, NEW bad, IsR82xx(t),
           NEW u, u = R!r82xx_write_reg_mask(t, reg, field, val, bad)
    PROVE  /\ u.input = t.input
           /\ u.shadow[reg][field] = val
           /\ reg \notin bad => u.chip[reg] = u.shadow[reg]
<1> DEFINE s == [t.shadow[reg] EXCEPT ![field] = val]
<1>1. /\ u.input = t.input
      /\ u.shadow = [t.shadow EXCEPT ![reg] = s]
      /\ u.chip = [t.chip EXCEPT ![reg] = IF reg \in bad THEN @ ELSE s]
      /\ reg \in DOMAIN t.shadow /\ reg \in DOMAIN t.chip
  BY MaskWrites
<1>2. s[field] = val
  BY DEF IsR82xx, IsRegs
<1> HIDE DEF s
<1> QED  BY <1>1, <1>2

\* It keeps the other fields of the shadow.
LEMMA MaskKeepsFields ==
    ASSUME NEW t, NEW reg \in DOMAIN Fields, NEW field \in Fields[reg], NEW val, NEW bad, IsR82xx(t),
           NEW u, u = R!r82xx_write_reg_mask(t, reg, field, val, bad)
    PROVE  \A f \in Fields[reg] \ {field} : u.shadow[reg][f] = t.shadow[reg][f]
<1> DEFINE s == [t.shadow[reg] EXCEPT ![field] = val]
<1>1. /\ u.shadow = [t.shadow EXCEPT ![reg] = s]
      /\ u.chip = [t.chip EXCEPT ![reg] = IF reg \in bad THEN @ ELSE s]
      /\ reg \in DOMAIN t.shadow /\ reg \in DOMAIN t.chip
  BY MaskWrites
<1>2. DOMAIN t.shadow[reg] = Fields[reg]
  BY DEF IsR82xx, IsRegs
<1>3. \A f \in Fields[reg] \ {field} : s[f] = t.shadow[reg][f]
  BY <1>2
<1> HIDE DEF s
<1> QED  BY <1>1, <1>3

\* It keeps the other registers.
LEMMA MaskKeepsRegs ==
    ASSUME NEW t, NEW reg \in DOMAIN Fields, NEW field \in Fields[reg], NEW val, NEW bad, IsR82xx(t),
           NEW u, u = R!r82xx_write_reg_mask(t, reg, field, val, bad)
    PROVE  \A r \in DOMAIN Fields \ {reg} : u.chip[r] = t.chip[r] /\ u.shadow[r] = t.shadow[r]
<1> DEFINE s == [t.shadow[reg] EXCEPT ![field] = val]
<1>1. /\ u.shadow = [t.shadow EXCEPT ![reg] = s]
      /\ u.chip = [t.chip EXCEPT ![reg] = IF reg \in bad THEN @ ELSE s]
  BY MaskWrites
<1>2. /\ DOMAIN t.shadow = {"r05", "r06", "r07", "r0b", "r0c", "r14", "r17", "r1b"}
      /\ DOMAIN t.chip = {"r05", "r06", "r07", "r0b", "r0c", "r14", "r17", "r1b"}
      /\ DOMAIN Fields = {"r05", "r06", "r07", "r0b", "r0c", "r17", "r1b"}
  BY DEF IsR82xx, IsRegs, Fields
<1> HIDE DEF s
<1> QED  BY <1>1, <1>2

\* What a routine may leave alone.
All == {"gain", "input", "bw", "ifGain", "lock", "awake"}

Leaves(W, t, u) ==
    /\ IsR82xx(u)
    /\ "gain" \in W => GainKept(t, u)
    /\ "input" \in W => InputKept(t, u)
    /\ "bw" \in W => FilterKept(t, u)
    /\ "ifGain" \in W => VgaKept(t, u)
    /\ "lock" \in W => LockKept(t, u)
    /\ "awake" \in W => AwakeKept(t, u)

\* One routine after another.
LEMMA LeavesTrans ==
    /\ \A W, t : IsR82xx(t) => Leaves(W, t, t)
    /\ \A W, t, u, v : Leaves(W, t, u) /\ Leaves(W, u, v) => Leaves(W, t, v)
    /\ \A W, t, u : Leaves(W, t, u) => IsR82xx(u)
    /\ \A W, V, t, u : Leaves(W, t, u) /\ V \subseteq W => Leaves(V, t, u)
<1>1. \A t : GainKept(t, t) /\ InputKept(t, t) /\ FilterKept(t, t) /\ VgaKept(t, t)
             /\ LockKept(t, t) /\ AwakeKept(t, t)
  BY DEF GainKept, GainAgrees, InputKept, FilterKept, VgaKept, LockKept, AwakeKept
<1>2. \A t, u, v : /\ GainKept(t, u) /\ GainKept(u, v) => GainKept(t, v)
                   /\ InputKept(t, u) /\ InputKept(u, v) => InputKept(t, v)
                   /\ FilterKept(t, u) /\ FilterKept(u, v) => FilterKept(t, v)
                   /\ VgaKept(t, u) /\ VgaKept(u, v) => VgaKept(t, v)
                   /\ LockKept(t, u) /\ LockKept(u, v) => LockKept(t, v)
                   /\ AwakeKept(t, u) /\ AwakeKept(u, v) => AwakeKept(t, v)
  BY DEF GainKept, GainAgrees, InputKept, FilterKept, VgaKept, LockKept, AwakeKept
<1> QED  BY <1>1, <1>2 DEF Leaves

\* A masked write, alone or after another, leaves all but its own.
LEMMA MaskLeaves ==
    ASSUME NEW t, NEW reg \in DOMAIN Fields, NEW field \in Fields[reg], NEW val, NEW bad, IsR82xx(t),
           NEW W, "bw" \notin W \/ reg # "r0b", "ifGain" \notin W \/ reg # "r0c",
           "awake" \notin W \/ <<reg, field>> # <<"r06", "awake">>,
           "gain" \notin W \/ (reg # "r07" /\ field \notin {"auto", "lna"}),
           "input" \notin W \/ field \notin {"cable1", "cable2", "air"}
    PROVE  /\ Leaves(W, t, Mask(t, reg, field, val, bad))
           /\ Leaves(W, t, R!ThenMask(t, reg, field, val, bad))
BY MaskIs, LeavesTrans DEF Leaves, Mask, R!ThenMask

\* The tracking filter leaves everything alone, and reports success unless
\* something is out of reach.
LEMMA MuxLeaves ==
    ASSUME NEW t, NEW khz, NEW bad, IsR82xx(t)
    PROVE  /\ Leaves(All, t, R!r82xx_set_mux(t, khz, bad))
           /\ bad = {} => R!r82xx_set_mux(t, khz, bad).ok
<1> DEFINE a == R!RangeOf(khz) <= 6
           u == Mask(t, "r17", "open", a, bad)
           v == R!ThenMask(u, "r1b", "tf", R!RangeOf(khz), bad)
<1>1. Leaves(All, t, u) /\ (bad = {} => u.ok)
  <2> HIDE DEF a
  <2>1. "r17" \in DOMAIN Fields /\ "open" \in Fields["r17"]
    BY DEF Fields
  <2> QED  BY <2>1, MaskLeaves, MaskIs DEF Mask
<1> HIDE DEF u
<1>2. Leaves(All, u, v) /\ (bad = {} => v.ok)
  <2>1. "r1b" \in DOMAIN Fields /\ "tf" \in Fields["r1b"]
    BY DEF Fields
  <2>2. IsR82xx(u)
    BY <1>1, LeavesTrans
  <2> QED  BY <1>1, <2>1, <2>2, MaskLeaves, MaskIs DEF R!ThenMask
<1>3. R!r82xx_set_mux(t, khz, bad) = v
  BY DEF R!r82xx_set_mux, u, Mask
<1> QED  BY <1>1, <1>2, <1>3, LeavesTrans

(****************************************************************************)
(* The R82xx, routine by routine: which of gain, antenna input, bandwidth,  *)
(* IF gain, lock and sleep it may change, and what it establishes.          *)
(****************************************************************************)

\* What the PLL can be asked for: the tunable frequencies and an IF above
\* them.
Lockable == {khz \in Nat : khz < 1770000}

\* The divider of the PLL fits its six bits for each of these.
LEMMA DividerFits ==
    ASSUME NEW khz \in Lockable
    PROVE  (khz * R!MixDiv(khz)) \div (2 * R!PllRef) \in 0..63
<1>1. CASE \E div \in R!MixDivs : R!InVcoRange(khz, div)
  <2>1. R!MixDiv(khz) \in R!MixDivs /\ R!InVcoRange(khz, R!MixDiv(khz))
    BY <1>1 DEF R!MixDiv
  <2> DEFINE m == R!MixDiv(khz)
  <2> HIDE DEF m
  <2>2. m \in Nat /\ khz * m < 3540000 /\ khz * m >= 1770000
    BY <2>1 DEF m, R!InVcoRange, R!VcoMin, R!MixDivs, Lockable
  <2>3. PICK k \in Nat : k = khz * m /\ k < 3540000
    BY <2>2 DEF Lockable
  <2>4. k \div 57600 \in 0..63
    BY <2>3
  <2> QED  BY <2>3, <2>4 DEF m, R!PllRef
<1>2. CASE ~\E div \in R!MixDivs : R!InVcoRange(khz, div)
  <2>1. R!MixDiv(khz) = 128
    BY <1>2 DEF R!MixDiv
  <2>2. /\ ~R!InVcoRange(khz, 2) /\ ~R!InVcoRange(khz, 4) /\ ~R!InVcoRange(khz, 8)
        /\ ~R!InVcoRange(khz, 16) /\ ~R!InVcoRange(khz, 32) /\ ~R!InVcoRange(khz, 64)
    BY <1>2 DEF R!MixDivs
  <2>3. khz * 64 < 1770000
    BY <2>2 DEF R!InVcoRange, R!VcoMin, Lockable
  <2> QED  BY <2>1, <2>3 DEF R!PllRef, Lockable
<1> QED  BY <1>1, <1>2

\* The PLL leaves all but the lock alone, and reports success when all is in
\* reach, locked or not.
LEMMA PllLeaves ==
    ASSUME NEW t, NEW khz, NEW corr, NEW bad, IsR82xx(t)
    PROVE  /\ Leaves(All \ {"lock"}, t, R!r82xx_set_pll(t, khz, corr, bad))
           /\ bad = {} /\ khz \in Lockable => R!r82xx_set_pll(t, khz, corr, bad).ok
<1> DEFINE div  == R!MixDiv(khz)
           nint == (khz * div) \div (2 * R!PllRef)
           fra  == khz * div - 2 * R!PllRef * nint
           pll  == [mixDiv |-> div, nint |-> nint, sdm |-> R!Sdm(fra), corr |-> corr]
           u == R!r82xx_write(t, "r14", pll, bad)
           lock == div <= 64 /\ "lock" \notin bad
           w == IF u.ok THEN [u EXCEPT !.hasLock = lock] ELSE u
           v == R!r82xx_set_pll(t, khz, corr, bad)
<1>1. v = IF nint > 63 THEN [t EXCEPT !.ok = FALSE] ELSE w
  BY DEF R!r82xx_set_pll, R!Then
<1>2. khz \in Lockable => nint \in 0..63
  BY DividerFits
<1> HIDE DEF div, nint, pll, lock
<1>3. /\ DOMAIN t = {"shadow", "chip", "intFreq", "input", "hasLock", "initDone", "xtal", "ok"}
      /\ DOMAIN t.shadow = {"r05", "r06", "r07", "r0b", "r0c", "r14", "r17", "r1b"}
      /\ DOMAIN t.chip = {"r05", "r06", "r07", "r0b", "r0c", "r14", "r17", "r1b"}
  BY DEF IsR82xx, IsRegs
<1>4. /\ u.ok = ("r14" \notin bad)
      /\ DOMAIN w = DOMAIN t /\ w.ok = u.ok
      /\ w.intFreq = t.intFreq /\ w.input = t.input /\ w.initDone = t.initDone
      /\ w.shadow = [t.shadow EXCEPT !.r14 = pll]
      /\ w.chip = [t.chip EXCEPT !.r14 = IF "r14" \in bad THEN @ ELSE pll]
  BY <1>3 DEF R!r82xx_write
<1> HIDE DEF w, u
<1>5. IsR82xx(w)
  <2>1. IsRegs(w.shadow) /\ IsRegs(w.chip)
    BY <1>3, <1>4 DEF IsR82xx, IsRegs, Fields
  <2> QED  BY <1>3, <1>4, <2>1 DEF IsR82xx
<1>6. GainKept(t, w) /\ InputKept(t, w) /\ FilterKept(t, w) /\ VgaKept(t, w) /\ AwakeKept(t, w)
  BY <1>3, <1>4 DEF GainKept, GainAgrees, InputKept, InputAgrees, FilterKept, VgaKept, AwakeKept, AwakeAgrees
<1>7. Leaves(All \ {"lock"}, t, w)
  BY <1>5, <1>6 DEF Leaves, All
<1>8. Leaves(All \ {"lock"}, t, [t EXCEPT !.ok = FALSE])
  BY DEF Leaves, All, IsR82xx, GainKept, GainAgrees, InputKept, InputAgrees, FilterKept, VgaKept, AwakeKept,
         AwakeAgrees
<1> HIDE DEF v
<1>9. Leaves(All \ {"lock"}, t, v)
  BY <1>1, <1>7, <1>8
<1>10. bad = {} /\ khz \in Lockable => v = w /\ w.ok
  <2> SUFFICES ASSUME bad = {}, khz \in Lockable PROVE v = w /\ w.ok
    OBVIOUS
  <2>1. "r14" \notin bad
    OBVIOUS
  <2>2. w.ok
    BY <1>4, <2>1
  <2>3. ~(nint > 63)
    BY <1>2
  <2>4. v = w
    BY <1>1, <2>3
  <2> QED  BY <2>2, <2>4
<1> QED  BY <1>9, <1>10 DEF v

\* The antenna switch of a V4 leaves all but the input alone, and moves the
\* three switches together when all is in reach.
LEMMA SwitchLeaves ==
    ASSUME NEW t, NEW band \in {"hf", "vhf", "uhf"}, NEW bad, IsR82xx(t)
    PROVE  LET w == R!switchInput(t, band, bad) IN
           /\ Leaves(All \ {"input"}, t, w)
           /\ bad = {} /\ t.ok => w.ok
           /\ bad = {} /\ InputAgrees(t) => InputAgrees(w) /\ w.input = band
<1> DEFINE s == [t EXCEPT !.input = band]
           a == band = "hf"
           b == band = "vhf"
           c == band = "uhf"
           u == Mask(s, "r06", "cable2", a, bad)
           v == R!ThenMask(u, "r05", "cable1", b, bad)
           w == R!ThenMask(v, "r05", "air", c, bad)
           x == R!switchInput(t, band, bad)
<1>1. x = IF band = t.input THEN t ELSE w
  BY DEF R!switchInput, Mask
<1>2. Leaves(All \ {"input"}, t, s) /\ s.shadow = t.shadow /\ s.chip = t.chip /\ s.input = band
  BY DEF Leaves, All, IsR82xx, GainKept, GainAgrees, FilterKept, VgaKept, AwakeKept, AwakeAgrees, LockKept
<1> HIDE DEF s
<1>3. /\ "r06" \in DOMAIN Fields /\ "r05" \in DOMAIN Fields
      /\ "cable2" \in Fields["r06"] /\ {"cable1", "air"} \subseteq Fields["r05"]
  BY DEF Fields
<1> DEFINE d == Mask(u, "r05", "cable1", b, bad)
           e == Mask(v, "r05", "air", c, bad)
<1> HIDE DEF a, b, c
<1>4. Leaves(All \ {"input"}, s, u) /\ u.ok = ("r06" \notin bad)
  BY <1>2, <1>3, LeavesTrans, MaskLeaves, MaskIs DEF Mask, All
<1>5. Leaves(All \ {"input"}, u, v)
  <2> HIDE DEF u
  <2> QED  BY <1>3, <1>4, LeavesTrans, MaskLeaves DEF All
<1>6. Leaves(All \ {"input"}, v, w)
  <2> HIDE DEF v
  <2> QED  BY <1>3, <1>5, LeavesTrans, MaskLeaves DEF All
<1>7. Leaves(All \ {"input"}, t, w)
  BY <1>2, <1>4, <1>5, <1>6, LeavesTrans
<1>8. ASSUME bad = {}
      PROVE  w.ok /\ (InputAgrees(t) => InputAgrees(w) /\ w.input = band)
  <2>1. u.ok
    BY <1>8, <1>4
  <2>2. v = d
    BY <2>1 DEF R!ThenMask, Mask
  <2>3. IsR82xx(u) /\ IsR82xx(v)
    BY <1>4, <1>5, LeavesTrans
  <2>4. v.ok
    <3>1. "r05" \notin bad /\ "cable1" \in Fields["r05"]
      BY <1>3, <1>8
    <3> HIDE DEF u, v
    <3>2. d.ok
      BY <1>3, <2>3, <3>1, MaskIs DEF Mask
    <3> QED BY <2>2, <3>2
  <2>5. w = e
    BY <2>4 DEF R!ThenMask, Mask
  <2>6. w.ok
    <3>1. "r05" \notin bad /\ "air" \in Fields["r05"]
      BY <1>3, <1>8
    <3> HIDE DEF v, w
    <3>2. e.ok
      BY <1>3, <2>3, <3>1, MaskIs DEF Mask
    <3> QED BY <2>5, <3>2
  <2>7. /\ u.input = band /\ u.shadow.r06.cable2 = a /\ u.chip.r06 = u.shadow.r06
        /\ u.shadow.r05 = t.shadow.r05
    <3>1. IsR82xx(s) /\ "r06" \notin bad
      BY <1>2, <1>8, LeavesTrans
    <3>2. u = R!r82xx_write_reg_mask(s, "r06", "cable2", a, bad)
      BY DEF Mask
    <3> HIDE DEF u
    <3> QED  BY <1>2, <1>3, <3>1, <3>2, MaskSetsField, MaskKeepsRegs
  <2> HIDE DEF u
  <2>8. /\ v.input = band /\ v.shadow.r05.cable1 = b /\ v.chip.r06 = u.chip.r06
        /\ v.shadow.r06 = u.shadow.r06
    <3>1. v = R!r82xx_write_reg_mask(u, "r05", "cable1", b, bad)
      BY <2>2 DEF Mask
    <3> HIDE DEF v
    <3> QED  BY <1>3, <1>8, <2>3, <2>7, <3>1, MaskSetsField, MaskKeepsRegs
  <2> HIDE DEF v
  <2>9. /\ w.input = band /\ w.shadow.r05.air = c /\ w.chip.r05 = w.shadow.r05
        /\ w.chip.r06 = v.chip.r06 /\ w.shadow.r06 = v.shadow.r06
        /\ w.shadow.r05.cable1 = v.shadow.r05.cable1
    <3>1. w = R!r82xx_write_reg_mask(v, "r05", "air", c, bad)
      BY <2>5 DEF Mask
    <3> HIDE DEF w
    <3>2. w.shadow.r05.cable1 = v.shadow.r05.cable1
      BY <1>3, <2>3, <3>1, MaskKeepsFields DEF Fields
    <3> QED  BY <1>3, <1>8, <2>3, <2>8, <3>1, <3>2, MaskSetsField, MaskKeepsRegs
  <2> HIDE DEF w
  <2>10. InputAgrees(w)
    <3>1. w.chip.r05.air = (w.input \in {"uhf", "air"})
      BY <2>9 DEF c
    <3> QED  BY <3>1, <2>7, <2>8, <2>9 DEF InputAgrees, a, b
  <2> QED  BY <2>6, <2>9, <2>10
<1>9. Leaves(All \ {"input"}, t, t)
  BY LeavesTrans
<1> HIDE DEF w
<1> QED  BY <1>1, <1>7, <1>8, <1>9

\* What Radio may ask for: 1.7 GHz and a quarter of the sample rate.
Tunable == {khz \in Nat : khz <= 1700800}

\* There are three bands.
LEMMA BandIs == \A khz \in Int : R!BandOf(khz) \in {"hf", "vhf", "uhf"}
BY DEF R!BandOf

\* What a tuning leaves alone.
Rest == {"gain", "bw", "ifGain", "awake"}

\* A tuning leaves gain, bandwidth, IF gain and sleep alone; with all in
\* reach it succeeds and, once locked, the antenna input is that of the band.
LEMMA SetFreqLeaves ==
    ASSUME NEW t, NEW khz \in Int, NEW v4 \in BOOLEAN, NEW bad, IsR82xx(t)
    PROVE  LET w == R!r82xx_set_freq(t, khz, v4, bad) IN
           /\ Leaves(Rest, t, w)
           /\ bad = {} /\ khz \in Tunable => w.ok
           /\ bad = {} /\ khz \in Tunable /\ v4 /\ InputAgrees(t)
                => InputAgrees(w) /\ (w.hasLock => w.input = R!BandOf(khz))
<1> DEFINE lo == t.intFreq + (IF v4 /\ khz < 28800 THEN khz + 28800 ELSE khz)
           m == R!r82xx_set_mux(t, lo, bad)
           p == R!r82xx_set_pll(m, lo, m.xtal, bad)
           tuned == IF m.ok THEN p ELSE m
           a == ~R!Notched(khz)
           n == Mask(tuned, "r17", "open", a, bad)
           band == R!BandOf(khz)
           s == R!switchInput(n, band, bad)
           w == IF ~tuned.ok \/ ~(tuned.hasLock /\ v4) THEN tuned ELSE IF n.ok THEN s ELSE n
<1>1. R!r82xx_set_freq(t, khz, v4, bad) = w
  BY DEF R!r82xx_set_freq, R!Then, Mask
<1>2. t.intFreq \in Nat /\ t.intFreq <= 4570
  BY DEF IsR82xx
<1>3. khz \in Tunable => lo \in Lockable
  <2>1. PICK i \in Nat : i = t.intFreq /\ i <= 4570
    BY <1>2
  <2>2. khz \in Tunable => khz \in Nat /\ khz <= 1700800
    BY DEF Tunable
  <2>3. lo = i + (IF v4 /\ khz < 28800 THEN khz + 28800 ELSE khz)
    BY <2>1
  <2> HIDE DEF lo
  <2>4. khz \in Tunable => lo \in Nat /\ lo < 1770000
    BY <2>1, <2>2, <2>3, SMT
  <2> QED  BY <2>4 DEF Lockable
<1> HIDE DEF lo
<1>4. Leaves(All, t, m) /\ (bad = {} => m.ok)
  BY MuxLeaves
<1>5. Leaves(All, m, m) /\ IsR82xx(m)
  BY <1>4, LeavesTrans
<1> HIDE DEF m
<1>6. Leaves(All \ {"lock"}, m, p) /\ (bad = {} /\ lo \in Lockable => p.ok)
  BY <1>5, PllLeaves
<1>7. Leaves(All \ {"lock"}, t, tuned) /\ (bad = {} /\ lo \in Lockable => tuned.ok)
  <2> HIDE DEF p
  <2>1. Leaves(All \ {"lock"}, t, m)
    BY <1>4, LeavesTrans
  <2> QED  BY <1>4, <1>6, <2>1, LeavesTrans
<1> HIDE DEF tuned, a
<1>8. Leaves(All, tuned, n) /\ n.ok = ("r17" \notin bad)
  <2>1. IsR82xx(tuned) /\ "r17" \in DOMAIN Fields /\ "open" \in Fields["r17"]
    BY <1>7, LeavesTrans DEF Fields
  <2> QED  BY <2>1, MaskLeaves, MaskIs DEF Mask, All
<1>9. IsR82xx(n) /\ Leaves(All \ {"lock"}, t, n)
  BY <1>7, <1>8, LeavesTrans
<1> HIDE DEF n
<1>10. /\ Leaves(All \ {"input"}, n, s)
       /\ bad = {} /\ n.ok => s.ok
       /\ bad = {} /\ InputAgrees(n) => InputAgrees(s) /\ s.input = band
  <2>1. band \in {"hf", "vhf", "uhf"}
    BY BandIs
  <2> HIDE DEF band
  <2> QED  BY <1>9, <2>1, SwitchLeaves
<1> HIDE DEF s, band
<1>11. Leaves(Rest, t, w)
  <2>1. Rest \subseteq All \ {"lock"} /\ Rest \subseteq All \ {"input"}
    BY DEF Rest, All
  <2>2. Leaves(Rest, t, tuned) /\ Leaves(Rest, t, n) /\ Leaves(Rest, n, s)
    BY <1>7, <1>9, <1>10, <2>1, LeavesTrans
  <2> QED  BY <2>2, LeavesTrans
<1>12. ASSUME bad = {}, khz \in Tunable
       PROVE  w.ok /\ (v4 /\ InputAgrees(t) => InputAgrees(w) /\ (w.hasLock => w.input = band))
  <2>1. tuned.ok /\ n.ok /\ s.ok
    BY <1>3, <1>7, <1>8, <1>10, <1>12
  <2>2. w = IF ~(tuned.hasLock /\ v4) THEN tuned ELSE s
    BY <2>1
  <2>3. InputAgrees(t) => InputAgrees(tuned) /\ InputAgrees(n)
    BY <1>7, <1>9 DEF Leaves, InputKept, All
  <2> QED  BY <1>10, <1>12, <2>1, <2>2, <2>3
<1> QED  BY <1>1, <1>11, <1>12 DEF band

\* The filters' IFs are at most 4570 kHz.
LEMMA FilterIntIs ==
    ASSUME NEW bw \in Nat
    PROVE  R!FilterOf(bw).int \in Nat /\ R!FilterOf(bw).int <= 4570
<1>1. CASE bw <= 2430
  <2> DEFINE i == R!LowPassIndex(bw)
             p == R!LowPassPart(bw)
  <2>1. p \in Int /\ p <= 1700
    BY <1>1 DEF R!LowPassPart, R!HighPass1, R!HighPass2, R!LowPass
  <2>2. \E j \in 1..10 : p <= R!LowPass[j] /\ (j < 10 => p > R!LowPass[j + 1])
    <3> HIDE DEF p
    <3> QED  BY <2>1 DEF R!LowPass
  <2>3. DOMAIN R!LowPass = 1..10 /\ Len(R!LowPass) = 10
    BY DEF R!LowPass
  <2>4. i \in 1..10
    BY <2>2, <2>3 DEF R!LowPassIndex
  <2>5. R!LowPass[i] \in Nat /\ R!LowPass[i] >= 350 /\ R!LowPass[i] <= 1700
    <3> HIDE DEF i
    <3> QED  BY <2>4 DEF R!LowPass
  <2>6. R!HighPass1(bw) + R!HighPass2(bw) \in {0, 350, 380, 730}
    BY DEF R!HighPass1, R!HighPass2
  <2>7. R!FilterOf(bw).int = 2300 + (R!HighPass1(bw) + R!HighPass2(bw))
           - ((R!HighPass1(bw) + R!HighPass2(bw)) + R!LowPass[i]) \div 2
    BY <1>1 DEF R!FilterOf, R!LowPass
  <2>8. PICK l \in Nat : l = R!LowPass[i] /\ l >= 350 /\ l <= 1700
    BY <2>5
  <2>9. PICK h \in Nat : h = R!HighPass1(bw) + R!HighPass2(bw) /\ h \in {0, 350, 380, 730}
    BY <2>6
  <2>10. 2300 + h - (h + l) \div 2 \in Nat /\ 2300 + h - (h + l) \div 2 <= 4570
    BY <2>8, <2>9, SMT
  <2> QED  BY <2>7, <2>8, <2>9, <2>10
<1>2. CASE bw > 2430
  BY <1>2 DEF R!FilterOf, R!LowPass
<1> QED  BY <1>1, <1>2

\* A bandwidth leaves all but the filter alone, and chooses the filter.
LEMMA SetBandwidthLeaves ==
    ASSUME NEW t, NEW bw \in Nat, NEW bad, IsR82xx(t)
    PROVE  LET w == R!r82xx_set_bandwidth(t, bw, bad) IN
           /\ Leaves(All \ {"bw"}, t, w)
           /\ w.ok = ("r0b" \notin bad)
           /\ bad = {} => w.chip.r0b.width = R!FilterOf(bw).reg
<1> DEFINE f == R!FilterOf(bw)
           s == [t EXCEPT !.intFreq = f.int]
           w == Mask(s, "r0b", "width", f.reg, bad)
<1>1. R!r82xx_set_bandwidth(t, bw, bad) = w
  BY DEF R!r82xx_set_bandwidth, Mask
<1>2. f.int \in Nat /\ f.int <= 4570
  BY FilterIntIs
<1> HIDE DEF f
<1>3. Leaves(All \ {"bw"}, t, s)
  BY <1>2 DEF Leaves, All, IsR82xx, GainKept, GainAgrees, InputKept, InputAgrees, VgaKept, LockKept, AwakeKept,
              AwakeAgrees
<1> HIDE DEF s
<1>4. IsR82xx(s) /\ "r0b" \in DOMAIN Fields /\ "width" \in Fields["r0b"]
  BY <1>3, LeavesTrans DEF Fields
<1>5. Leaves(All \ {"bw"}, s, w) /\ w.ok = ("r0b" \notin bad)
  BY <1>4, MaskLeaves, MaskIs DEF Mask, All
<1>6. bad = {} => w.chip.r0b.width = f.reg
  <2> DEFINE val == f.reg
  <2>0. w = R!r82xx_write_reg_mask(s, "r0b", "width", val, bad)
    BY DEF Mask
  <2> HIDE DEF val, w
  <2>1. /\ w.shadow.r0b.width = val
        /\ "r0b" \notin bad => w.chip.r0b = w.shadow.r0b
    BY <1>4, <2>0, MaskSetsField
  <2> QED  BY <2>1 DEF val
<1> QED  BY <1>1, <1>3, <1>5, <1>6, LeavesTrans DEF f

\* A masked write with all in reach, after others that did well.
LEMMA MaskDone ==
    ASSUME NEW t, NEW reg \in DOMAIN Fields, NEW field \in Fields[reg], NEW val, IsR82xx(t), t.ok
    PROVE  /\ R!ThenMask(t, reg, field, val, {}) = R!r82xx_write_reg_mask(t, reg, field, val, {})
           /\ R!ThenMask(t, reg, field, val, {}).ok
           /\ IsR82xx(R!ThenMask(t, reg, field, val, {}))
<1> DEFINE u == R!r82xx_write_reg_mask(t, reg, field, val, {})
<1>1. R!ThenMask(t, reg, field, val, {}) = u
  BY DEF R!ThenMask
<1>2. u.ok = (reg \notin {}) /\ IsR82xx(u)
  BY MaskIs
<1> HIDE DEF u
<1> QED  BY <1>1, <1>2 DEF u

\* A gain leaves all but the gain alone.
LEMMA SetGainLeaves ==
    ASSUME NEW t, NEW manual \in BOOLEAN, NEW gain, NEW bad, IsR82xx(t)
    PROVE  Leaves(All \ {"gain"}, t, R!r82xx_set_gain(t, manual, gain, bad))
<1> DEFINE a == ~manual
           g == R!GainIndices(gain)
           u == Mask(t, "r05", "auto", a, bad)
           v == R!ThenMask(u, "r07", "auto", a, bad)
           w == R!ThenMask(v, "r05", "lna", g.lna, bad)
           x == R!ThenMask(w, "r07", "mix", g.mix, bad)
<1>1. R!r82xx_set_gain(t, manual, gain, bad) = IF manual THEN x ELSE v
  BY DEF R!r82xx_set_gain, Mask
<1>2. /\ "r05" \in DOMAIN Fields /\ "r07" \in DOMAIN Fields
      /\ "auto" \in Fields["r05"] /\ "lna" \in Fields["r05"]
      /\ "auto" \in Fields["r07"] /\ "mix" \in Fields["r07"]
  BY DEF Fields
<1> HIDE DEF a, g
<1>3. Leaves(All \ {"gain"}, t, u)
  BY <1>2, MaskLeaves DEF All
<1> HIDE DEF u
<1>4. Leaves(All \ {"gain"}, u, v)
  BY <1>2, <1>3, MaskLeaves, LeavesTrans DEF All
<1> HIDE DEF v
<1>5. Leaves(All \ {"gain"}, v, w)
  BY <1>2, <1>4, MaskLeaves, LeavesTrans DEF All
<1> HIDE DEF w
<1>6. Leaves(All \ {"gain"}, w, x)
  BY <1>2, <1>5, MaskLeaves, LeavesTrans DEF All
<1> HIDE DEF x
<1> QED  BY <1>1, <1>3, <1>4, <1>5, <1>6, LeavesTrans

\* With all in reach it chooses automatic gain or both of the indices, and
\* makes shadow and chip agree.
LEMMA SetGainSets ==
    ASSUME NEW t, NEW manual \in BOOLEAN, NEW gain, IsR82xx(t)
    PROVE  LET x == R!r82xx_set_gain(t, manual, gain, {}) IN
           /\ x.ok /\ GainAgrees(x)
           /\ x.chip.r05.auto = ~manual /\ x.chip.r07.auto = ~manual
           /\ manual => /\ x.chip.r05.lna = R!GainIndices(gain).lna
                        /\ x.chip.r07.mix = R!GainIndices(gain).mix
<1> DEFINE a == ~manual
           lna == R!GainIndices(gain).lna
           mix == R!GainIndices(gain).mix
           u == R!r82xx_write_reg_mask(t, "r05", "auto", a, {})
           v == R!ThenMask(u, "r07", "auto", a, {})
           w == R!ThenMask(v, "r05", "lna", lna, {})
           x == R!ThenMask(w, "r07", "mix", mix, {})
<1>1. R!r82xx_set_gain(t, manual, gain, {}) = IF manual THEN x ELSE v
  BY DEF R!r82xx_set_gain
<1>2. /\ "r05" \in DOMAIN Fields /\ "r07" \in DOMAIN Fields
      /\ "auto" \in Fields["r05"] /\ "lna" \in Fields["r05"]
      /\ "auto" \in Fields["r07"] /\ "mix" \in Fields["r07"]
  BY DEF Fields
<1> HIDE DEF a, lna, mix
<1>3. IsR82xx(u) /\ u.ok = ("r05" \notin {})
  BY <1>2, MaskIs
<1>4. u.shadow.r05.auto = a /\ u.chip.r05 = u.shadow.r05
  <2> HIDE DEF u
  <2>1. u = R!r82xx_write_reg_mask(t, "r05", "auto", a, {})
    BY DEF u
  <2> QED  BY <1>2, <2>1, MaskSetsField
<1> HIDE DEF u
<1>5. v = R!r82xx_write_reg_mask(u, "r07", "auto", a, {}) /\ v.ok /\ IsR82xx(v)
  BY <1>2, <1>3, MaskDone
<1> HIDE DEF v
<1>6. v.shadow.r07.auto = a /\ v.chip.r07 = v.shadow.r07
  BY <1>2, <1>3, <1>5, MaskSetsField
<1>7. v.shadow.r05 = u.shadow.r05 /\ v.chip.r05 = u.chip.r05
  BY <1>2, <1>3, <1>5, MaskKeepsRegs
<1>8. w = R!r82xx_write_reg_mask(v, "r05", "lna", lna, {}) /\ w.ok /\ IsR82xx(w)
  BY <1>2, <1>5, MaskDone
<1> HIDE DEF w
<1>9. w.shadow.r05.lna = lna /\ w.chip.r05 = w.shadow.r05
  BY <1>2, <1>5, <1>8, MaskSetsField
<1>10. w.shadow.r05.auto = v.shadow.r05.auto
  BY <1>2, <1>5, <1>8, MaskKeepsFields
<1>11. w.shadow.r07 = v.shadow.r07
  BY <1>2, <1>5, <1>8, MaskKeepsRegs
<1>12. x = R!r82xx_write_reg_mask(w, "r07", "mix", mix, {}) /\ x.ok /\ IsR82xx(x)
  BY <1>2, <1>8, MaskDone
<1> HIDE DEF x
<1>13. x.shadow.r07.mix = mix /\ x.chip.r07 = x.shadow.r07
  BY <1>2, <1>8, <1>12, MaskSetsField
<1>14. x.shadow.r07.auto = w.shadow.r07.auto
  BY <1>2, <1>8, <1>12, MaskKeepsFields
<1>15. x.shadow.r05 = w.shadow.r05 /\ x.chip.r05 = w.chip.r05
  BY <1>2, <1>8, <1>12, MaskKeepsRegs
<1>16. /\ v.ok /\ GainAgrees(v) /\ v.chip.r05.auto = a /\ v.chip.r07.auto = a
  BY <1>4, <1>5, <1>6, <1>7 DEF GainAgrees
<1>17. /\ x.ok /\ GainAgrees(x) /\ x.chip.r05.auto = a /\ x.chip.r07.auto = a
       /\ x.chip.r05.lna = lna /\ x.chip.r07.mix = mix
  <2>1. x.chip.r05.auto = a /\ GainAgrees(x)
    BY <1>4, <1>7, <1>9, <1>10, <1>15 DEF GainAgrees
  <2>2. x.chip.r07.auto = a
    BY <1>6, <1>11, <1>13, <1>14
  <2> QED  BY <2>1, <2>2, <1>9, <1>12, <1>13, <1>15
<1> QED  BY <1>1, <1>16, <1>17 DEF a, lna, mix

\* An IF gain leaves all but the amplifier's index alone, and sets that.
LEMMA SetIfGainLeaves ==
    ASSUME NEW t, NEW gain, NEW bad, IsR82xx(t)
    PROVE  LET u == R!r82xx_set_if_gain(t, gain, bad) IN
           /\ Leaves(All \ {"ifGain"}, t, u)
           /\ u.ok = ("r0c" \notin bad)
           /\ bad = {} => u.chip.r0c.vga = R!VgaIndex(gain)
<1> DEFINE a == R!VgaIndex(gain)
           u == R!r82xx_write_reg_mask(t, "r0c", "vga", a, bad)
<1>1. R!r82xx_set_if_gain(t, gain, bad) = u
  BY DEF R!r82xx_set_if_gain
<1>2. "r0c" \in DOMAIN Fields /\ "vga" \in Fields["r0c"]
  BY DEF Fields
<1> HIDE DEF a
<1>3. Leaves(All \ {"ifGain"}, t, u) /\ u.ok = ("r0c" \notin bad)
  BY <1>2, MaskLeaves, MaskIs DEF All, Mask
<1>4. bad = {} => u.chip.r0c.vga = a
  <2>1. u = R!r82xx_write_reg_mask(t, "r0c", "vga", a, bad)
    OBVIOUS
  <2> HIDE DEF u
  <2>2. u.shadow.r0c.vga = a /\ ("r0c" \notin bad => u.chip.r0c = u.shadow.r0c)
    BY <1>2, <2>1, MaskSetsField
  <2> QED  BY <2>2
<1> QED  BY <1>1, <1>3, <1>4 DEF a

\* The array written at initialisation has every field.
LEMMA InitRegsAre == IsRegs(R!InitRegs)
<1> DEFINE i == R!InitRegs
<1>1. /\ DOMAIN i = {"r05", "r06", "r07", "r0b", "r0c", "r14", "r17", "r1b"}
      /\ i.r05 = [auto |-> TRUE, lna |-> 3, cable1 |-> FALSE, air |-> TRUE]
      /\ i.r06 = [cable2 |-> FALSE, awake |-> TRUE]
      /\ i.r07 = [auto |-> TRUE, mix |-> 5]
      /\ i.r0b = [width |-> 108] /\ i.r0c = [vga |-> 5]
      /\ i.r17 = [open |-> FALSE] /\ i.r1b = [tf |-> 0]
  BY DEF R!InitRegs
<1> HIDE DEF i
<1>2. /\ DOMAIN i.r05 = {"auto", "lna", "cable1", "air"} /\ DOMAIN i.r06 = {"cable2", "awake"}
      /\ DOMAIN i.r07 = {"auto", "mix"} /\ DOMAIN i.r0b = {"width"} /\ DOMAIN i.r0c = {"vga"}
      /\ DOMAIN i.r17 = {"open"} /\ DOMAIN i.r1b = {"tf"}
  BY <1>1
<1>3. \A reg \in DOMAIN Fields : DOMAIN i[reg] = Fields[reg]
  <2>1. /\ DOMAIN Fields = {"r05", "r06", "r07", "r0b", "r0c", "r17", "r1b"}
        /\ DOMAIN i.r05 = Fields.r05 /\ DOMAIN i.r06 = Fields.r06 /\ DOMAIN i.r07 = Fields.r07
        /\ DOMAIN i.r0b = Fields.r0b /\ DOMAIN i.r0c = Fields.r0c /\ DOMAIN i.r17 = Fields.r17
        /\ DOMAIN i.r1b = Fields.r1b
    BY <1>2 DEF Fields
  <2> QED  BY <2>1, Zenon
<1>4. DOMAIN i = {"r05", "r06", "r07", "r0b", "r0c", "r14", "r17", "r1b"}
  BY <1>1
<1>5. IsRegs(i)
  BY <1>3, <1>4 DEF IsRegs
<1> QED  BY <1>5 DEF i

\* A whole register written.
LEMMA WriteIs ==
    ASSUME NEW t, NEW reg \in DOMAIN Fields, NEW val, DOMAIN val = Fields[reg], NEW bad, IsR82xx(t),
           NEW u, u = R!r82xx_write(t, reg, val, bad)
    PROVE  /\ IsR82xx(u)
           /\ u.ok = (reg \notin bad) /\ u.initDone = t.initDone
           /\ u.shadow[reg] = val /\ (reg \notin bad => u.chip[reg] = val)
           /\ \A r \in DOMAIN Fields \ {reg} : u.chip[r] = t.chip[r] /\ u.shadow[r] = t.shadow[r]
<1>1. u = [t EXCEPT !.shadow[reg] = val, !.chip[reg] = IF reg \in bad THEN @ ELSE val,
                    !.ok = reg \notin bad]
  BY DEF R!r82xx_write
<1>2. /\ DOMAIN t = {"shadow", "chip", "intFreq", "input", "hasLock", "initDone", "xtal", "ok"}
      /\ IsRegs(t.shadow) /\ IsRegs(t.chip) /\ t.intFreq \in Nat /\ t.intFreq <= 4570
  BY DEF IsR82xx
<1>3. /\ DOMAIN u = DOMAIN t /\ u.ok = (reg \notin bad) /\ u.initDone = t.initDone
      /\ u.intFreq = t.intFreq
      /\ u.shadow = [t.shadow EXCEPT ![reg] = val]
      /\ u.chip = [t.chip EXCEPT ![reg] = IF reg \in bad THEN @ ELSE val]
  BY <1>1, <1>2
<1>4. /\ DOMAIN t.shadow = {"r05", "r06", "r07", "r0b", "r0c", "r14", "r17", "r1b"}
      /\ DOMAIN t.chip = {"r05", "r06", "r07", "r0b", "r0c", "r14", "r17", "r1b"}
      /\ DOMAIN Fields = {"r05", "r06", "r07", "r0b", "r0c", "r17", "r1b"}
  BY <1>2 DEF IsRegs, Fields
<1>5. /\ u.shadow[reg] = val /\ u.chip[reg] = IF reg \in bad THEN t.chip[reg] ELSE val
      /\ \A r \in DOMAIN Fields \ {reg} : u.chip[r] = t.chip[r] /\ u.shadow[r] = t.shadow[r]
  BY <1>3, <1>4
<1>6. IsRegs(u.shadow)
  BY <1>2, <1>3, <1>4, <1>5 DEF IsRegs
<1>7. IsRegs(u.chip)
  <2>1. DOMAIN u.chip[reg] = Fields[reg]
    BY <1>2, <1>5 DEF IsRegs
  <2> QED  BY <2>1, <1>2, <1>3, <1>4, <1>5 DEF IsRegs
<1>8. IsR82xx(u)
  BY <1>2, <1>3, <1>6, <1>7 DEF IsR82xx
<1> QED  BY <1>3, <1>5, <1>8

\* Standby, with all in reach, puts an initialised chip to sleep.
LEMMA StandbyIs ==
    ASSUME NEW t, NEW bad, IsR82xx(t)
    PROVE  LET u == R!r82xx_standby(t, bad) IN
           /\ IsR82xx(u) /\ u.initDone = t.initDone
           /\ bad = {} => u.ok
           /\ bad = {} /\ t.initDone => AwakeAgrees(u) /\ u.chip.r06.awake = FALSE
<1> DEFINE S == R!StandbyRegs
           u == R!r82xx_write(t, "r06", S.r06, bad)
           v == R!ThenWrite(u, "r05", S.r05, bad)
           w == R!ThenWrite(v, "r07", S.r07, bad)
           x == R!ThenWrite(w, "r0c", S.r0c, bad)
           y == R!ThenWrite(x, "r17", S.r17, bad)
           z == [t EXCEPT !.ok = TRUE]
<1>1. R!r82xx_standby(t, bad) = IF ~t.initDone THEN z ELSE y
  BY DEF R!r82xx_standby
<1>2. IsR82xx(z) /\ z.initDone = t.initDone /\ z.ok = TRUE
  BY DEF IsR82xx
<1>3. /\ DOMAIN S.r06 = Fields["r06"] /\ DOMAIN S.r05 = Fields["r05"]
      /\ DOMAIN S.r07 = Fields["r07"] /\ DOMAIN S.r0c = Fields["r0c"]
      /\ DOMAIN S.r17 = Fields["r17"] /\ S.r06.awake = FALSE
  BY DEF R!StandbyRegs, Fields
<1>4. DOMAIN Fields = {"r05", "r06", "r07", "r0b", "r0c", "r17", "r1b"}
  BY DEF Fields
<1> HIDE DEF S, z
<1>5. ASSUME NEW q, NEW reg \in {"r05", "r07", "r0c", "r17"}, NEW val,
             DOMAIN val = Fields[reg], IsR82xx(q)
      PROVE  LET p == R!ThenWrite(q, reg, val, bad) IN
             /\ IsR82xx(p) /\ p.initDone = q.initDone
             /\ bad = {} /\ q.ok => p.ok
             /\ p.chip.r06 = q.chip.r06 /\ p.shadow.r06 = q.shadow.r06
  <2> DEFINE r == R!r82xx_write(q, reg, val, bad)
             p == R!ThenWrite(q, reg, val, bad)
  <2>1. p = IF q.ok THEN r ELSE q
    BY DEF R!ThenWrite
  <2>2. reg \in DOMAIN Fields /\ "r06" \in DOMAIN Fields \ {reg} /\ r = R!r82xx_write(q, reg, val, bad)
    BY <1>4
  <2> HIDE DEF r
  <2>3. IsR82xx(r) /\ r.initDone = q.initDone /\ r.ok = (reg \notin bad)
    BY <1>5, <2>2, WriteIs
  <2>4. r.chip.r06 = q.chip.r06 /\ r.shadow.r06 = q.shadow.r06
    BY <1>5, <2>2, WriteIs
  <2> HIDE DEF p
  <2> QED  BY <1>5, <2>1, <2>3, <2>4 DEF p
<1>6. /\ IsR82xx(u) /\ u.initDone = t.initDone /\ u.ok = ("r06" \notin bad)
      /\ u.shadow.r06 = S.r06 /\ ("r06" \notin bad => u.chip.r06 = S.r06)
  <2>1. u = R!r82xx_write(t, "r06", S.r06, bad) /\ "r06" \in DOMAIN Fields
    BY <1>4
  <2> HIDE DEF u
  <2> QED  BY <1>3, <2>1, WriteIs
<1> HIDE DEF u
<1>7. /\ IsR82xx(v) /\ v.initDone = u.initDone /\ (bad = {} /\ u.ok => v.ok)
      /\ v.chip.r06 = u.chip.r06 /\ v.shadow.r06 = u.shadow.r06
  BY <1>3, <1>5, <1>6
<1> HIDE DEF v
<1>8. /\ IsR82xx(w) /\ w.initDone = u.initDone /\ (bad = {} /\ u.ok => w.ok)
      /\ w.chip.r06 = u.chip.r06 /\ w.shadow.r06 = u.shadow.r06
  BY <1>3, <1>5, <1>7
<1> HIDE DEF w
<1>9. /\ IsR82xx(x) /\ x.initDone = u.initDone /\ (bad = {} /\ u.ok => x.ok)
      /\ x.chip.r06 = u.chip.r06 /\ x.shadow.r06 = u.shadow.r06
  BY <1>3, <1>5, <1>8
<1> HIDE DEF x
<1>10. /\ IsR82xx(y) /\ y.initDone = u.initDone /\ (bad = {} /\ u.ok => y.ok)
       /\ y.chip.r06 = u.chip.r06 /\ y.shadow.r06 = u.shadow.r06
  BY <1>3, <1>5, <1>9
<1> HIDE DEF y
<1>11. bad = {} => u.ok /\ u.chip.r06 = S.r06
  BY <1>6
<1> QED  BY <1>1, <1>2, <1>3, <1>6, <1>10, <1>11 DEF AwakeAgrees

\* A chip that is awake and known to be.
Awake(t) == AwakeAgrees(t) /\ t.chip.r06.awake = TRUE

\* The array makes the shadow the array and, in reach, wakes the chip.
LEMMA ArrayIs ==
    ASSUME NEW t, NEW bad, IsR82xx(t)
    PROVE  LET u == R!writeInitArray(t, bad) IN
           /\ IsR82xx(u) /\ u.shadow = R!InitRegs
           /\ bad = {} => Awake(u)
<1> DEFINE reset == [r \in R!RegisterNames |->
                       IF \E b \in bad \intersect R!RegisterNames : R!Burst[b] <= R!Burst[r]
                       THEN t.chip[r] ELSE R!InitRegs[r]]
           u == [t EXCEPT !.shadow = R!InitRegs, !.chip = reset]
<1>1. R!writeInitArray(t, bad) = u
  BY DEF R!writeInitArray
<1>2. /\ DOMAIN t = {"shadow", "chip", "intFreq", "input", "hasLock", "initDone", "xtal", "ok"}
      /\ IsRegs(t.chip) /\ t.intFreq \in Nat /\ t.intFreq <= 4570
  BY DEF IsR82xx
<1>3. R!RegisterNames = {"r05", "r06", "r07", "r0b", "r0c", "r14", "r17", "r1b"}
  BY DEF R!RegisterNames, R!InitRegs
<1>4. IsRegs(R!InitRegs)
  BY InitRegsAre
<1>5. IsRegs(reset)
  <2>1. \A r \in R!RegisterNames : reset[r] = t.chip[r] \/ reset[r] = R!InitRegs[r]
    OBVIOUS
  <2>2. DOMAIN reset = R!RegisterNames
    OBVIOUS
  <2>3. DOMAIN Fields \subseteq R!RegisterNames
    BY <1>3 DEF Fields
  <2> HIDE DEF reset
  <2> QED  BY <1>2, <1>3, <1>4, <2>1, <2>2, <2>3 DEF IsRegs
<1>6. bad = {} => reset.r06 = R!InitRegs.r06
  BY <1>3
<1> HIDE DEF reset
<1>7. IsR82xx(u) /\ u.shadow = R!InitRegs /\ u.chip = reset
  BY <1>2, <1>4, <1>5 DEF IsR82xx
<1>8. R!InitRegs.r06.awake = TRUE
  BY DEF R!InitRegs
<1> HIDE DEF u
<1> QED  BY <1>1, <1>6, <1>7, <1>8 DEF Awake, AwakeAgrees

\* Who leaves sleep alone leaves an awake chip awake.
LEMMA AwakeStays ==
    ASSUME NEW t, NEW u, NEW W, "awake" \in W, Leaves(W, t, u), Awake(t)
    PROVE  Awake(u)
BY DEF Leaves, AwakeKept, Awake

\* Who writes the wake-up bit wakes the chip.
LEMMA AwakeWritten ==
    ASSUME NEW t, NEW bad, IsR82xx(t), "r06" \notin bad, NEW val,
           NEW u, u = R!r82xx_write_reg_mask(t, "r06", "awake", val, bad)
    PROVE  val = TRUE => Awake(u)
<1>1. "r06" \in DOMAIN Fields /\ "awake" \in Fields["r06"]
  BY DEF Fields
<1>3. u.shadow.r06.awake = val /\ u.chip.r06 = u.shadow.r06
  BY <1>1, MaskSetsField
<1> QED  BY <1>3 DEF Awake, AwakeAgrees

\* The choice of the television standard leaves the chip awake.
LEMMA StandardIs ==
    ASSUME NEW t, NEW bad, IsR82xx(t)
    PROVE  LET u == R!r82xx_set_tv_standard(t, bad) IN
           /\ IsR82xx(u)
           /\ bad = {} => u.ok
           /\ bad = {} /\ Awake(t) /\ t.shadow = R!InitRegs => Awake(u)
<1> DEFINE s == [t EXCEPT !.shadow = R!InitRegs]
           vga == R!r82xx_write_reg_mask(s, "r0c", "vga", 0, bad)
           f == [vga EXCEPT !.intFreq = 3570]
           g == R!r82xx_write_reg_mask(f, "r0b", "width", 107, bad)
           width == IF vga.ok THEN g ELSE vga
           p == R!r82xx_set_pll(width, 56000, width.xtal, bad)
           pll == IF width.ok THEN p ELSE width
           filter == R!ThenMask(pll, "r0b", "width", 107, bad)
           yes == TRUE
           mixer == R!ThenMask(filter, "r07", "auto", yes, bad)
           awake == R!ThenMask(mixer, "r06", "awake", yes, bad)
           last == R!ThenMask(awake, "r05", "auto", yes, bad)
           woken == R!r82xx_write_reg_mask(mixer, "r06", "awake", yes, bad)
<1>1. R!r82xx_set_tv_standard(t, bad) = IF pll.ok /\ pll.hasLock THEN last ELSE pll
  BY DEF R!r82xx_set_tv_standard, R!Calibrated, R!Then
<1>2. /\ "r0c" \in DOMAIN Fields /\ "vga" \in Fields["r0c"]
      /\ "r0b" \in DOMAIN Fields /\ "width" \in Fields["r0b"]
      /\ "r07" \in DOMAIN Fields /\ "auto" \in Fields["r07"]
      /\ "r06" \in DOMAIN Fields /\ "awake" \in Fields["r06"]
      /\ "r05" \in DOMAIN Fields /\ "auto" \in Fields["r05"]
  BY DEF Fields
<1>3. IsR82xx(s) /\ (t.shadow = R!InitRegs /\ Awake(t) => Awake(s))
  BY InitRegsAre DEF IsR82xx, Awake, AwakeAgrees
<1> HIDE DEF s
<1>4. Leaves({"awake"}, s, vga) /\ vga.ok = ("r0c" \notin bad) /\ IsR82xx(vga)
  BY <1>2, <1>3, MaskLeaves, MaskIs, LeavesTrans DEF Mask
<1> HIDE DEF vga
<1>5. Leaves({"awake"}, vga, f) /\ IsR82xx(f)
  BY <1>4 DEF Leaves, IsR82xx, AwakeKept, AwakeAgrees
<1> HIDE DEF f
<1>6. Leaves({"awake"}, f, g) /\ g.ok = ("r0b" \notin bad)
  BY <1>2, <1>5, MaskLeaves, MaskIs DEF Mask
<1> HIDE DEF g
<1>7. Leaves({"awake"}, s, width) /\ (bad = {} => width.ok) /\ IsR82xx(width)
  BY <1>4, <1>5, <1>6, LeavesTrans
<1> HIDE DEF width
<1>8. Leaves({"awake"}, width, p) /\ (bad = {} => p.ok)
  <2>1. 56000 \in Lockable
    BY DEF Lockable
  <2>2. {"awake"} \subseteq All \ {"lock"}
    BY DEF All
  <2>3. Leaves(All \ {"lock"}, width, p) /\ (bad = {} => p.ok)
    BY <1>7, <2>1, PllLeaves
  <2> QED  BY <2>2, <2>3, LeavesTrans
<1> HIDE DEF p
<1>9. Leaves({"awake"}, s, pll) /\ (bad = {} => pll.ok) /\ IsR82xx(pll)
  BY <1>7, <1>8, LeavesTrans
<1> HIDE DEF pll
<1>10. IsR82xx(filter) /\ (bad = {} => filter.ok)
  BY <1>2, <1>9, MaskIs DEF R!ThenMask
<1> HIDE DEF filter
<1>11. IsR82xx(mixer) /\ (bad = {} => mixer.ok)
  BY <1>2, <1>10, MaskIs DEF R!ThenMask
<1> HIDE DEF mixer
<1>12. IsR82xx(awake) /\ (bad = {} => awake.ok /\ Awake(awake))
  <2>1. awake = IF mixer.ok THEN woken ELSE mixer
    BY DEF R!ThenMask
  <2>2. woken = R!r82xx_write_reg_mask(mixer, "r06", "awake", yes, bad)
    OBVIOUS
  <2> HIDE DEF yes, awake, woken
  <2>3. IsR82xx(woken) /\ woken.ok = ("r06" \notin bad)
    BY <1>2, <1>11, <2>2, MaskIs
  <2>4. bad = {} => Awake(woken)
    <3>1. bad = {} => "r06" \notin bad
      OBVIOUS
    <3>2. yes = TRUE
      BY DEF yes
    <3>3. "r06" \notin bad => (yes = TRUE => Awake(woken))
      BY <1>11, <2>2, AwakeWritten
    <3> QED  BY <3>1, <3>2, <3>3
  <2> QED  BY <1>11, <2>1, <2>3, <2>4
<1> HIDE DEF awake
<1>13. IsR82xx(last) /\ (bad = {} => last.ok) /\ Leaves({"awake"}, awake, last)
  BY <1>2, <1>12, MaskLeaves, MaskIs DEF R!ThenMask
<1> HIDE DEF last
<1>14. bad = {} => Awake(last)
  BY <1>12, <1>13, AwakeStays
<1>15. bad = {} /\ Awake(t) /\ t.shadow = R!InitRegs => Awake(pll)
  BY <1>3, <1>9, AwakeStays
<1> QED  BY <1>1, <1>9, <1>13, <1>14, <1>15

\* The choice of the system parameters leaves sleep alone, and leaves the
\* antenna input on air.
LEMMA SysfreqIs ==
    ASSUME NEW t, NEW bad, IsR82xx(t)
    PROVE  LET u == R!r82xx_sysfreq_sel(t, bad) IN
           /\ Leaves({"awake"}, t, u)
           /\ bad = {} => u.ok /\ InputAgrees(u) /\ u.input = "air"
<1> DEFINE no == FALSE
           yes == TRUE
           s == [t EXCEPT !.input = "air"]
           u == R!r82xx_write_reg_mask(s, "r05", "cable1", no, bad)
           v == R!ThenMask(u, "r05", "air", yes, bad)
           w == R!ThenMask(v, "r06", "cable2", no, bad)
<1>1. R!r82xx_sysfreq_sel(t, bad) = w
  BY DEF R!r82xx_sysfreq_sel
<1>2. /\ "r05" \in DOMAIN Fields /\ "cable1" \in Fields["r05"] /\ "air" \in Fields["r05"]
      /\ "r06" \in DOMAIN Fields /\ "cable2" \in Fields["r06"]
  BY DEF Fields
<1>3. Leaves({"awake"}, t, s) /\ s.input = "air" /\ IsR82xx(s)
  BY DEF Leaves, IsR82xx, AwakeKept, AwakeAgrees
<1> HIDE DEF s, no, yes
<1>4. Leaves({"awake"}, s, u) /\ u.ok = ("r05" \notin bad) /\ IsR82xx(u)
  BY <1>2, <1>3, MaskLeaves, MaskIs DEF Mask
<1>5. u.input = "air" /\ u.shadow.r05.cable1 = no
  <2>1. u = R!r82xx_write_reg_mask(s, "r05", "cable1", no, bad)
    OBVIOUS
  <2> HIDE DEF u
  <2> QED  BY <1>2, <1>3, <2>1, MaskSetsField
<1> HIDE DEF u
<1>6. Leaves({"awake"}, u, v) /\ IsR82xx(v)
  BY <1>2, <1>4, MaskLeaves, LeavesTrans
<1> HIDE DEF v
<1>7. Leaves({"awake"}, v, w)
  BY <1>2, <1>6, MaskLeaves
<1> HIDE DEF w
<1>8. ASSUME bad = {}
      PROVE  w.ok /\ InputAgrees(w) /\ w.input = "air"
  <2>1. v = R!r82xx_write_reg_mask(u, "r05", "air", yes, {}) /\ v.ok
    BY <1>2, <1>4, <1>8, MaskDone DEF v
  <2>2. w = R!r82xx_write_reg_mask(v, "r06", "cable2", no, {}) /\ w.ok
    BY <1>2, <1>6, <1>8, <2>1, MaskDone DEF w
  <2>3. v.input = "air" /\ v.shadow.r05.air = yes /\ v.chip.r05 = v.shadow.r05
    BY <1>2, <1>4, <1>5, <2>1, MaskSetsField
  <2>4. v.shadow.r05.cable1 = no
    BY <1>2, <1>4, <1>5, <2>1, MaskKeepsFields
  <2>5. w.input = "air" /\ w.shadow.r06.cable2 = no /\ w.chip.r06 = w.shadow.r06
    BY <1>2, <1>6, <2>2, <2>3, MaskSetsField
  <2>6. w.shadow.r05 = v.shadow.r05 /\ w.chip.r05 = v.chip.r05
    BY <1>2, <1>6, <2>2, MaskKeepsRegs
  <2> QED  BY <2>2, <2>3, <2>4, <2>5, <2>6 DEF InputAgrees, yes, no
<1> QED  BY <1>1, <1>3, <1>4, <1>6, <1>7, <1>8, LeavesTrans

\* r82xx_init, with all in reach, ends with the chip awake and the antenna
\* input known.
LEMMA InitIs ==
    ASSUME NEW t, NEW bad, IsR82xx(t)
    PROVE  LET u == R!r82xx_init(t, bad) IN
           /\ IsR82xx(u)
           /\ bad = {} => /\ u.ok /\ u.initDone = TRUE /\ Awake(u)
                          /\ InputAgrees(u) /\ u.input = "air"
<1> DEFINE a == R!writeInitArray(t, bad)
           s == R!r82xx_set_tv_standard(a, bad)
           y == R!r82xx_sysfreq_sel(s, bad)
           z == [y EXCEPT !.initDone = TRUE]
<1>1. R!r82xx_init(t, bad) = IF s.ok THEN z ELSE s
  BY DEF R!r82xx_init, R!Then
<1>2. IsR82xx(a) /\ a.shadow = R!InitRegs /\ (bad = {} => Awake(a))
  BY ArrayIs
<1> HIDE DEF a
<1>3. IsR82xx(s) /\ (bad = {} => s.ok /\ Awake(s))
  BY <1>2, StandardIs
<1> HIDE DEF s
<1>4. Leaves({"awake"}, s, y) /\ (bad = {} => y.ok /\ InputAgrees(y) /\ y.input = "air")
  BY <1>3, SysfreqIs
<1>5. IsR82xx(y) /\ (bad = {} => Awake(y))
  BY <1>3, <1>4, AwakeStays, LeavesTrans
<1> HIDE DEF y
<1>6. /\ IsR82xx(z) /\ z.ok = y.ok /\ z.initDone = TRUE /\ z.chip = y.chip /\ z.shadow = y.shadow
      /\ z.input = y.input
  BY <1>5 DEF IsR82xx
<1>7. bad = {} => Awake(z) /\ InputAgrees(z)
  BY <1>4, <1>5, <1>6 DEF Awake, AwakeAgrees, InputAgrees
<1> HIDE DEF z
<1> QED  BY <1>1, <1>3, <1>4, <1>6, <1>7

(****************************************************************************)
(* The device: a step from d to e leaves all of the tuner that W names and all*)
(* of the device's fields but G.                                            *)
(****************************************************************************)

\* The driver's part of a device for each kind of tuner.
IsChip(kind, t) ==
    /\ Rafael(kind) => IsR82xx(t)
    /\ kind = "FC0012" => DOMAIN t = DOMAIN F!fc0012_regs
    /\ kind = "FC0013" => DOMAIN t = DOMAIN F!fc0013_regs

\* What the steps leave of it.
ChipKept(kind, W, t, u) ==
    /\ IsChip(kind, u)
    /\ Rafael(kind) => Leaves(W, t, u)
    /\ kind \in {"FC0012", "FC0013"} /\ "gain" \in W => u.lna = t.lna
    /\ kind = "FC0013" /\ "gain" \in W => u.manual = t.manual

\* A device with a tuner.
Chipped(d) == Fine(d) /\ IsChip(d.kind, d.t)

\* The fields of the device that hold settings or modes.
Kept == {"freq", "rate", "bw", "corr", "direct", "sro", "ratio", "mode"}
Only(G, d, e) == \A f \in Kept \ G : e[f] = d[f]

Step(W, G, d, e) == Same(d, e) /\ Only(G, d, e) /\ ChipKept(d.kind, W, d.t, e.t)

\* One step after another, for the tuner.
LEMMA ChipTrans ==
    /\ \A kind, W, t : IsChip(kind, t) => ChipKept(kind, W, t, t)
    /\ \A kind, W, t, u, v : ChipKept(kind, W, t, u) /\ ChipKept(kind, W, u, v) => ChipKept(kind, W, t, v)
    /\ \A kind, W, V, t, u : ChipKept(kind, W, t, u) /\ V \subseteq W => ChipKept(kind, V, t, u)
    /\ \A kind, W, t, u : ChipKept(kind, W, t, u) => IsChip(kind, u)
BY LeavesTrans DEF ChipKept, IsChip

\* One step after another, for the device.
LEMMA StepTrans ==
    /\ \A W, G, d : Chipped(d) => Step(W, G, d, d)
    /\ \A W, G, d, e, g : Step(W, G, d, e) /\ Step(W, G, e, g) => Step(W, G, d, g)
    /\ \A W, G, V, H, d, e : Step(W, G, d, e) /\ V \subseteq W /\ G \subseteq H => Step(V, H, d, e)
    /\ \A W, G, d, e : Step(W, G, d, e) => Chipped(e) /\ e.kind = d.kind
<1>1. ASSUME NEW W, NEW G, NEW d, Chipped(d) PROVE Step(W, G, d, d)
  BY <1>1, ChipTrans DEF Step, Same, Only, Chipped
<1>2. ASSUME NEW W, NEW G, NEW d, NEW e, NEW g, Step(W, G, d, e), Step(W, G, e, g)
      PROVE  Step(W, G, d, g)
  <2>1. Same(d, g) /\ e.kind = d.kind
    BY <1>2, SameTrans DEF Step, Same
  <2>2. Only(G, d, g)
    BY <1>2 DEF Step, Only
  <2>3. ChipKept(d.kind, W, d.t, g.t)
    BY <1>2, <2>1, ChipTrans DEF Step
  <2> QED  BY <2>1, <2>2, <2>3 DEF Step
<1>3. ASSUME NEW W, NEW G, NEW V, NEW H, NEW d, NEW e, Step(W, G, d, e), V \subseteq W, G \subseteq H
      PROVE  Step(V, H, d, e)
  BY <1>3, ChipTrans DEF Step, Only
<1>4. ASSUME NEW W, NEW G, NEW d, NEW e, Step(W, G, d, e) PROVE Chipped(e) /\ e.kind = d.kind
  BY <1>4, ChipTrans DEF Step, Same, Chipped
<1> QED  BY <1>1, <1>2, <1>3, <1>4

\* A routine of the tuner, with the repeater on.
LEMMA TunerMoves ==
    ASSUME NEW d, NEW W, NEW G, NEW u, Chipped(d), d.repeater, ChipKept(d.kind, W, d.t, u)
    PROVE  /\ Step(W, G, d, WithTuner(d, u)) /\ WithTuner(d, u).ok = u.ok /\ WithTuner(d, u).t = u
           /\ WithTuner(d, u).repeater
<1> DEFINE e == WithTuner(d, u)
<1>1. Same(d, e) /\ e.repeater
  BY TunerStep DEF Chipped
<1>2. Only(G, d, e) /\ e.t = u /\ e.ok = u.ok
  BY DEF WithTuner, Only, Kept, Chipped, Fine, DeviceFields
<1> QED  BY <1>1, <1>2 DEF Step

\* Switching the repeater changes nothing else.
LEMMA RepeaterMoves ==
    ASSUME NEW d, NEW W, NEW G, NEW on, Chipped(d)
    PROVE  /\ Step(W, G, d, Repeater(d, on)) /\ Repeater(d, on).repeater = on
           /\ Repeater(d, on).ok = d.ok /\ Repeater(d, on).t = d.t /\ Only({}, d, Repeater(d, on))
<1> DEFINE e == Repeater(d, on)
<1>1. Same(d, e) /\ e.repeater = on
  BY RepeaterStep DEF Chipped
<1>2. Only(G, d, e) /\ e.t = d.t /\ e.ok = d.ok /\ Only({}, d, e)
  BY DEF Repeater, Only, Kept, Chipped, Fine, DeviceFields
<1> QED  BY <1>1, <1>2, ChipTrans DEF Step, Chipped

\* The IF of the down-converter is no setting.
LEMMA FreqMoves ==
    ASSUME NEW d, NEW W, NEW G, NEW khz, NEW bad, Chipped(d)
    PROVE  LET e == rtlsdr_set_if_freq(d, khz, bad) IN
           /\ Step(W, G, d, e) /\ e.ok = ("ddc" \notin bad) /\ e.t = d.t /\ Only({}, d, e)
           /\ e.repeater = d.repeater
<1> DEFINE e == rtlsdr_set_if_freq(d, khz, bad)
<1>1. Same(d, e)
  BY FreqStep DEF Chipped
<1>2. Only(G, d, e) /\ e.t = d.t /\ e.ok = ("ddc" \notin bad) /\ Only({}, d, e) /\ e.repeater = d.repeater
  BY DEF rtlsdr_set_if_freq, Only, Kept, Chipped, Fine, DeviceFields
<1> QED  BY <1>1, <1>2, ChipTrans DEF Step, Chipped

\* Outcomes are no settings.
LEMMA OkMoves ==
    ASSUME NEW d, NEW W, NEW G, NEW ok, Chipped(d)
    PROVE  /\ Step(W, G, d, And(d, ok)) /\ And(d, ok).ok = (d.ok /\ ok) /\ And(d, ok).t = d.t
           /\ Step(W, G, d, [d EXCEPT !.ok = ok]) /\ [d EXCEPT !.ok = ok].ok = ok
           /\ [d EXCEPT !.ok = ok].t = d.t
<1>1. Same(d, And(d, ok)) /\ Same(d, [d EXCEPT !.ok = ok])
  BY OkStep DEF Chipped
<1>2. Only(G, d, And(d, ok)) /\ And(d, ok).t = d.t /\ And(d, ok).ok = (d.ok /\ ok)
  BY DEF And, Only, Kept, Chipped, Fine, DeviceFields
<1>3. /\ Only(G, d, [d EXCEPT !.ok = ok]) /\ [d EXCEPT !.ok = ok].t = d.t
      /\ [d EXCEPT !.ok = ok].ok = ok
  BY DEF Only, Kept, Chipped, Fine, DeviceFields
<1> QED  BY <1>1, <1>2, <1>3, ChipTrans DEF Step, Chipped

\* A field that may change.
LEMMA FieldMoves ==
    ASSUME NEW d, NEW W, NEW G, Chipped(d)
    PROVE  /\ \A on \in {0, 2} : "direct" \in G => Step(W, G, d, [d EXCEPT !.direct = on])
           /\ \A khz \in Nat : "freq" \in G => Step(W, G, d, [d EXCEPT !.freq = khz])
           /\ \A khz \in Nat : "bw" \in G => Step(W, G, d, [d EXCEPT !.bw = khz])
           /\ \A khz \in Nat : "rate" \in G => Step(W, G, d, [d EXCEPT !.rate = khz])
           /\ \A ppm \in Int : "corr" \in G => Step(W, G, d, [d EXCEPT !.corr = ppm])
           /\ \A v : "ratio" \in G => Step(W, G, d, [d EXCEPT !.ratio = v])
           /\ \A v : Step(W, G, d, [d EXCEPT !.gain = v])
<1>1. ChipKept(d.kind, W, d.t, d.t)
  BY ChipTrans DEF Chipped
<1>2. ASSUME NEW on \in {0, 2}, "direct" \in G PROVE Step(W, G, d, [d EXCEPT !.direct = on])
  BY <1>1, <1>2, FieldSteps DEF Only, Kept, Chipped, Fine, DeviceFields, Step
<1>3. ASSUME NEW khz \in Nat, "freq" \in G PROVE Step(W, G, d, [d EXCEPT !.freq = khz])
  BY <1>1, <1>3, FieldSteps DEF Only, Kept, Chipped, Fine, DeviceFields, Step
<1>4. ASSUME NEW khz \in Nat, "bw" \in G PROVE Step(W, G, d, [d EXCEPT !.bw = khz])
  BY <1>1, <1>4, FieldSteps DEF Only, Kept, Chipped, Fine, DeviceFields, Step
<1>5. ASSUME NEW khz \in Nat, "rate" \in G PROVE Step(W, G, d, [d EXCEPT !.rate = khz])
  BY <1>1, <1>5, FieldSteps DEF Only, Kept, Chipped, Fine, DeviceFields, Step
<1>6. ASSUME NEW ppm \in Int, "corr" \in G PROVE Step(W, G, d, [d EXCEPT !.corr = ppm])
  BY <1>1, <1>6, FieldSteps DEF Only, Kept, Chipped, Fine, DeviceFields, Step
<1>7. ASSUME NEW v, "ratio" \in G PROVE Step(W, G, d, [d EXCEPT !.ratio = v])
  BY <1>1, <1>7, FieldSteps DEF Only, Kept, Chipped, Fine, DeviceFields, Step
<1>8. ASSUME NEW v PROVE Step(W, G, d, [d EXCEPT !.gain = v])
  BY <1>1, <1>8, FieldSteps DEF Only, Kept, Chipped, Fine, DeviceFields, Step
<1> QED  BY <1>2, <1>3, <1>4, <1>5, <1>6, <1>7, <1>8

\* The resampler's correction, in reach, is what the correction asks for.
LEMMA OffsetMoves ==
    ASSUME NEW d, NEW W, NEW G, NEW ppm, NEW bad, Chipped(d), "sro" \in G
    PROVE  LET e == rtlsdr_set_sample_freq_correction(d, ppm, bad) IN
           /\ Step(W, G, d, e) /\ e.ok = ("sro" \notin bad)
           /\ "sro" \notin bad => e.sro = ResamplerOffset(ppm)
<1> DEFINE e == rtlsdr_set_sample_freq_correction(d, ppm, bad)
<1>1. Same(d, e)
  BY OffsetStep DEF Chipped
<1>2. /\ Only(G, d, e) /\ e.t = d.t /\ e.ok = ("sro" \notin bad)
      /\ "sro" \notin bad => e.sro = ResamplerOffset(ppm)
  BY DEF rtlsdr_set_sample_freq_correction, Only, Kept, Chipped, Fine, DeviceFields
<1> QED  BY <1>1, <1>2, ChipTrans DEF Step, Chipped

\* A tuning of an FC0012 or FC0013 leaves the gain alone.
LEMMA SetParams ==
    ASSUME NEW W, NEW t, NEW khz, NEW corr, NEW bad
    PROVE  /\ IsChip("FC0012", t) => ChipKept("FC0012", W, t, F!fc0012_set_params(t, khz, corr, bad))
           /\ IsChip("FC0013", t) => ChipKept("FC0013", W, t, F!fc0013_set_params(t, khz, corr, bad))
<1>1. ASSUME IsChip("FC0012", t)
      PROVE  ChipKept("FC0012", W, t, F!fc0012_set_params(t, khz, corr, bad))
  <2> DEFINE m == F!fc0012_multi(khz)
             u == F!SetPll(t, khz, m, corr, bad)
  <2>1. F!fc0012_set_params(t, khz, corr, bad) = u
    BY DEF F!fc0012_set_params
  <2> HIDE DEF m
  <2>2. DOMAIN t = DOMAIN F!fc0012_regs
    BY <1>1 DEF IsChip
  <2>3. DOMAIN u = DOMAIN t /\ u.lna = t.lna
    BY <2>2 DEF F!SetPll, F!fc0012_regs
  <2> HIDE DEF u
  <2> QED  BY <2>1, <2>2, <2>3 DEF ChipKept, IsChip, Rafael
<1>2. ASSUME IsChip("FC0013", t)
      PROVE  ChipKept("FC0013", W, t, F!fc0013_set_params(t, khz, corr, bad))
  <2> DEFINE m == F!fc0013_multi(khz)
             u == F!fc0013_set_vhf_track(t, khz, bad)
             v == IF u.ok THEN F!SetBand(u, khz, bad) ELSE u
             w == IF v.ok THEN F!SetPll(v, khz, m, corr, bad) ELSE v
  <2>1. F!fc0013_set_params(t, khz, corr, bad) = w
    BY DEF F!fc0013_set_params
  <2> HIDE DEF m
  <2>2. DOMAIN t = DOMAIN F!fc0013_regs
    BY <1>2 DEF IsChip
  <2>3. DOMAIN u = DOMAIN t /\ u.lna = t.lna /\ u.manual = t.manual
    BY <2>2 DEF F!fc0013_set_vhf_track, F!fc0013_regs
  <2> HIDE DEF u
  <2>4. DOMAIN v = DOMAIN t /\ v.lna = t.lna /\ v.manual = t.manual
    BY <2>2, <2>3 DEF F!SetBand, F!fc0013_regs
  <2> HIDE DEF v
  <2>5. DOMAIN w = DOMAIN t /\ w.lna = t.lna /\ w.manual = t.manual
    BY <2>2, <2>4 DEF F!SetPll, F!fc0013_regs
  <2> HIDE DEF w
  <2> QED  BY <2>1, <2>2, <2>5 DEF ChipKept, IsChip, Rafael
<1> QED  BY <1>1, <1>2

(****************************************************************************)
(* Tuning, with the switch to direct sampling and back.                     *)
(****************************************************************************)

\* The antenna input of a V4 is that of the frequency, unless its PLL is
\* not locked.
Follows(t, khz) == InputAgrees(t) /\ (t.hasLock => t.input = R!BandOf(khz))

\* tuner_set_freq leaves the rest of the settings alone; with all in reach an
\* R82xx succeeds, and the input of a V4 follows the frequency.
LEMMA TunerFreqMoves ==
    ASSUME NEW d, NEW G, NEW khz \in Nat, NEW bad, Chipped(d), d.repeater,
           NEW e, e = tuner_set_freq(d, khz, bad)
    PROVE  /\ Step(Rest, G, d, e)
           /\ bad = {} /\ khz \in Tunable /\ Rafael(d.kind) => e.ok
           /\ bad = {} /\ khz \in Tunable /\ d.kind = "V4" /\ InputAgrees(d.t) => Follows(e.t, khz)
<1>1. CASE Rafael(d.kind)
  <2> DEFINE v4 == d.kind = "V4"
             u == R!r82xx_set_freq(d.t, khz, v4, bad)
  <2>1. e = WithTuner(d, u)
    BY <1>1 DEF tuner_set_freq, Rafael
  <2>2. v4 \in BOOLEAN /\ khz \in Int /\ IsR82xx(d.t)
    BY <1>1 DEF Chipped, IsChip
  <2>3. v4 = (d.kind = "V4")
    OBVIOUS
  <2> HIDE DEF v4
  <2>4. /\ Leaves(Rest, d.t, u)
        /\ bad = {} /\ khz \in Tunable => u.ok
        /\ bad = {} /\ khz \in Tunable /\ v4 /\ InputAgrees(d.t) => Follows(u, khz)
    BY <2>2, SetFreqLeaves DEF Follows
  <2> HIDE DEF u
  <2>5. ChipKept(d.kind, Rest, d.t, u)
    BY <1>1, <2>4, LeavesTrans DEF ChipKept, IsChip, Rafael
  <2>6. Step(Rest, G, d, e) /\ e.ok = u.ok /\ e.t = u
    BY <2>1, <2>5, TunerMoves
  <2> QED  BY <2>3, <2>4, <2>6
<1>2. CASE d.kind = "FC0012"
  <2> DEFINE u == F!fc0012_set_params(d.t, khz, d.corr, bad)
  <2>1. e = WithTuner(d, u)
    BY <1>2 DEF tuner_set_freq, Rafael
  <2>2. ChipKept(d.kind, Rest, d.t, u)
    BY <1>2, SetParams DEF Chipped
  <2> HIDE DEF u
  <2> QED  BY <1>2, <2>1, <2>2, TunerMoves DEF Rafael
<1>3. CASE d.kind = "FC0013"
  <2> DEFINE u == F!fc0013_set_params(d.t, khz, d.corr, bad)
  <2>1. e = WithTuner(d, u)
    BY <1>3 DEF tuner_set_freq, Rafael
  <2>2. ChipKept(d.kind, Rest, d.t, u)
    BY <1>3, SetParams DEF Chipped
  <2> HIDE DEF u
  <2> QED  BY <1>3, <2>1, <2>2, TunerMoves DEF Rafael
<1>4. CASE d.kind \in {"E4000", "FC2580"}
  <2>1. PICK u : e = WithTuner(d, u)
    BY <1>4 DEF tuner_set_freq, Rafael
  <2>2. ChipKept(d.kind, Rest, d.t, u)
    BY <1>4 DEF ChipKept, IsChip, Rafael
  <2> QED  BY <1>4, <2>1, <2>2, TunerMoves DEF Rafael
<1> QED  BY <1>1, <1>2, <1>3, <1>4 DEF Chipped, Fine, Kinds, Rafael

\* What a tuning changes of the device.
Retuning == {"freq", "direct"}
Asleep(t) == AwakeAgrees(t) /\ t.chip.r06.awake = FALSE

\* A tuning notes the frequency, or 0 when it failed, and whether the
\* frequency is for direct sampling.
LEMMA RetunedMoves ==
    ASSUME NEW d, NEW khz \in Nat, NEW bad, Chipped(d), NEW g, g = Retuned(d, khz, bad)
    PROVE  /\ Step(Rest, Retuning, d, g)
           /\ g.direct = WantsDirect(d, khz) /\ g.freq = IF g.ok THEN khz ELSE 0
           /\ bad = {} /\ khz \in Tunable /\ Rafael(d.kind) => g.ok
           /\ bad = {} /\ khz \in Tunable /\ d.kind = "V4" /\ InputAgrees(d.t) => Follows(g.t, khz)
<1> DEFINE on == WantsDirect(d, khz)
           e == [d EXCEPT !.direct = on]
           fd == Repeater(e, FALSE)
           ft == Repeater(e, TRUE)
           gd == rtlsdr_set_if_freq(fd, khz, bad)
           gt == tuner_set_freq(ft, khz, bad)
           f == IF e.direct # 0 THEN gd ELSE gt
           h == Tuned(f, khz)
<1>1. g = h
  BY DEF Retuned
<1>2. /\ Step(Rest, Retuning, d, e) /\ e.direct = on /\ e.t = d.t /\ e.kind = d.kind
      /\ on \in {0, 2}
  <2>1. on \in {0, 2}
    BY WantsDirectIs
  <2> HIDE DEF on
  <2>2. e.direct = on /\ e.t = d.t /\ e.kind = d.kind
    BY DEF Chipped, Fine, DeviceFields
  <2> HIDE DEF e
  <2> QED  BY <2>1, <2>2, FieldMoves DEF Retuning, e
<1> HIDE DEF e, on
<1>3. Chipped(e)
  BY <1>2, StepTrans
<1>4. /\ Step(Rest, Retuning, e, fd) /\ fd.t = e.t /\ Only({}, e, fd) /\ Chipped(fd)
      /\ fd.kind = e.kind
  BY <1>3, RepeaterMoves, StepTrans
<1>5. /\ Step(Rest, Retuning, e, ft) /\ ft.repeater = TRUE /\ ft.t = e.t /\ Only({}, e, ft)
      /\ Chipped(ft) /\ ft.kind = e.kind
  BY <1>3, RepeaterMoves, StepTrans
<1> HIDE DEF fd, ft
<1>6. /\ Step(Rest, Retuning, fd, gd) /\ gd.ok = ("ddc" \notin bad) /\ gd.t = fd.t
      /\ Only({}, fd, gd)
  BY <1>4, FreqMoves
<1> HIDE DEF gd
<1>7. /\ Step(Rest, {}, ft, gt)
      /\ bad = {} /\ khz \in Tunable /\ Rafael(d.kind) => gt.ok
      /\ bad = {} /\ khz \in Tunable /\ d.kind = "V4" /\ InputAgrees(d.t) => Follows(gt.t, khz)
  BY <1>2, <1>5, TunerFreqMoves
<1> HIDE DEF gt
<1>8. Step(Rest, Retuning, ft, gt)
  BY <1>7, StepTrans
<1>9. /\ Step(Rest, Retuning, d, f) /\ f.direct = on
      /\ bad = {} /\ khz \in Tunable /\ Rafael(d.kind) => f.ok
  <2>1. Step(Rest, Retuning, d, gd) /\ Step(Rest, Retuning, d, gt)
    BY <1>2, <1>4, <1>5, <1>6, <1>8, StepTrans
  <2>2. gd.direct = on /\ gt.direct = on
    BY <1>2, <1>4, <1>5, <1>6, <1>7 DEF Step, Only, Kept
  <2> QED  BY <2>1, <2>2, <1>6, <1>7
<1>10. bad = {} /\ khz \in Tunable /\ d.kind = "V4" /\ InputAgrees(d.t) => Follows(f.t, khz)
  <2>1. d.kind = "V4" => on = 0
    BY DEF on, WantsDirect
  <2> QED  BY <1>2, <1>7, <2>1
<1> HIDE DEF f
<1>11. /\ Step(Rest, Retuning, f, h) /\ h.direct = f.direct /\ h.t = f.t /\ h.ok = f.ok
       /\ h.freq = IF h.ok THEN khz ELSE 0
  <2>1. Chipped(f)
    BY <1>9, StepTrans
  <2> DEFINE x == IF f.ok THEN khz ELSE 0
  <2>2. h = [f EXCEPT !.freq = x] /\ x \in Nat
    BY DEF Tuned
  <2>3. h.direct = f.direct /\ h.t = f.t /\ h.ok = f.ok /\ h.freq = x
    BY <2>1, <2>2 DEF Chipped, Fine, DeviceFields
  <2>4. Step(Rest, Retuning, f, h)
    <3> HIDE DEF x, h
    <3> QED  BY <2>1, <2>2, FieldMoves DEF Retuning
  <2> QED  BY <2>3, <2>4
<1> HIDE DEF h
<1>12. Step(Rest, Retuning, d, h)
  BY <1>9, <1>11, StepTrans
<1> QED  BY <1>1, <1>9, <1>10, <1>11, <1>12 DEF on

\* tuner_init may change all of the tuner; with all in reach an R82xx ends
\* initialised, awake, and with its input known.
LEMMA InitMoves ==
    ASSUME NEW d, NEW G, NEW bad, Chipped(d), d.repeater, NEW e, e = tuner_init(d, bad)
    PROVE  /\ Step({}, G, d, e)
           /\ bad = {} /\ Rafael(d.kind) => e.t.initDone = TRUE /\ Awake(e.t) /\ InputAgrees(e.t)
<1>1. CASE Rafael(d.kind)
  <2> DEFINE s == [d.t EXCEPT !.xtal = d.corr]
             u == R!r82xx_init(s, bad)
  <2>1. e = WithTuner(d, u)
    BY <1>1 DEF tuner_init, Rafael
  <2>2. IsR82xx(s)
    BY <1>1 DEF Chipped, IsChip, IsR82xx
  <2> HIDE DEF s
  <2>3. IsR82xx(u) /\ (bad = {} => u.initDone = TRUE /\ Awake(u) /\ InputAgrees(u))
    BY <2>2, InitIs
  <2> HIDE DEF u
  <2>4. ChipKept(d.kind, {}, d.t, u)
    BY <1>1, <2>3 DEF ChipKept, IsChip, Rafael, Leaves
  <2> QED  BY <2>1, <2>3, <2>4, TunerMoves
<1>2. CASE d.kind = "FC0012"
  <2> DEFINE u == F!fc0012_init(d.t, bad)
  <2>1. e = WithTuner(d, u)
    BY <1>2 DEF tuner_init, Rafael
  <2>2. DOMAIN u = DOMAIN F!fc0012_regs
    BY <1>2 DEF F!fc0012_init, Chipped, IsChip
  <2> HIDE DEF u
  <2>3. ChipKept(d.kind, {}, d.t, u)
    BY <1>2, <2>2 DEF ChipKept, IsChip, Rafael
  <2> QED  BY <1>2, <2>1, <2>3, TunerMoves DEF Rafael
<1>3. CASE d.kind = "FC0013"
  <2> DEFINE u == F!fc0013_init(d.t, bad)
  <2>1. e = WithTuner(d, u)
    BY <1>3 DEF tuner_init, Rafael
  <2>2. DOMAIN u = DOMAIN F!fc0013_regs
    BY <1>3 DEF F!fc0013_init, Chipped, IsChip
  <2> HIDE DEF u
  <2>3. ChipKept(d.kind, {}, d.t, u)
    BY <1>3, <2>2 DEF ChipKept, IsChip, Rafael
  <2> QED  BY <1>3, <2>1, <2>3, TunerMoves DEF Rafael
<1>4. CASE d.kind \in {"E4000", "FC2580"}
  <2>1. PICK u : e = WithTuner(d, u)
    BY <1>4 DEF tuner_init, Rafael
  <2>2. ChipKept(d.kind, {}, d.t, u)
    BY <1>4 DEF ChipKept, IsChip, Rafael
  <2> QED  BY <1>4, <2>1, <2>2, TunerMoves DEF Rafael
<1> QED  BY <1>1, <1>2, <1>3, <1>4 DEF Chipped, Fine, Kinds, Rafael

\* tuner_exit may change all of the tuner; with all in reach an initialised
\* R82xx ends asleep.
LEMMA ExitMoves ==
    ASSUME NEW d, NEW G, NEW bad, Chipped(d), d.repeater, NEW e, e = tuner_exit(d, bad)
    PROVE  /\ Step({}, G, d, e)
           /\ bad = {} /\ Rafael(d.kind) /\ d.t.initDone = TRUE
                => e.t.initDone = TRUE /\ Asleep(e.t)
<1>1. CASE Rafael(d.kind)
  <2> DEFINE u == R!r82xx_standby(d.t, bad)
  <2>1. e = WithTuner(d, u)
    BY <1>1 DEF tuner_exit, Rafael
  <2>2. IsR82xx(d.t)
    BY <1>1 DEF Chipped, IsChip
  <2>3. /\ IsR82xx(u) /\ u.initDone = d.t.initDone
        /\ bad = {} /\ d.t.initDone => Asleep(u)
    BY <2>2, StandbyIs DEF Asleep
  <2> HIDE DEF u
  <2>4. ChipKept(d.kind, {}, d.t, u)
    BY <1>1, <2>3 DEF ChipKept, IsChip, Rafael, Leaves
  <2> QED  BY <2>1, <2>3, <2>4, TunerMoves
<1>2. CASE d.kind = "E4000"
  <2>1. PICK u : e = WithTuner(d, u)
    BY <1>2 DEF tuner_exit, Rafael
  <2>2. ChipKept(d.kind, {}, d.t, u)
    BY <1>2 DEF ChipKept, IsChip, Rafael
  <2> QED  BY <1>2, <2>1, <2>2, TunerMoves DEF Rafael
<1>3. CASE d.kind \in {"FC0012", "FC0013", "FC2580"}
  <2>1. e = [d EXCEPT !.ok = TRUE]
    BY <1>3 DEF tuner_exit, Rafael
  <2> QED  BY <1>3, <2>1, OkMoves DEF Rafael
<1> QED  BY <1>1, <1>2, <1>3 DEF Chipped, Fine, Kinds, Rafael

\* What a switch to direct sampling or back changes of the device.
Switching == {"freq", "direct", "mode"}

\* Tuner and demodulator are in the mode that belongs to direct sampling
\* (asleep, zero IF) or to tuning (awake, low IF).
FitsMode(d) ==
    /\ d.t.initDone = TRUE /\ AwakeAgrees(d.t)
    /\ d.t.chip.r06.awake = (d.direct = 0)
    /\ d.mode = IF d.direct = 2 THEN "direct" ELSE "lowIf"

\* Direct sampling is on exactly when the frequency asks for it.
FreqFits(d) == d.freq # 0 => d.direct = WantsDirect(d, d.freq)

Directed(d, on) == [d EXCEPT !.direct = on]

\* Noting direct sampling is such a change.
LEMMA DirectedMoves ==
    ASSUME NEW d, NEW on \in {0, 2}, Chipped(d)
    PROVE  /\ Step({}, Switching, d, Directed(d, on)) /\ Directed(d, on).direct = on
           /\ Directed(d, on).t = d.t /\ Directed(d, on).mode = d.mode
<1> DEFINE g == Directed(d, on)
<1>1. Same(d, g)
  BY FieldSteps DEF Chipped, Directed
<1>2. Only(Switching, d, g) /\ g.t = d.t /\ g.direct = on /\ g.mode = d.mode
  BY DEF Directed, Only, Kept, Chipped, Fine, DeviceFields, Switching
<1> QED  BY <1>1, <1>2, ChipTrans DEF Step, Chipped

\* So is the demodulator's mode with it.
LEMMA ModeMoves ==
    ASSUME NEW d, NEW mode, NEW bad, NEW on \in {0, 2}, Chipped(d)
    PROVE  LET g == Directed(SetMode(d, mode, bad), on) IN
           /\ Step({}, Switching, d, g) /\ g.direct = on /\ g.t = d.t
           /\ bad = {} => g.mode = mode
<1> DEFINE e == SetMode(d, mode, bad)
<1>1. Same(d, e)
  BY ModeStep DEF Chipped
<1>2. Only(Switching, d, e) /\ e.t = d.t /\ (bad = {} => e.mode = mode)
  BY DEF SetMode, Only, Kept, Chipped, Fine, DeviceFields, Switching
<1> HIDE DEF e
<1>3. Step({}, Switching, d, e)
  BY <1>1, <1>2, ChipTrans DEF Step, Chipped
<1>4. Chipped(e)
  BY <1>3, StepTrans
<1> QED  BY <1>2, <1>3, <1>4, DirectedMoves, StepTrans DEF e

\* A switch notes what was asked for and keeps the frequency; with all in
\* reach an initialised R820T and its demodulator end in the mode asked for.
LEMMA SwitchedMoves ==
    ASSUME NEW d, NEW on \in {0, 2}, NEW bad, Chipped(d), NEW g, g = Switched(d, on, bad)
    PROVE  /\ Step({}, Switching, d, g) /\ g.direct = on /\ g.freq = d.freq
           /\ bad = {} /\ d.kind = "R820T" /\ d.t.initDone = TRUE => FitsMode(g)
<1> DEFINE r == Repeater(d, TRUE)
           x == tuner_exit(r, bad)
           u == Repeater(x, FALSE)
           i == tuner_init(r, bad)
           v == Repeater(i, FALSE)
           khz == IF Rafael(d.kind) THEN R82xxIf ELSE 0
           f == rtlsdr_set_if_freq(v, khz, bad)
           w == And(f, v.ok)
           low == IF Rafael(d.kind) THEN "lowIf" ELSE "zeroIf"
           a == Directed(SetMode(u, "direct", bad), on)
           b == Directed(SetMode(w, low, bad), 0)
           H == {"direct", "mode"}
<1>1. g = IF on # 0 THEN a ELSE b
  BY DEF Switched, ShiftedBy, Directed
<1> HIDE DEF khz, low
<1>2. /\ Step({}, {}, d, r) /\ r.repeater = TRUE /\ r.t = d.t /\ Chipped(r) /\ r.kind = d.kind
  BY RepeaterMoves, StepTrans
<1> HIDE DEF r
<1>3. /\ Step({}, {}, r, x) /\ Chipped(x)
      /\ bad = {} /\ Rafael(d.kind) /\ d.t.initDone = TRUE
           => x.t.initDone = TRUE /\ Asleep(x.t)
  BY <1>2, ExitMoves, StepTrans
<1> HIDE DEF x
<1>4. Step({}, {}, x, u) /\ Chipped(u) /\ u.t = x.t
  BY <1>3, RepeaterMoves, StepTrans
<1> HIDE DEF u
<1>5. /\ Step({}, {}, r, i) /\ Chipped(i)
      /\ bad = {} /\ Rafael(d.kind) => i.t.initDone = TRUE /\ Awake(i.t)
  BY <1>2, InitMoves, StepTrans
<1> HIDE DEF i
<1>6. Step({}, {}, i, v) /\ Chipped(v) /\ v.t = i.t
  BY <1>5, RepeaterMoves, StepTrans
<1> HIDE DEF v
<1>7. Step({}, {}, v, f) /\ Chipped(f) /\ f.t = v.t
  BY <1>6, FreqMoves, StepTrans
<1> HIDE DEF f
<1>8. Step({}, {}, f, w) /\ Chipped(w) /\ w.t = f.t
  BY <1>7, OkMoves, StepTrans
<1> HIDE DEF w
<1>9. /\ Step({}, Switching, u, a) /\ a.direct = on /\ a.t = u.t
      /\ bad = {} => a.mode = "direct"
  BY <1>4, ModeMoves
<1>10. /\ Step({}, Switching, w, b) /\ b.direct = 0 /\ b.t = w.t
       /\ bad = {} => b.mode = low
  BY <1>8, ModeMoves
<1> HIDE DEF a, b
<1>11. a.freq = u.freq /\ b.freq = w.freq
  <2>1. u.freq = [SetMode(u, "direct", bad) EXCEPT !.direct = on].freq
    BY <1>4 DEF SetMode, Chipped, Fine, DeviceFields
  <2>2. w.freq = [SetMode(w, low, bad) EXCEPT !.direct = 0].freq
    BY <1>8 DEF SetMode, Chipped, Fine, DeviceFields
  <2> QED  BY <2>1, <2>2 DEF a, b, Directed
<1>12. Step({}, {}, d, u) /\ Step({}, {}, d, w)
  BY <1>2, <1>3, <1>4, <1>5, <1>6, <1>7, <1>8, StepTrans
<1>13. u.freq = d.freq /\ w.freq = d.freq
  BY <1>12 DEF Step, Only, Kept
<1>14. Step({}, Switching, d, a) /\ Step({}, Switching, d, b)
  BY <1>9, <1>10, <1>12, StepTrans
<1>15. ASSUME bad = {}, d.kind = "R820T", d.t.initDone = TRUE
       PROVE  FitsMode(g)
  <2>1. Rafael(d.kind)
    BY <1>15 DEF Rafael
  <2>2. low = "lowIf"
    BY <2>1 DEF low
  <2>3. CASE on = 2
    <3>1. g = a
      BY <1>1, <2>3
    <3>2. g.t.initDone = TRUE /\ AwakeAgrees(g.t) /\ g.t.chip.r06.awake = FALSE
      BY <1>3, <1>4, <1>9, <1>15, <2>1, <3>1 DEF Asleep
    <3>3. g.direct = 2 /\ g.mode = "direct"
      BY <1>9, <1>15, <2>3, <3>1
    <3>4. (g.direct = 0) = FALSE
      BY <3>3
    <3>5. g.t.chip.r06.awake = (g.direct = 0)
      BY <3>2, <3>4, Zenon
    <3> QED  BY <3>2, <3>3, <3>5 DEF FitsMode
  <2>4. CASE on = 0
    <3>1. g = b
      BY <1>1, <2>4
    <3>2. g.t.initDone = TRUE /\ AwakeAgrees(g.t) /\ g.t.chip.r06.awake = TRUE
      BY <1>5, <1>6, <1>7, <1>8, <1>10, <1>15, <2>1, <3>1 DEF Awake
    <3>3. g.direct = 0 /\ g.mode = "lowIf"
      BY <1>10, <1>15, <2>2, <3>1
    <3>4. (g.direct = 0) = TRUE
      BY <3>3
    <3>5. g.t.chip.r06.awake = (g.direct = 0)
      BY <3>2, <3>4, Zenon
    <3> QED  BY <3>2, <3>3, <3>5 DEF FitsMode
  <2> QED  BY <2>3, <2>4
<1> QED  BY <1>1, <1>9, <1>10, <1>11, <1>13, <1>14, <1>15

IsCycle(r) == IsRound(r) /\ Chipped(r.dev)

\* What a frequency asks for depends on the kind of tuner only.
LEMMA WantsSame ==
    ASSUME NEW d, NEW e, e.kind = d.kind
    PROVE  \A khz : WantsDirect(e, khz) = WantsDirect(d, khz)
BY DEF WantsDirect

\* A tuning that keeps direct sampling keeps the modes.
LEMMA RestFits ==
    ASSUME NEW d, NEW u, NEW G, "mode" \notin G, Step(Rest, G, d, u), d.kind = "R820T", FitsMode(d),
           u.direct = d.direct
    PROVE  FitsMode(u)
<1>1. u.mode = d.mode
  BY DEF Step, Only, Kept
<1>2. AwakeKept(d.t, u.t)
  BY DEF Step, ChipKept, Rafael, Leaves, Rest
<1> QED  BY <1>1, <1>2 DEF FitsMode, AwakeKept

\* A round tunes, and switches if the frequency asks for the other way of
\* sampling; it is the last one exactly if it did not switch.
LEMMA RoundMoves ==
    ASSUME NEW r, NEW khz \in Nat, NEW bad, IsCycle(r), ~r.done,
           NEW s, s = Round(r, khz, bad)
    PROVE  /\ IsCycle(s) /\ Step({}, Switching, r.dev, s.dev)
           /\ s.dev.direct = WantsDirect(r.dev, khz) /\ s.dev.freq \in {0, khz} /\ FreqFits(s.dev)
           /\ s.done <=> (r.dev.direct = WantsDirect(r.dev, khz))
           /\ bad = {} /\ khz \in Tunable /\ Rafael(r.dev.kind) => s.dev.freq = khz
           /\ bad = {} /\ r.dev.kind = "R820T" /\ FitsMode(r.dev) => FitsMode(s.dev)
<1> DEFINE d == r.dev
           u == Retuned(d, khz, bad)
           v == And(u, r.ok)
           w == Switched(u, u.direct, bad)
           on == WantsDirect(d, khz)
           x == [r EXCEPT !.dev = v, !.done = TRUE]
           y == [r EXCEPT !.dev = w, !.ok = @ /\ w.ok]
<1>1. s = IF u.direct = d.direct THEN x ELSE y
  BY DEF Round, SwitchIfNeeded, ToBeTuned
<1>2. /\ Step(Rest, Retuning, d, u) /\ u.direct = on /\ u.freq = IF u.ok THEN khz ELSE 0
      /\ bad = {} /\ khz \in Tunable /\ Rafael(d.kind) => u.ok
  BY RetunedMoves DEF IsCycle
<1>3. on \in {0, 2}
  BY WantsDirectIs
<1> HIDE DEF u, on, d
<1>4. Chipped(u) /\ u.kind = d.kind /\ Step({}, Switching, d, u)
  <2>1. {} \subseteq Rest /\ Retuning \subseteq Switching
    BY DEF Retuning, Switching
  <2> QED  BY <1>2, <2>1, StepTrans
<1>5. Step({}, {}, u, v) /\ Step(Rest, Retuning, u, v)
  BY <1>4, OkMoves
<1>6. /\ Step({}, Switching, u, w) /\ w.direct = u.direct /\ w.freq = u.freq
      /\ bad = {} /\ u.kind = "R820T" /\ u.t.initDone = TRUE => FitsMode(w)
  <2>1. u.direct \in {0, 2}
    BY <1>2, <1>3
  <2>2. \A e, up, g : /\ Chipped(e) /\ up \in {0, 2} /\ g = Switched(e, up, bad)
                     => /\ Step({}, Switching, e, g) /\ g.direct = up /\ g.freq = e.freq
                        /\ bad = {} /\ e.kind = "R820T" /\ e.t.initDone = TRUE => FitsMode(g)
    BY SwitchedMoves
  <2>3. w = Switched(u, u.direct, bad)
    OBVIOUS
  <2> HIDE DEF w
  <2> QED  BY <1>4, <2>1, <2>2, <2>3
<1> HIDE DEF v, w
<1>7. Step({}, Switching, d, v) /\ Step({}, Switching, d, w) /\ v.direct = u.direct /\ v.freq = u.freq
  <2>1. Step({}, Switching, u, v)
    BY <1>5, StepTrans
  <2>2. Step({}, Switching, d, v) /\ Step({}, Switching, d, w)
    BY <1>4, <1>6, <2>1, StepTrans
  <2>3. v.direct = u.direct /\ v.freq = u.freq
    BY <1>5 DEF Step, Only, Kept
  <2> QED  BY <2>2, <2>3
<1>8. DOMAIN r = {"dev", "ok", "done"}
  BY DEF IsCycle, IsRound
<1>9. /\ DOMAIN x = {"dev", "ok", "done"} /\ x.dev = v /\ x.done
      /\ DOMAIN y = {"dev", "ok", "done"} /\ y.dev = w /\ ~y.done
  BY <1>8
<1> HIDE DEF x, y
<1>10. DOMAIN s = {"dev", "ok", "done"} /\ s.dev \in {v, w} /\ (s.done <=> (d.direct = on))
  BY <1>1, <1>2, <1>9
<1>11. IsCycle(s) /\ Step({}, Switching, d, s.dev) /\ s.dev.direct = on
  BY <1>2, <1>6, <1>7, <1>10, StepTrans DEF IsCycle, IsRound, Chipped
<1>12. s.dev.freq = u.freq
  BY <1>6, <1>7, <1>10
<1>13. FreqFits(s.dev)
  <2>1. \A f : WantsDirect(s.dev, f) = WantsDirect(d, f)
    BY <1>11, StepTrans, WantsSame
  <2>2. s.dev.freq # 0 => s.dev.freq = khz
    BY <1>2, <1>12
  <2> QED  BY <1>11, <2>1, <2>2 DEF FreqFits, on
<1>14. ASSUME bad = {}, d.kind = "R820T", FitsMode(d)
       PROVE  FitsMode(s.dev)
  <2>1. CASE u.direct = d.direct
    <3>1. Step(Rest, Retuning, d, v)
      BY <1>2, <1>5, StepTrans
    <3>2. FitsMode(v)
      BY <1>7, <1>14, <2>1, <3>1, RestFits DEF Retuning
    <3> QED  BY <1>1, <1>9, <2>1, <3>2
  <2>2. CASE u.direct # d.direct
    <3>1. AwakeKept(d.t, u.t)
      BY <1>2, <1>14 DEF Step, ChipKept, Rafael, Leaves, Rest
    <3>2. u.t.initDone = TRUE
      BY <1>14, <3>1 DEF AwakeKept, FitsMode
    <3> QED  BY <1>1, <1>4, <1>6, <1>9, <1>14, <2>2, <3>2
  <2> QED  BY <2>1, <2>2
<1> QED  BY <1>2, <1>10, <1>11, <1>12, <1>13, <1>14 DEF d, on

\* Before the first round.
First(d) == [dev |-> d, ok |-> TRUE, done |-> FALSE]

\* It is a round's start.
LEMMA FirstIs ==
    ASSUME NEW d, Chipped(d)
    PROVE  IsCycle(First(d)) /\ First(d).dev = d /\ ~First(d).done
BY DEF First, IsCycle, IsRound, Chipped

\* A second or third round tunes to the frequency of the first.
LEMMA AgainMoves ==
    ASSUME NEW r, NEW bad, IsCycle(r), NEW s, s = RoundAgain(r, bad)
    PROVE  /\ IsCycle(s) /\ Step({}, Switching, r.dev, s.dev)
           /\ s.dev.freq \in {0, r.dev.freq}
           /\ FreqFits(r.dev) => FreqFits(s.dev)
           /\ bad = {} /\ r.dev.freq \in Tunable /\ Rafael(r.dev.kind) => s.dev.freq = r.dev.freq
           /\ bad = {} /\ r.dev.kind = "R820T" /\ FitsMode(r.dev) => FitsMode(s.dev)
<1>1. CASE r.done
  <2>1. s = r
    BY <1>1 DEF RoundAgain
  <2> QED  BY <2>1, StepTrans DEF IsCycle
<1>2. CASE ~r.done
  <2>1. s = Round(r, r.dev.freq, bad)
    BY <1>2 DEF RoundAgain
  <2>2. r.dev.freq \in Nat
    BY DEF IsCycle, IsRound, Fine
  <2>4. /\ IsCycle(s) /\ Step({}, Switching, r.dev, s.dev)
        /\ s.dev.freq \in {0, r.dev.freq} /\ FreqFits(s.dev)
        /\ s.done <=> (r.dev.direct = WantsDirect(r.dev, r.dev.freq))
    BY <2>1, <1>2, <2>2, RoundMoves
  <2>5. bad = {} /\ r.dev.freq \in Tunable /\ Rafael(r.dev.kind) => s.dev.freq = r.dev.freq
    BY <2>1, <1>2, <2>2, RoundMoves
  <2>6. bad = {} /\ r.dev.kind = "R820T" /\ FitsMode(r.dev) => FitsMode(s.dev)
    BY <2>1, <1>2, <2>2, RoundMoves
  <2> QED  BY <2>4, <2>5, <2>6
<1> QED  BY <1>1, <1>2

\* A tuning that needs no switch.
TunedOnce(d, khz, bad) == And(Retuned(d, khz, bad), TRUE)

\* The outcome that is handed up.
LEMMA DoneMoves ==
    ASSUME NEW u, NEW W, NEW G, Chipped(u), NEW v, v = And(u, TRUE)
    PROVE  Step(W, G, u, v) /\ v.t = u.t /\ (v.ok => u.ok)
<1>1. Same(u, v)
  BY OkStep DEF Chipped
<1>2. Only(G, u, v) /\ v.t = u.t /\ (v.ok => u.ok)
  BY DEF And, Only, Kept, Chipped, Fine, DeviceFields
<1> QED  BY <1>1, <1>2, ChipTrans DEF Step, Chipped

\* rtlsdr_set_center_freq is one round and at most two more.
LEMMA CentreIs ==
    ASSUME NEW d, NEW khz \in Nat, NEW bad, Chipped(d),
           NEW r, r = Round(First(d), khz, bad)
    PROVE  /\ IsCycle(r) /\ (r.done <=> (d.direct = WantsDirect(d, khz)))
           /\ r.dev.direct = WantsDirect(d, khz) /\ r.dev.freq \in {0, khz} /\ FreqFits(r.dev)
           /\ Step({}, Switching, d, r.dev)
           /\ rtlsdr_set_center_freq(d, khz, bad) = RoundAgain(RoundAgain(r, bad), bad).dev
           /\ r.done => r.dev = TunedOnce(d, khz, bad)
<1> DEFINE f == First(d)
<1>0. r = Round(f, khz, bad)
  OBVIOUS
<1>1. IsCycle(f) /\ f.dev = d /\ ~f.done
  BY FirstIs
<1>2. rtlsdr_set_center_freq(d, khz, bad) = RoundAgain(RoundAgain(r, bad), bad).dev
  BY DEF rtlsdr_set_center_freq, First
<1>3. f.ok = TRUE
  BY DEF First
<1> HIDE DEF f
<1>4. /\ IsCycle(r) /\ (r.done <=> (d.direct = WantsDirect(d, khz)))
      /\ r.dev.direct = WantsDirect(d, khz) /\ r.dev.freq \in {0, khz} /\ FreqFits(r.dev)
      /\ Step({}, Switching, d, r.dev)
  BY <1>0, <1>1, RoundMoves
<1>5. r.done => r.dev = TunedOnce(d, khz, bad)
  <2> DEFINE u == Retuned(d, khz, bad)
             w == Switched(u, u.direct, bad)
  <2>1. r = IF u.direct = d.direct THEN [f EXCEPT !.dev = And(u, f.ok), !.done = TRUE]
            ELSE [f EXCEPT !.dev = w, !.ok = @ /\ w.ok]
    BY <1>0, <1>1 DEF Round, SwitchIfNeeded, ToBeTuned
  <2>2. u.direct = WantsDirect(d, khz)
    BY RetunedMoves
  <2>3. And(u, f.ok) = TunedOnce(d, khz, bad)
    BY <1>3 DEF TunedOnce
  <2>4. DOMAIN f = {"dev", "ok", "done"}
    BY <1>1 DEF IsCycle, IsRound
  <2> HIDE DEF u, w
  <2>5. u.direct = d.direct => r.dev = And(u, f.ok)
    BY <2>1, <2>4
  <2> QED  BY <1>4, <2>2, <2>3, <2>5
<1> QED  BY <1>2, <1>4, <1>5

\* It ends on the frequency or on none, with direct sampling as the
\* frequency asks for it, and the modes of an R820T that fitted still fit.
LEMMA CentreMoves ==
    ASSUME NEW d, NEW khz \in Nat, NEW bad, Chipped(d),
           NEW e, e = rtlsdr_set_center_freq(d, khz, bad)
    PROVE  /\ Step({}, Switching, d, e) /\ e.freq \in {0, khz} /\ FreqFits(e)
           /\ bad = {} /\ khz \in Tunable /\ Rafael(d.kind) => e.freq = khz
           /\ bad = {} /\ d.kind = "R820T" /\ FitsMode(d) => FitsMode(e)
<1> DEFINE f == First(d)
           r == Round(f, khz, bad)
           s == RoundAgain(r, bad)
           q == RoundAgain(s, bad)
<1>1. /\ IsCycle(r) /\ (r.done <=> (d.direct = WantsDirect(d, khz)))
      /\ r.dev.freq \in {0, khz} /\ FreqFits(r.dev)
      /\ Step({}, Switching, d, r.dev)
  BY CentreIs
<1>2. e = q.dev
  BY CentreIs
<1>3. IsCycle(f) /\ f.dev = d /\ ~f.done
  BY FirstIs
<1>4. bad = {} /\ khz \in Tunable /\ Rafael(d.kind) => r.dev.freq = khz
  BY <1>3, RoundMoves
<1>5. bad = {} /\ d.kind = "R820T" /\ FitsMode(d) => FitsMode(r.dev)
  BY <1>3, RoundMoves
<1>6. r.dev.kind = d.kind
  BY <1>1, StepTrans
<1> HIDE DEF r
<1>7. /\ IsCycle(s) /\ Step({}, Switching, r.dev, s.dev)
      /\ s.dev.freq \in {0, r.dev.freq} /\ FreqFits(s.dev)
  BY <1>1, <1>6, AgainMoves
<1>8. bad = {} /\ khz \in Tunable /\ Rafael(d.kind) => s.dev.freq = khz
  BY <1>1, <1>4, <1>6, AgainMoves
<1>9. bad = {} /\ d.kind = "R820T" /\ FitsMode(d) => FitsMode(s.dev)
  BY <1>1, <1>5, <1>6, AgainMoves
<1>10. s.dev.kind = d.kind
  BY <1>6, <1>7, StepTrans
<1> HIDE DEF s
<1>11. /\ IsCycle(q) /\ Step({}, Switching, s.dev, q.dev)
       /\ q.dev.freq \in {0, s.dev.freq} /\ FreqFits(q.dev)
  BY <1>7, AgainMoves
<1>12. bad = {} /\ khz \in Tunable /\ Rafael(d.kind) => q.dev.freq = khz
  BY <1>7, <1>8, <1>10, AgainMoves
<1>13. bad = {} /\ d.kind = "R820T" /\ FitsMode(d) => FitsMode(q.dev)
  BY <1>7, <1>9, <1>10, AgainMoves
<1> HIDE DEF q
<1>14. Step({}, Switching, d, q.dev)
  BY <1>1, <1>7, <1>11, StepTrans
<1>15. q.dev.freq \in {0, khz}
  BY <1>1, <1>7, <1>11
<1> QED  BY <1>2, <1>11, <1>12, <1>13, <1>14, <1>15

\* It is a tuning without a switch, or one that failed, or one whose switch
\* is seen in the device.
LEMMA CentreStays ==
    ASSUME NEW d, NEW khz \in Nat, NEW bad, Chipped(d),
           NEW e, e = rtlsdr_set_center_freq(d, khz, bad)
    PROVE  \/ e = TunedOnce(d, khz, bad) /\ d.direct = WantsDirect(d, khz)
           \/ e.freq = 0
           \/ e.direct # d.direct /\ d.direct # WantsDirect(d, khz)
<1> DEFINE f == First(d)
           r == Round(f, khz, bad)
           s == RoundAgain(r, bad)
           q == RoundAgain(s, bad)
           on == WantsDirect(d, khz)
<1>1. /\ IsCycle(r) /\ (r.done <=> (d.direct = on))
      /\ r.dev.freq \in {0, khz} /\ FreqFits(r.dev)
      /\ Step({}, Switching, d, r.dev)
      /\ r.done => r.dev = TunedOnce(d, khz, bad)
  BY CentreIs
<1>2. e = q.dev
  BY CentreIs
<1> HIDE DEF r
<1>4. CASE r.done
  <2>1. s = r
    BY <1>4 DEF RoundAgain
  <2>2. q = r
    BY <1>4, <2>1 DEF RoundAgain
  <2> QED  BY <1>1, <1>2, <1>4, <2>2
<1>5. CASE ~r.done /\ e.freq # 0
  <2>1. /\ IsCycle(s) /\ s.dev.freq \in {0, r.dev.freq} /\ FreqFits(s.dev)
        /\ Step({}, Switching, r.dev, s.dev)
    BY <1>1, AgainMoves
  <2> HIDE DEF s
  <2>2. /\ q.dev.freq \in {0, s.dev.freq} /\ FreqFits(q.dev) /\ Step({}, Switching, s.dev, q.dev)
    BY <2>1, AgainMoves
  <2> HIDE DEF q
  <2>3. e.freq = khz
    BY <1>1, <1>2, <1>5, <2>1, <2>2
  <2>4. e.kind = d.kind
    BY <1>1, <1>2, <2>1, <2>2, StepTrans
  <2>5. e.direct = WantsDirect(e, khz)
    BY <1>2, <1>5, <2>2, <2>3 DEF FreqFits
  <2>6. e.direct = on
    BY <2>4, <2>5, WantsSame
  <2> HIDE DEF on
  <2> QED  BY <1>1, <1>5, <2>6 DEF on
<1> QED  BY <1>4, <1>5

\* Unless it failed or switched it leaves gain, bandwidth and IF gain alone.
LEMMA CentreLeaves ==
    ASSUME NEW d, NEW khz \in Nat, NEW bad, Chipped(d),
           NEW e, e = rtlsdr_set_center_freq(d, khz, bad)
    PROVE  /\ e.freq # 0 /\ e.direct = d.direct => Step(Rest, Retuning, d, e)
           /\ e.freq # 0 /\ bad = {} /\ khz \in Tunable /\ d.kind = "V4" /\ d.direct = 0
              /\ InputAgrees(d.t) => Follows(e.t, khz)
           /\ d.kind # "R820T" /\ d.direct = 0 => (e.ok => e.freq = khz)
           /\ d.kind # "R820T" /\ d.direct = 0 => e.direct = 0
<1> DEFINE u == Retuned(d, khz, bad)
           v == TunedOnce(d, khz, bad)
<1>1. /\ Step(Rest, Retuning, d, u) /\ u.freq = IF u.ok THEN khz ELSE 0
      /\ bad = {} /\ khz \in Tunable /\ d.kind = "V4" /\ InputAgrees(d.t) => Follows(u.t, khz)
  BY RetunedMoves
<1>2. u.direct = WantsDirect(d, khz)
  BY RetunedMoves
<1>3. Step(Rest, Retuning, u, v) /\ Step({}, {}, u, v) /\ v.t = u.t /\ (v.ok => u.ok)
  <2>1. v = And(u, TRUE)
    BY DEF TunedOnce
  <2>2. Chipped(u)
    BY <1>1, StepTrans
  <2> HIDE DEF u, v
  <2> QED  BY <2>1, <2>2, DoneMoves
<1> HIDE DEF u, v
<1>5. v.freq = u.freq /\ v.direct = u.direct
  BY <1>3 DEF Step, Only, Kept
<1>6. Step(Rest, Retuning, d, v)
  BY <1>1, <1>3, StepTrans
<1>7. \/ e = v /\ d.direct = WantsDirect(d, khz)
      \/ e.freq = 0
      \/ e.direct # d.direct /\ d.direct # WantsDirect(d, khz)
  BY CentreStays DEF v
<1>8. d.kind # "R820T" => WantsDirect(d, khz) = 0
  BY DEF WantsDirect
<1>9. e.freq # 0 /\ e.direct = d.direct => e = v
  BY <1>7
<1>10. ASSUME d.kind # "R820T", d.direct = 0
       PROVE  e.direct = 0 /\ (e.ok => e.freq = khz)
  <2> DEFINE r == Round(First(d), khz, bad)
  <2>1. r.done /\ r.dev = v /\ rtlsdr_set_center_freq(d, khz, bad) = RoundAgain(RoundAgain(r, bad), bad).dev
    BY <1>8, <1>10, CentreIs DEF v
  <2>2. RoundAgain(r, bad) = r
    BY <2>1 DEF RoundAgain
  <2>3. e = v
    BY <2>1, <2>2
  <2> QED  BY <1>1, <1>2, <1>3, <1>5, <1>8, <1>10, <2>3
<1>11. e.freq # 0 /\ d.kind = "V4" /\ d.direct = 0 => e = v
  BY <1>8, <1>7
<1> QED  BY <1>1, <1>3, <1>6, <1>9, <1>10, <1>11

(****************************************************************************)
(* Outcomes: what every call that may tune again has in common.             *)
(****************************************************************************)

\* A device on a tunable frequency; only an R820T samples directly.
Ready(d) == Chipped(d) /\ d.freq \in Tunable /\ (d.kind # "R820T" => d.direct = 0)

\* An R820T in the mode of its frequency.
Fits(d) == FitsMode(d) /\ FreqFits(d)

\* A call that may tune again: whatever happens the device stays ready, and
\* unless it failed or switched the settings W are left alone; with all in
\* reach the frequency stays, the input still follows it, the modes still fit.
Outcome(W, G, d, e, bad) ==
    /\ Ready(e)
    /\ Step({}, Switching \cup G, d, e)
    /\ e.freq # 0 /\ e.direct = d.direct => Step(W, Retuning \cup G, d, e)
    /\ bad = {} /\ (Rafael(d.kind) \/ e.ok) => e.freq = d.freq
    /\ bad = {} /\ d.kind = "V4" /\ e.freq # 0 /\ Follows(d.t, d.freq) => Follows(e.t, e.freq)
    /\ bad = {} /\ d.kind = "R820T" /\ Fits(d) => Fits(e)

\* Steps that touch neither modes nor antenna input.
Quiet(V, H) == {"awake", "input", "lock"} \subseteq V /\ H \subseteq {"rate", "bw", "corr", "sro", "ratio"}

\* They keep frequency, direct sampling, modes and input.
LEMMA QuietIs ==
    ASSUME NEW V, NEW H, Quiet(V, H), NEW d, NEW e, Step(V, H, d, e)
    PROVE  /\ e.freq = d.freq /\ e.direct = d.direct /\ e.mode = d.mode /\ e.kind = d.kind
           /\ d.kind = "V4" /\ Follows(d.t, d.freq) => Follows(e.t, e.freq)
           /\ d.kind = "R820T" /\ Fits(d) => Fits(e)
           /\ Ready(d) => Ready(e)
<1>1. e.freq = d.freq /\ e.direct = d.direct /\ e.mode = d.mode
  BY DEF Quiet, Step, Only, Kept
<1>2. e.kind = d.kind /\ Chipped(e)
  BY StepTrans
<1>3. Rafael(d.kind) => InputKept(d.t, e.t) /\ LockKept(d.t, e.t) /\ AwakeKept(d.t, e.t)
  BY DEF Quiet, Step, ChipKept, Leaves
<1>4. d.kind = "V4" /\ Follows(d.t, d.freq) => Follows(e.t, e.freq)
  BY <1>1, <1>3 DEF Rafael, Follows, InputKept, LockKept
<1>5. d.kind = "R820T" /\ FitsMode(d) => FitsMode(e)
  BY <1>1, <1>3 DEF Rafael, FitsMode, AwakeKept
<1>6. FreqFits(d) => FreqFits(e)
  BY <1>1, <1>2, WantsSame DEF FreqFits
<1> QED  BY <1>1, <1>2, <1>4, <1>5, <1>6 DEF Fits, Ready

\* They have such an outcome.
LEMMA QuietStep ==
    ASSUME NEW V, NEW H, NEW W, NEW G, Quiet(V, H), NEW d, NEW e, NEW bad, Ready(d), Step(V, H, d, e),
           W \subseteq V, H \subseteq G
    PROVE  Outcome(W, G, d, e, bad)
<1>1. Step(W, Retuning \cup G, d, e) /\ Step({}, Switching \cup G, d, e)
  BY StepTrans
<1> QED  BY <1>1, QuietIs DEF Outcome

\* A quiet step before such a call.
LEMMA StepThen ==
    ASSUME NEW V, NEW H, NEW W, NEW G, Quiet(V, H), NEW d, NEW e, NEW g, NEW bad, Ready(d),
           Step(V, H, d, e), W \subseteq V, H \subseteq G, Outcome(W, G, e, g, bad)
    PROVE  Outcome(W, G, d, g, bad)
<1>1. Step(W, Retuning \cup G, d, e) /\ Step({}, Switching \cup G, d, e)
  BY StepTrans
<1>2. e.freq = d.freq /\ e.direct = d.direct /\ e.kind = d.kind
  BY QuietIs
<1>3. Step({}, Switching \cup G, d, g)
  BY <1>1, StepTrans DEF Outcome
<1>4. g.freq # 0 /\ g.direct = d.direct => Step(W, Retuning \cup G, d, g)
  BY <1>1, <1>2, StepTrans DEF Outcome
<1>5. /\ d.kind = "V4" /\ Follows(d.t, d.freq) => Follows(e.t, e.freq)
      /\ d.kind = "R820T" /\ Fits(d) => Fits(e)
  BY QuietIs
<1> QED  BY <1>2, <1>3, <1>4, <1>5 DEF Outcome

\* A quiet step after such a call.
LEMMA ThenStep ==
    ASSUME NEW V, NEW H, NEW W, NEW G, Quiet(V, H), NEW d, NEW e, NEW g, NEW bad, Ready(d),
           Outcome(W, G, d, e, bad), Step(V, H, e, g), W \subseteq V, H \subseteq G,
           (g.ok => e.ok) \/ Rafael(d.kind) \/ e.freq = d.freq
    PROVE  Outcome(W, G, d, g, bad)
<1>1. Step(W, Retuning \cup G, e, g) /\ Step({}, Switching \cup G, e, g)
  BY StepTrans
<1>2. g.freq = e.freq /\ g.direct = e.direct /\ g.kind = e.kind /\ e.kind = d.kind /\ Ready(g)
  BY QuietIs, StepTrans DEF Outcome
<1>3. Step({}, Switching \cup G, d, g)
  BY <1>1, StepTrans DEF Outcome
<1>4. g.freq # 0 /\ g.direct = d.direct => Step(W, Retuning \cup G, d, g)
  BY <1>1, <1>2, StepTrans DEF Outcome
<1>5. /\ e.kind = "V4" /\ Follows(e.t, e.freq) => Follows(g.t, g.freq)
      /\ e.kind = "R820T" /\ Fits(e) => Fits(g)
  BY QuietIs
<1> QED  BY <1>2, <1>3, <1>4, <1>5 DEF Outcome

\* Tuning again to the frequency the device is on has such an outcome.
LEMMA CentreOutcome ==
    ASSUME NEW d, NEW bad, Ready(d), NEW e, e = rtlsdr_set_center_freq(d, d.freq, bad)
    PROVE  Outcome(Rest, {}, d, e, bad)
<1>0. Chipped(d) /\ d.freq \in Tunable /\ (d.kind # "R820T" => d.direct = 0)
  BY DEF Ready
<1>1. ASSUME NEW khz \in Nat, khz = d.freq
      PROVE  Outcome(Rest, {}, d, e, bad)
  <2>1. e = rtlsdr_set_center_freq(d, khz, bad) /\ khz \in Tunable
    BY <1>0, <1>1
  <2>2. /\ Step({}, Switching, d, e) /\ e.freq \in {0, khz} /\ FreqFits(e)
        /\ bad = {} /\ Rafael(d.kind) => e.freq = khz
        /\ bad = {} /\ d.kind = "R820T" /\ FitsMode(d) => FitsMode(e)
    BY <1>0, <2>1, CentreMoves
  <2>3. /\ e.freq # 0 /\ e.direct = d.direct => Step(Rest, Retuning, d, e)
        /\ e.freq # 0 /\ bad = {} /\ d.kind = "V4" /\ InputAgrees(d.t) => Follows(e.t, khz)
        /\ d.kind # "R820T" => (e.ok => e.freq = khz)
        /\ d.kind # "R820T" => e.direct = 0
    BY <1>0, <2>1, CentreLeaves
  <2>4. Ready(e)
    <3>1. 0 \in Tunable
      BY DEF Tunable
    <3> QED  BY <2>1, <2>2, <2>3, <3>1, StepTrans DEF Ready
  <2>5. Switching \cup {} = Switching /\ Retuning \cup {} = Retuning
    OBVIOUS
  <2>6. bad = {} /\ (Rafael(d.kind) \/ e.ok) => e.freq = d.freq
    BY <1>1, <2>2, <2>3 DEF Rafael
  <2>7. bad = {} /\ d.kind = "V4" /\ e.freq # 0 /\ Follows(d.t, d.freq) => Follows(e.t, e.freq)
    <3>1. Follows(d.t, d.freq) => InputAgrees(d.t)
      BY DEF Follows
    <3> QED  BY <1>1, <2>2, <2>3, <3>1
  <2> QED  BY <2>2, <2>3, <2>4, <2>5, <2>6, <2>7 DEF Outcome, Fits
<1>2. d.freq \in Nat
  BY <1>0 DEF Tunable
<1> QED  BY <1>1, <1>2

\* Less may be promised.
LEMMA OutcomeWidens ==
    ASSUME NEW W, NEW G, NEW V, NEW H, NEW d, NEW e, NEW bad, Outcome(W, G, d, e, bad),
           V \subseteq W, G \subseteq H
    PROVE  Outcome(V, H, d, e, bad)
<1>1. Retuning \cup G \subseteq Retuning \cup H /\ Switching \cup G \subseteq Switching \cup H
  OBVIOUS
<1> QED  BY <1>1, StepTrans DEF Outcome

(****************************************************************************)
(* Bandwidth, sample rate and correction: each may tune again.              *)
(****************************************************************************)

\* The filter is the one for the bandwidth, if the tuner was in use throughout.
Width(d, e, bw, bad) ==
    bad = {} /\ Rafael(d.kind) /\ e.freq # 0 /\ e.direct = d.direct
      => e.t.chip.r0b.width = R!FilterOf(bw).reg

\* r820t_set_bw chooses the filter and tunes again, as its IF has moved.
LEMMA BandwidthOutcome ==
    ASSUME NEW d, NEW bw \in Nat, NEW bad, Ready(d), d.repeater, Rafael(d.kind),
           NEW e, e = r820t_set_bw(d, bw, bad)
    PROVE  Outcome(Rest \ {"bw"}, {}, d, e, bad) /\ Width(d, e, bw, bad)
<1> DEFINE t == R!r82xx_set_bandwidth(d.t, bw, bad)
           u == WithTuner(d, t)
           khz == u.t.intFreq
           f == rtlsdr_set_if_freq(u, khz, bad)
           v == IF u.ok THEN f ELSE u
           g == rtlsdr_set_center_freq(v, v.freq, bad)
           V == All \ {"bw"}
           W == Rest \ {"bw"}
<1>1. e = IF v.ok THEN g ELSE v
  <2> DEFINE x == Then(u, LAMBDA y : rtlsdr_set_if_freq(y, y.t.intFreq, bad))
  <2>1. x = v
    BY DEF Then
  <2>2. e = Then(x, LAMBDA y : rtlsdr_set_center_freq(y, y.freq, bad))
    BY DEF r820t_set_bw
  <2> HIDE DEF x
  <2>3. e = IF x.ok THEN rtlsdr_set_center_freq(x, x.freq, bad) ELSE x
    BY <2>2 DEF Then
  <2> QED  BY <2>1, <2>3
<1>2. Leaves(V, d.t, t) /\ t.ok = ("r0b" \notin bad) /\ (bad = {} => t.chip.r0b.width = R!FilterOf(bw).reg)
  BY SetBandwidthLeaves DEF Ready, Chipped, IsChip
<1> HIDE DEF t
<1>3. ChipKept(d.kind, V, d.t, t)
  BY <1>2, LeavesTrans DEF ChipKept, IsChip, Rafael, Leaves
<1>4. Step(V, {}, d, u) /\ u.ok = t.ok /\ u.t = t
  BY <1>3, TunerMoves DEF Ready
<1> HIDE DEF u, khz
<1>5. Chipped(u)
  BY <1>4, StepTrans
<1>6. Step(V, {}, u, f) /\ f.ok = ("ddc" \notin bad) /\ f.t = u.t
  BY <1>5, FreqMoves
<1> HIDE DEF f
<1>7. Step(V, {}, d, v) /\ v.t = t /\ (bad = {} => v.ok)
  BY <1>2, <1>4, <1>6, StepTrans
<1> HIDE DEF v
<1>8. Quiet(V, {}) /\ W \subseteq V /\ W \subseteq Rest
  BY DEF Quiet, All, Rest
<1>9. Ready(v) /\ v.kind = d.kind /\ v.direct = d.direct
  BY <1>7, <1>8, QuietIs
<1>10. Outcome(Rest, {}, v, g, bad)
  BY <1>9, CentreOutcome
<1> HIDE DEF g
<1>11. Outcome(W, {}, v, g, bad)
  BY <1>8, <1>10, OutcomeWidens
<1>12. Outcome(W, {}, d, g, bad) /\ Outcome(W, {}, d, v, bad)
  <2> HIDE DEF V, W
  <2> QED  BY <1>7, <1>8, <1>11, StepThen, QuietStep
<1>13. Width(d, g, bw, bad)
  <2> SUFFICES ASSUME bad = {}, g.freq # 0, g.direct = d.direct
               PROVE  g.t.chip.r0b.width = R!FilterOf(bw).reg
    BY DEF Width
  <2>1. Step(Rest, Retuning \cup {}, v, g)
    BY <1>9, <1>10 DEF Outcome
  <2>2. Leaves(Rest, v.t, g.t)
    BY <1>9, <2>1 DEF Step, ChipKept
  <2>3. g.t.chip.r0b = v.t.chip.r0b
    BY <2>2 DEF Leaves, Rest, FilterKept
  <2> QED  BY <1>2, <1>7, <2>3
<1>14. Width(d, v, bw, bad)
  BY <1>2, <1>7 DEF Width
<1> QED  BY <1>1, <1>12, <1>13, <1>14

\* The bandwidth of every tuner; only an R82xx tunes again.
LEMMA TunerBandwidthOutcome ==
    ASSUME NEW d, NEW bw \in Nat, NEW bad, Ready(d), d.repeater, NEW e, e = tuner_set_bw(d, bw, bad)
    PROVE  /\ Outcome(Rest \ {"bw"}, {}, d, e, bad) /\ Width(d, e, bw, bad)
           /\ Rafael(d.kind) \/ e.freq = d.freq
<1>1. CASE Rafael(d.kind)
  <2>1. e = r820t_set_bw(d, bw, bad)
    BY <1>1 DEF tuner_set_bw, Rafael
  <2> QED  BY <1>1, <2>1, BandwidthOutcome
<1>2. CASE ~Rafael(d.kind)
  <2>1. Chipped(d) /\ d.kind \in {"E4000", "FC0012", "FC0013", "FC2580"}
    BY <1>2 DEF Ready, Chipped, Fine, Kinds, Rafael
  <2>2. Step(All, {}, d, e)
    <3>1. CASE d.kind \in {"E4000", "FC2580"}
      <4>1. PICK u : e = WithTuner(d, u)
        BY <1>2, <3>1 DEF tuner_set_bw
      <4>2. ChipKept(d.kind, All, d.t, u)
        BY <3>1 DEF ChipKept, IsChip, Rafael
      <4> QED  BY <2>1, <4>1, <4>2, TunerMoves
    <3>2. CASE d.kind \in {"FC0012", "FC0013"}
      <4>1. e = [d EXCEPT !.ok = TRUE]
        BY <1>2, <3>2 DEF tuner_set_bw
      <4> QED  BY <2>1, <4>1, OkMoves
    <3> QED  BY <2>1, <3>1, <3>2
  <2>3. Quiet(All, {}) /\ Rest \ {"bw"} \subseteq All
    BY DEF Quiet, All, Rest
  <2>4. Outcome(Rest \ {"bw"}, {}, d, e, bad)
    BY <2>2, <2>3, QuietStep
  <2>5. e.freq = d.freq
    BY <2>2, <2>3, QuietIs
  <2> QED  BY <1>2, <2>4, <2>5 DEF Width
<1> QED  BY <1>1, <1>2

\* Switching the repeater or noting a number is quiet.
LEMMA QuietEnds ==
    ASSUME NEW W, W \subseteq Rest, NEW G, G \subseteq {"rate", "bw", "corr", "sro", "ratio"}
    PROVE  Quiet(All, G) /\ W \subseteq All
BY DEF Quiet, All, Rest

\* The repeater, named.
LEMMA SwitchedRepeater ==
    ASSUME NEW d, NEW W, NEW G, NEW on, Chipped(d), NEW e, e = Repeater(d, on)
    PROVE  Step(W, G, d, e) /\ e.ok = d.ok /\ e.t = d.t /\ Only({}, d, e) /\ Chipped(e)
BY RepeaterMoves, StepTrans

\* The resampler's ratio is one field.
LEMMA RatioMoves ==
    ASSUME NEW d, NEW W, NEW v, Chipped(d)
    PROVE  Step(W, {"ratio"}, d, [d EXCEPT !.ratio = v])
<1>1. ChipKept(d.kind, W, d.t, d.t)
  BY ChipTrans DEF Chipped
<1> QED  BY <1>1, FieldSteps DEF Only, Kept, Chipped, Fine, DeviceFields, Step

\* rtlsdr_set_tuner_bandwidth notes the bandwidth, with the filter for it,
\* when it succeeds.
LEMMA SetBandwidthOutcome ==
    ASSUME NEW d, NEW bw \in Nat, NEW bad, Ready(d), NEW e, e = rtlsdr_set_tuner_bandwidth(d, bw, bad)
    PROVE  /\ Outcome(Rest \ {"bw"}, {"bw"}, d, e, bad)
           /\ e.ok => e.bw = bw /\ Width(d, e, WantedBw(e), bad)
<1> DEFINE r == Repeater(d, TRUE)
           w == WantedBw([d EXCEPT !.bw = bw])
           u == tuner_set_bw(r, w, bad)
           x == IF u.ok THEN bw ELSE u.bw
           v == Limited(u, bw)
           W == Rest \ {"bw"}
           G == {"bw"}
<1>1. e = Repeater(v, FALSE)
  BY DEF rtlsdr_set_tuner_bandwidth
<1>2. w = (IF bw > 0 THEN bw ELSE d.rate) /\ w \in Nat
  BY DEF WantedBw, Ready, Chipped, Fine, DeviceFields
<1>3. Quiet(All, G) /\ Quiet(All, {}) /\ W \subseteq All /\ {} \subseteq G
  BY QuietEnds
<1> HIDE DEF w, W, G
<1>4. Step(All, {}, d, r) /\ r.repeater = TRUE
  BY RepeaterMoves DEF Ready
<1> HIDE DEF r
<1>5. Ready(r) /\ r.kind = d.kind /\ r.freq = d.freq /\ r.direct = d.direct
  <2> HIDE DEF W, G
  <2> QED  BY <1>3, <1>4, QuietIs
<1>6. /\ Outcome(W, {}, r, u, bad) /\ Width(r, u, w, bad)
      /\ Rafael(d.kind) \/ u.freq = d.freq
  BY <1>2, <1>5, <1>4, TunerBandwidthOutcome DEF W
<1> HIDE DEF u
<1>7. Outcome(W, G, d, u, bad)
  <2>1. Outcome(W, {}, d, u, bad)
    BY <1>3, <1>4, <1>6, StepThen
  <2> QED  BY <1>3, <2>1, OutcomeWidens
<1>8. Chipped(u) /\ u.bw \in Nat
  BY <1>7 DEF Outcome, Ready, Chipped, Fine
<1>9. Step(All, G, u, v) /\ v.ok = u.ok /\ v.t = u.t /\ v.bw = x
  <2>1. v = [u EXCEPT !.bw = x] /\ x \in Nat
    BY <1>8 DEF Limited
  <2>2. v.ok = u.ok /\ v.t = u.t /\ v.bw = x
    BY <1>8, <2>1 DEF Chipped, Fine, DeviceFields
  <2> HIDE DEF x, v
  <2>3. Step(All, G, u, v)
    BY <1>8, <2>1, FieldMoves DEF G
  <2> QED  BY <2>2, <2>3
<1> HIDE DEF v
<1>10. Chipped(v)
  BY <1>9, StepTrans
<1>11. Step(All, G, v, e) /\ e.ok = v.ok /\ e.t = v.t /\ Only({}, v, e)
  <2> HIDE DEF G
  <2>1. PICK on : e = Repeater(v, on)
    BY <1>1
  <2> QED  BY <1>10, <2>1, SwitchedRepeater
<1>12. Step(All, G, u, e)
  BY <1>9, <1>11, StepTrans
<1>13. Outcome(W, G, d, e, bad)
  <2>1. e.ok => u.ok
    BY <1>9, <1>11
  <2> QED  BY <1>3, <1>7, <1>12, <2>1, ThenStep
<1>14. ASSUME e.ok
       PROVE  e.bw = bw /\ Width(d, e, WantedBw(e), bad)
  <2>1. e.bw = bw
    BY <1>9, <1>11, <1>14 DEF Only, Kept
  <2>2. e.rate = d.rate
    BY <1>13 DEF Outcome, Step, Only, Kept, Switching, G
  <2>3. WantedBw(e) = w
    BY <1>2, <2>1, <2>2 DEF WantedBw
  <2>4. e.freq = u.freq /\ e.direct = u.direct
    BY <1>12 DEF Step, Only, Kept, G
  <2> QED  BY <1>5, <1>6, <1>9, <1>11, <2>1, <2>3, <2>4 DEF Width
<1> QED  BY <1>13, <1>14 DEF W, G

\* rtlsdr_set_sample_rate, which sets the bandwidth anew as it may be the
\* rate's, notes the rate and, in reach, programs ratio and correction.
LEMMA SetRateOutcome ==
    ASSUME NEW d, NEW khz \in Nat, NEW bad, Ready(d), NEW e, e = rtlsdr_set_sample_rate(d, khz, bad)
    PROVE  /\ Outcome(Rest \ {"bw"}, {"rate", "ratio", "sro"}, d, e, bad)
           /\ e.ok => /\ Width(d, e, WantedBw(e), bad)
                      /\ bad = {} => e.rate = khz /\ e.ratio = khz /\ e.sro = ResamplerOffset(d.corr)
<1> DEFINE f == [d EXCEPT !.rate = khz]
           r == Repeater(f, TRUE)
           w == WantedBw(f)
           u == tuner_set_bw(r, w, bad)
           p == Repeater(u, FALSE)
           x == IF "ratio" \in bad THEN p.ratio ELSE khz
           v == [p EXCEPT !.ratio = x]
           s == rtlsdr_set_sample_freq_correction(v, d.corr, bad)
           g == And(s, "ratio" \notin bad)
           n == [d EXCEPT !.ok = FALSE]
           W == Rest \ {"bw"}
           G == {"rate", "ratio", "sro"}
<1>1. e = IF ValidRate(khz) THEN g ELSE n
  BY DEF rtlsdr_set_sample_rate, Resampled
<1>3. Quiet(All, G) /\ Quiet(All, {}) /\ W \subseteq All /\ {} \subseteq G
  BY QuietEnds
<1>4. Chipped(d)
  BY DEF Ready
<1> HIDE DEF W
<1>5. Step(All, G, d, n) /\ ~n.ok
  BY <1>4, OkMoves
<1>6. Step(All, G, d, f) /\ f.rate = khz /\ f.bw = d.bw
  <2>1. f.rate = khz /\ f.bw = d.bw
    BY <1>4 DEF Chipped, Fine, DeviceFields
  <2> QED  BY <1>4, <2>1, FieldMoves
<1> HIDE DEF f, n
<1>7. Ready(f) /\ f.kind = d.kind /\ f.freq = d.freq /\ f.direct = d.direct
  BY <1>3, <1>6, QuietIs
<1>8. w = (IF d.bw > 0 THEN d.bw ELSE khz) /\ w \in Nat
  BY <1>4, <1>6 DEF WantedBw, Chipped, Fine
<1> HIDE DEF w
<1>9. Step(All, {}, f, r) /\ r.repeater = TRUE
  BY <1>7, RepeaterMoves DEF Ready
<1>10. Ready(r) /\ r.kind = d.kind /\ r.freq = d.freq /\ r.direct = d.direct
  BY <1>3, <1>7, <1>9, QuietIs
<1> HIDE DEF r
<1>11. /\ Outcome(W, {}, r, u, bad) /\ Width(r, u, w, bad)
       /\ Rafael(d.kind) \/ u.freq = d.freq
  BY <1>8, <1>10, <1>9, TunerBandwidthOutcome DEF W
<1> HIDE DEF u
<1>12. Outcome(W, G, d, u, bad)
  <2>1. Outcome(W, G, r, u, bad)
    BY <1>3, <1>11, OutcomeWidens
  <2>2. Step(All, G, d, r)
    <3>1. Step(All, G, f, r)
      BY <1>3, <1>9, StepTrans
    <3> QED  BY <1>6, <3>1, StepTrans
  <2> HIDE DEF G
  <2> QED  BY <1>3, <2>1, <2>2, StepThen
<1>13. Chipped(u) /\ u.rate = khz /\ u.bw = d.bw
  <2>1. Step({}, Switching \cup {}, r, u) /\ Ready(u)
    BY <1>11 DEF Outcome
  <2>2. u.rate = r.rate /\ u.bw = r.bw
    BY <2>1 DEF Step, Only, Kept, Switching
  <2>3. r.rate = f.rate /\ r.bw = f.bw
    BY <1>9 DEF Step, Only, Kept
  <2> QED  BY <1>6, <2>1, <2>2, <2>3 DEF Ready
<1>14. Step(All, {}, u, p) /\ Chipped(p) /\ p.t = u.t
  BY <1>13, RepeaterMoves, StepTrans
<1> HIDE DEF p
<1>15. Step(All, {"ratio"}, p, v) /\ v.t = p.t /\ v.ratio = x
  <2>1. v.t = p.t /\ v.ratio = x
    BY <1>14 DEF Chipped, Fine, DeviceFields
  <2> HIDE DEF x
  <2> QED  BY <1>14, <2>1, RatioMoves
<1>16. "ratio" \notin bad => v.ratio = khz
  BY <1>15
<1> HIDE DEF v, x
<1>17. Chipped(v)
  BY <1>15, StepTrans
<1>18. /\ Step(All, {"sro"}, v, s) /\ s.ok = ("sro" \notin bad) /\ s.t = v.t
       /\ "sro" \notin bad => s.sro = ResamplerOffset(d.corr)
  <2>1. s.t = v.t
    BY <1>17 DEF rtlsdr_set_sample_freq_correction, Chipped, Fine, DeviceFields
  <2> QED  BY <1>17, <2>1, OffsetMoves
<1> HIDE DEF s
<1>19. Step(All, {}, s, g) /\ g.t = s.t
  BY <1>18, OkMoves, StepTrans
<1> HIDE DEF g
<1>20. Step(All, {"ratio", "sro"}, u, g)
  <2>1. Step(All, {"ratio", "sro"}, u, p) /\ Step(All, {"ratio", "sro"}, p, v)
    BY <1>14, <1>15, StepTrans
  <2>2. Step(All, {"ratio", "sro"}, v, s) /\ Step(All, {"ratio", "sro"}, s, g)
    BY <1>18, <1>19, StepTrans
  <2> QED  BY <2>1, <2>2, StepTrans
<1>21. Outcome(W, G, d, g, bad)
  <2>1. Step(All, G, u, g)
    BY <1>20, StepTrans
  <2>2. Rafael(d.kind) \/ u.freq = d.freq
    BY <1>11
  <2> HIDE DEF G
  <2> QED  BY <1>3, <1>12, <2>1, <2>2, ThenStep
<1>22. Outcome(W, G, d, n, bad)
  BY <1>3, <1>5, QuietStep
<1>23. /\ Width(d, g, WantedBw(g), bad)
       /\ bad = {} => g.rate = khz /\ g.ratio = khz /\ g.sro = ResamplerOffset(d.corr)
  <2>1. g.rate = u.rate /\ g.bw = u.bw /\ g.freq = u.freq /\ g.direct = u.direct
    BY <1>20 DEF Step, Only, Kept
  <2>2. g.t = u.t
    BY <1>14, <1>15, <1>18, <1>19
  <2>3. WantedBw(g) = w
    BY <1>8, <1>13, <2>1 DEF WantedBw
  <2>4. Width(d, g, w, bad)
    BY <1>10, <1>11, <2>1, <2>2 DEF Width
  <2>5. g.sro = s.sro /\ g.ratio = v.ratio
    BY <1>18, <1>19 DEF Step, Only, Kept
  <2> QED  BY <1>13, <1>16, <1>18, <2>1, <2>3, <2>4, <2>5
<1> QED  BY <1>1, <1>5, <1>21, <1>22, <1>23 DEF W, G

\* Correcting the crystal of an R82xx is no setting of its own.
LEMMA XtalMoves ==
    ASSUME NEW d, NEW G, NEW ppm, Chipped(d), Rafael(d.kind), NEW e, e = [d EXCEPT !.t.xtal = ppm]
    PROVE  Step(All, G, d, e) /\ e.ok = d.ok /\ Only({}, d, e)
<1> DEFINE u == [d.t EXCEPT !.xtal = ppm]
<1>1. e = [d EXCEPT !.t = u]
  BY DEF Chipped, Fine, DeviceFields
<1>2. Leaves(All, d.t, u)
  <2>1. IsR82xx(d.t)
    BY DEF Chipped, IsChip
  <2>2. u.chip = d.t.chip /\ u.shadow = d.t.shadow /\ u.input = d.t.input /\ u.intFreq = d.t.intFreq
        /\ u.hasLock = d.t.hasLock /\ u.initDone = d.t.initDone /\ DOMAIN u = DOMAIN d.t
    BY <2>1 DEF IsR82xx
  <2> HIDE DEF u
  <2>3. IsR82xx(u)
    BY <2>1, <2>2 DEF IsR82xx
  <2> QED  BY <2>2, <2>3 DEF Leaves, GainKept, GainAgrees, InputKept, InputAgrees, FilterKept, VgaKept, LockKept,
                             AwakeKept, AwakeAgrees
<1> HIDE DEF u
<1>3. ChipKept(d.kind, All, d.t, u)
  BY <1>2, LeavesTrans DEF ChipKept, IsChip, Rafael
<1>4. Same(d, e)
  BY <1>1 DEF Chipped, Same, Fine, DeviceFields
<1>5. Only(G, d, e) /\ Only({}, d, e) /\ e.t = u /\ e.ok = d.ok
  BY <1>1 DEF Only, Kept, Chipped, Fine, DeviceFields
<1> QED  BY <1>3, <1>4, <1>5 DEF Step

\* The correction is one field.
LEMMA CorrectionMoves ==
    ASSUME NEW d, NEW W, NEW ppm \in Int, Chipped(d), NEW e, e = [d EXCEPT !.corr = ppm]
    PROVE  Step(W, {"corr"}, d, e) /\ e.corr = ppm
<1>1. ChipKept(d.kind, W, d.t, d.t)
  BY ChipTrans DEF Chipped
<1> QED  BY <1>1, FieldSteps DEF Only, Kept, Chipped, Fine, DeviceFields, Step

\* rtlsdr_set_freq_correction notes the correction, in reach programs the
\* resampler, and tunes again.
LEMMA CorrectionOutcome ==
    ASSUME NEW d, NEW ppm \in Int, NEW bad, Ready(d), NEW e, e = rtlsdr_set_freq_correction(d, ppm, bad)
    PROVE  /\ Outcome(Rest, {"corr", "sro"}, d, e, bad)
           /\ e.ok => e.corr = ppm /\ (bad = {} => e.sro = ResamplerOffset(ppm))
<1> DEFINE f == [d EXCEPT !.corr = ppm]
           u == rtlsdr_set_sample_freq_correction(f, ppm, bad)
           x == [u EXCEPT !.t.xtal = ppm]
           v == IF Rafael(d.kind) THEN x ELSE u
           c == rtlsdr_set_center_freq(v, d.freq, bad)
           g == And(c, v.ok)
           n == [d EXCEPT !.ok = FALSE]
           G == {"corr", "sro"}
<1>1. e = IF ppm = d.corr THEN n ELSE IF d.freq = 0 THEN v ELSE g
  BY DEF rtlsdr_set_freq_correction
<1>2. Quiet(All, G) /\ Quiet(All, {}) /\ Rest \subseteq All /\ {} \subseteq G
  BY QuietEnds
<1>3. Chipped(d)
  BY DEF Ready
<1>4. Step(All, G, d, n) /\ ~n.ok
  BY <1>3, OkMoves
<1> HIDE DEF n
<1>5. Outcome(Rest, G, d, n, bad)
  <2> HIDE DEF G
  <2> QED  BY <1>2, <1>4, QuietStep
<1>6. Step(All, {"corr"}, d, f) /\ f.corr = ppm /\ Chipped(f)
  BY <1>3, CorrectionMoves, StepTrans
<1> HIDE DEF f
<1>7. /\ Step(All, {"sro"}, f, u) /\ Chipped(u) /\ u.ok = ("sro" \notin bad)
      /\ "sro" \notin bad => u.sro = ResamplerOffset(ppm)
  BY <1>6, OffsetMoves, StepTrans
<1> HIDE DEF u
<1>8. u.kind = d.kind
  BY <1>6, <1>7, StepTrans
<1>9. Step(All, {}, u, v) /\ v.ok = u.ok
  <2>1. Rafael(d.kind) => Step(All, {}, u, x) /\ x.ok = u.ok
    BY <1>7, <1>8, XtalMoves
  <2>2. Step(All, {}, u, u)
    BY <1>7, StepTrans
  <2> HIDE DEF x
  <2> QED  BY <2>1, <2>2
<1> HIDE DEF v
<1>10. Step(All, G, d, v)
  <2>1. Step(All, G, d, f) /\ Step(All, G, f, u) /\ Step(All, G, u, v)
    BY <1>6, <1>7, <1>9, StepTrans
  <2> QED  BY <2>1, StepTrans
<1>11. v.corr = ppm /\ ("sro" \notin bad => v.sro = ResamplerOffset(ppm))
  <2>1. u.corr = ppm
    BY <1>6, <1>7 DEF Step, Only, Kept
  <2> QED  BY <1>7, <1>9, <2>1 DEF Step, Only, Kept
<1>12. Outcome(Rest, G, d, v, bad) /\ Ready(v) /\ v.freq = d.freq
  <2> HIDE DEF G
  <2> QED  BY <1>2, <1>10, QuietStep, QuietIs
<1>13. Outcome(Rest, {}, v, c, bad)
  <2>1. c = rtlsdr_set_center_freq(v, v.freq, bad)
    BY <1>12
  <2> HIDE DEF c
  <2> QED  BY <1>12, <2>1, CentreOutcome
<1> HIDE DEF c
<1>14. Outcome(Rest, G, d, c, bad)
  <2>1. Outcome(Rest, G, v, c, bad)
    BY <1>2, <1>13, OutcomeWidens
  <2> HIDE DEF G
  <2> QED  BY <1>2, <1>10, <2>1, StepThen
<1>15. Step(All, {}, c, g) /\ (g.ok => c.ok) /\ (g.ok => v.ok)
  <2>1. Chipped(c)
    BY <1>13 DEF Outcome, Ready
  <2>2. g = [c EXCEPT !.ok = @ /\ v.ok]
    BY DEF And
  <2>3. (g.ok => c.ok) /\ (g.ok => v.ok)
    BY <2>1, <2>2 DEF Chipped, Fine, DeviceFields
  <2> QED  BY <2>1, <2>3, OkMoves
<1> HIDE DEF g
<1>16. Outcome(Rest, G, d, g, bad)
  <2>1. Step(All, G, c, g)
    BY <1>2, <1>15, StepTrans
  <2> HIDE DEF G
  <2> QED  BY <1>2, <1>14, <1>15, <2>1, ThenStep
<1>17. g.corr = v.corr /\ g.sro = v.sro
  <2>1. Step({}, Switching \cup {}, v, c)
    BY <1>13 DEF Outcome
  <2> QED  BY <1>15, <2>1 DEF Step, Only, Kept, Switching
<1> QED  BY <1>1, <1>4, <1>5, <1>11, <1>12, <1>16, <1>17 DEF G

\* verbose_ppm_set does so for any correction but 0.
LEMMA WarpOutcome ==
    ASSUME NEW d, NEW ppm \in Int, NEW bad, Ready(d), NEW e, e = verbose_ppm_set(d, ppm, bad)
    PROVE  /\ Outcome(Rest, {"corr", "sro"}, d, e, bad)
           /\ ppm # 0 /\ e.ok => e.corr = ppm /\ (bad = {} => e.sro = ResamplerOffset(ppm))
<1>1. CASE ppm = 0
  <2>1. e = [d EXCEPT !.ok = TRUE]
    BY <1>1 DEF verbose_ppm_set
  <2>2. Step(All, {}, d, e)
    BY <2>1, OkMoves DEF Ready
  <2>3. Quiet(All, {}) /\ Rest \subseteq All /\ {} \subseteq {"corr", "sro"}
    BY QuietEnds
  <2> QED  BY <1>1, <2>2, <2>3, QuietStep
<1>2. CASE ppm # 0
  <2>1. e = rtlsdr_set_freq_correction(d, ppm, bad)
    BY <1>2 DEF verbose_ppm_set
  <2> QED  BY <2>1, CorrectionOutcome
<1> QED  BY <1>1, <1>2

(****************************************************************************)
(* Gains: no call of these tunes.                                           *)
(****************************************************************************)

\* What a gain does to the tuner (GainInEffect of any device).
GainSet(d, gain) ==
    LET g == NearestOf(rtlsdr_get_tuner_gains(d.kind), 10 * gain)
    IN  CASE Rafael(d.kind) ->
               LET auto == gain = AutoGain IN
               /\ d.t.chip.r05.auto = auto /\ d.t.chip.r07.auto = auto
               /\ ~auto => /\ d.t.chip.r05.lna = R!GainIndices(g).lna
                           /\ d.t.chip.r07.mix = R!GainIndices(g).mix
          [] d.kind = "FC0013" ->
               /\ d.t.manual = (gain # AutoGain)
               /\ d.t.manual => d.t.lna = F!fc0013_set_lna_gain(d.t, g, {}).lna
          [] d.kind = "FC0012" ->
               gain # AutoGain => d.t.lna = F!fc0012_set_gain(d.t, g, {}).lna
          [] OTHER -> TRUE

\* Automatic or manual, as asked.
GainModeIs(d, manual) ==
    /\ Rafael(d.kind) => /\ GainAgrees(d.t)
                         /\ d.t.chip.r05.auto = ~manual /\ d.t.chip.r07.auto = ~manual
    /\ d.kind = "FC0013" => d.t.manual = manual

\* A manual gain, as asked.
GainIs(d, gain) ==
    /\ Rafael(d.kind) => /\ GainAgrees(d.t)
                         /\ d.t.chip.r05.auto = FALSE /\ d.t.chip.r07.auto = FALSE
                         /\ d.t.chip.r05.lna = R!GainIndices(gain).lna
                         /\ d.t.chip.r07.mix = R!GainIndices(gain).mix
    /\ d.kind = "FC0013" => d.t.lna = F!LnaOf(gain)
    /\ d.kind = "FC0012" => d.t.lna = F!fc0012_set_gain(d.t, gain, {}).lna

\* What a gain leaves alone.
Louder == All \ {"gain"}

\* A success reported is no setting.
LEMMA WellMoves ==
    ASSUME NEW d, NEW W, Chipped(d), NEW e, e = [d EXCEPT !.ok = TRUE]
    PROVE  Step(W, {}, d, e) /\ e.ok /\ e.kind = d.kind
<1>1. ChipKept(d.kind, W, d.t, d.t) /\ Same(d, e)
  BY ChipTrans, OkStep DEF Chipped
<1> QED  BY <1>1 DEF Step, Only, Kept, Chipped, Fine, DeviceFields

\* The gain noted is not looked at.
LEMMA NotedGainMoves ==
    ASSUME NEW d, NEW W, NEW v, Chipped(d)
    PROVE  Step(W, {}, d, [d EXCEPT !.gain = v])
<1>1. ChipKept(d.kind, W, d.t, d.t)
  BY ChipTrans DEF Chipped
<1> QED  BY <1>1, FieldSteps DEF Only, Kept, Chipped, Fine, DeviceFields, Step

\* tuner_set_gain_mode leaves all but the gain alone and, in reach, sets the
\* mode; only an E4000 may refuse.
LEMMA TunerGainModeMoves ==
    ASSUME NEW d, NEW manual \in BOOLEAN, NEW bad, Chipped(d), d.repeater,
           NEW e, e = tuner_set_gain_mode(d, manual, bad)
    PROVE  Step(Louder, {}, d, e) /\ (bad = {} => GainModeIs(e, manual))
                                  /\ (bad = {} /\ d.kind # "E4000" => e.ok)
<1>1. CASE Rafael(d.kind)
  <2> DEFINE u == R!r82xx_set_gain(d.t, manual, 0, bad)
  <2>1. e = WithTuner(d, u)
    BY <1>1 DEF tuner_set_gain_mode, Rafael
  <2>2. IsR82xx(d.t)
    BY <1>1 DEF Chipped, IsChip
  <2>3. Leaves(Louder, d.t, u)
    BY <2>2, SetGainLeaves DEF Louder
  <2>4. bad = {} => /\ u.ok /\ GainAgrees(u)
                    /\ u.chip.r05.auto = ~manual /\ u.chip.r07.auto = ~manual
    BY <2>2, SetGainSets
  <2> HIDE DEF u
  <2>5. ChipKept(d.kind, Louder, d.t, u)
    BY <1>1, <2>3, LeavesTrans DEF ChipKept, IsChip, Rafael
  <2>6. Step(Louder, {}, d, e) /\ e.ok = u.ok /\ e.t = u /\ e.kind = d.kind
    BY <2>1, <2>5, TunerMoves, StepTrans
  <2> QED  BY <1>1, <2>4, <2>6 DEF GainModeIs, Rafael
<1>2. CASE d.kind = "FC0013"
  <2> DEFINE u == F!fc0013_set_gain_mode(d.t, manual, bad)
  <2>1. e = WithTuner(d, u)
    BY <1>2 DEF tuner_set_gain_mode, Rafael
  <2>2. DOMAIN d.t = DOMAIN F!fc0013_regs
    BY <1>2 DEF Chipped, IsChip
  <2>3. DOMAIN u = DOMAIN d.t /\ (bad = {} => u.ok /\ u.manual = manual)
    BY <2>2 DEF F!fc0013_set_gain_mode, F!fc0013_regs
  <2> HIDE DEF u
  <2>4. ChipKept(d.kind, Louder, d.t, u)
    BY <1>2, <2>2, <2>3 DEF ChipKept, IsChip, Rafael, Louder
  <2>6. Step(Louder, {}, d, e) /\ e.ok = u.ok /\ e.t = u /\ e.kind = d.kind
    BY <2>1, <2>4, TunerMoves, StepTrans
  <2> QED  BY <1>2, <2>3, <2>6 DEF GainModeIs, Rafael
<1>3. CASE d.kind = "E4000"
  <2>1. PICK u : e = WithTuner(d, u)
    BY <1>3 DEF tuner_set_gain_mode, Rafael
  <2>2. ChipKept(d.kind, Louder, d.t, u)
    BY <1>3 DEF ChipKept, IsChip, Rafael
  <2>3. Step(Louder, {}, d, e) /\ e.kind = d.kind
    BY <2>1, <2>2, TunerMoves, StepTrans
  <2> QED  BY <1>3, <2>3 DEF GainModeIs, Rafael
<1>4. CASE d.kind \in {"FC0012", "FC2580"}
  <2>1. e = [d EXCEPT !.ok = TRUE]
    BY <1>4 DEF tuner_set_gain_mode, Rafael
  <2>2. Step(Louder, {}, d, e) /\ e.ok /\ e.kind = d.kind
    BY <2>1, WellMoves
  <2> QED  BY <1>4, <2>2 DEF GainModeIs, Rafael
<1> QED  BY <1>1, <1>2, <1>3, <1>4 DEF Chipped, Fine, Kinds, Rafael

\* tuner_set_gain leaves all but the gain alone and, in reach, sets the gain.
LEMMA TunerGainMoves ==
    ASSUME NEW d, NEW gain, NEW bad, Chipped(d), d.repeater, NEW e, e = tuner_set_gain(d, gain, bad)
    PROVE  /\ Step(Louder, {}, d, e) /\ (bad = {} => GainIs(e, gain))
           /\ d.kind = "FC0013" => e.t.manual = d.t.manual
<1>1. CASE Rafael(d.kind)
  <2>0. PICK yes \in BOOLEAN : yes = TRUE
    OBVIOUS
  <2> DEFINE u == R!r82xx_set_gain(d.t, yes, gain, bad)
  <2>1. e = WithTuner(d, u)
    BY <1>1, <2>0 DEF tuner_set_gain, Rafael
  <2>2. IsR82xx(d.t)
    BY <1>1 DEF Chipped, IsChip
  <2>3. Leaves(Louder, d.t, u)
    BY <2>2, SetGainLeaves DEF Louder
  <2>4. bad = {} => /\ u.ok /\ GainAgrees(u)
                    /\ u.chip.r05.auto = ~yes /\ u.chip.r07.auto = ~yes
                    /\ yes => /\ u.chip.r05.lna = R!GainIndices(gain).lna
                              /\ u.chip.r07.mix = R!GainIndices(gain).mix
    BY <2>2, SetGainSets
  <2> HIDE DEF u
  <2>5. ChipKept(d.kind, Louder, d.t, u)
    BY <1>1, <2>3, LeavesTrans DEF ChipKept, IsChip, Rafael
  <2>6. Step(Louder, {}, d, e) /\ e.t = u /\ e.kind = d.kind
    BY <2>1, <2>5, TunerMoves, StepTrans
  <2> QED  BY <1>1, <2>0, <2>4, <2>6 DEF GainIs, Rafael
<1>2. CASE d.kind = "FC0013"
  <2> DEFINE u == F!fc0013_set_lna_gain(d.t, gain, bad)
  <2>1. e = WithTuner(d, u)
    BY <1>2 DEF tuner_set_gain, Rafael
  <2>2. DOMAIN d.t = DOMAIN F!fc0013_regs
    BY <1>2 DEF Chipped, IsChip
  <2>3. DOMAIN u = DOMAIN d.t /\ u.manual = d.t.manual /\ (bad = {} => u.lna = F!LnaOf(gain))
    BY <2>2 DEF F!fc0013_set_lna_gain, F!fc0013_regs
  <2> HIDE DEF u
  <2>4. ChipKept(d.kind, Louder, d.t, u)
    BY <1>2, <2>2, <2>3 DEF ChipKept, IsChip, Rafael, Louder
  <2>6. Step(Louder, {}, d, e) /\ e.t = u /\ e.kind = d.kind
    BY <2>1, <2>4, TunerMoves, StepTrans
  <2> QED  BY <1>2, <2>3, <2>6 DEF GainIs, Rafael
<1>3. CASE d.kind = "FC0012"
  <2> DEFINE u == F!fc0012_set_gain(d.t, gain, bad)
  <2>1. e = WithTuner(d, u)
    BY <1>3 DEF tuner_set_gain, Rafael
  <2>2. DOMAIN d.t = DOMAIN F!fc0012_regs
    BY <1>3 DEF Chipped, IsChip
  <2>3. DOMAIN u = DOMAIN d.t /\ (bad = {} => u.lna = F!fc0012_set_gain(u, gain, {}).lna)
    BY <2>2 DEF F!fc0012_set_gain, F!fc0012_regs
  <2> HIDE DEF u
  <2>4. ChipKept(d.kind, Louder, d.t, u)
    BY <1>3, <2>2, <2>3 DEF ChipKept, IsChip, Rafael, Louder
  <2>6. Step(Louder, {}, d, e) /\ e.t = u /\ e.kind = d.kind
    BY <2>1, <2>4, TunerMoves, StepTrans
  <2> QED  BY <1>3, <2>3, <2>6 DEF GainIs, Rafael
<1>4. CASE d.kind = "E4000"
  <2>1. PICK u : e = WithTuner(d, u)
    BY <1>4 DEF tuner_set_gain, Rafael
  <2>2. ChipKept(d.kind, Louder, d.t, u)
    BY <1>4 DEF ChipKept, IsChip, Rafael
  <2>3. Step(Louder, {}, d, e) /\ e.kind = d.kind
    BY <2>1, <2>2, TunerMoves, StepTrans
  <2> QED  BY <1>4, <2>3 DEF GainIs, Rafael
<1>5. CASE d.kind = "FC2580"
  <2>1. e = [d EXCEPT !.ok = TRUE]
    BY <1>5 DEF tuner_set_gain, Rafael
  <2>2. Step(Louder, {}, d, e) /\ e.kind = d.kind
    BY <2>1, WellMoves
  <2> QED  BY <1>5, <2>2 DEF GainIs, Rafael
<1> QED  BY <1>1, <1>2, <1>3, <1>4, <1>5 DEF Chipped, Fine, Kinds, Rafael

\* rtlsdr_set_tuner_gain_mode does as the tuner's.
LEMMA GainModeMoves ==
    ASSUME NEW d, NEW manual \in BOOLEAN, NEW bad, Chipped(d),
           NEW e, e = rtlsdr_set_tuner_gain_mode(d, manual, bad)
    PROVE  Step(Louder, {}, d, e) /\ (bad = {} => GainModeIs(e, manual))
                                  /\ (bad = {} /\ d.kind # "E4000" => e.ok)
<1> DEFINE r == Repeater(d, TRUE)
<1>1. Step(Louder, {}, d, r) /\ r.repeater = TRUE /\ Chipped(r) /\ r.kind = d.kind
  BY RepeaterMoves, StepTrans
<1>2. e = tuner_set_gain_mode(r, manual, bad)
  BY DEF rtlsdr_set_tuner_gain_mode
<1> HIDE DEF r
<1>3. Step(Louder, {}, r, e) /\ (bad = {} => GainModeIs(e, manual))
                             /\ (bad = {} /\ r.kind # "E4000" => e.ok)
  BY <1>1, <1>2, TunerGainModeMoves
<1> QED  BY <1>1, <1>3, StepTrans

\* rtlsdr_set_tuner_gain does as the tuner's.
LEMMA GainMoves ==
    ASSUME NEW d, NEW gain, NEW bad, Chipped(d), NEW e, e = rtlsdr_set_tuner_gain(d, gain, bad)
    PROVE  /\ Step(Louder, {}, d, e) /\ (bad = {} => GainIs(e, gain))
           /\ d.kind = "FC0013" => e.t.manual = d.t.manual
<1> DEFINE r == Repeater(d, TRUE)
           u == tuner_set_gain(r, gain, bad)
           x == IF u.ok THEN gain ELSE 0
<1>1. Step(Louder, {}, d, r) /\ r.repeater = TRUE /\ Chipped(r) /\ r.kind = d.kind /\ r.t = d.t
  BY RepeaterMoves, StepTrans
<1> HIDE DEF r
<1>2. /\ Step(Louder, {}, r, u) /\ (bad = {} => GainIs(u, gain))
      /\ r.kind = "FC0013" => u.t.manual = r.t.manual
  BY <1>1, TunerGainMoves
<1>3. e = [u EXCEPT !.gain = x]
  BY DEF rtlsdr_set_tuner_gain, Amplified, r
<1> HIDE DEF u, x
<1>4. Chipped(u)
  BY <1>2, StepTrans
<1>5. e.t = u.t /\ e.kind = u.kind
  BY <1>3, <1>4 DEF Chipped, Fine, DeviceFields
<1>6. Step(Louder, {}, u, e)
  <2>1. Step(Louder, {}, u, [u EXCEPT !.gain = x])
    BY <1>4, NotedGainMoves
  <2> QED  BY <1>3, <2>1
<1>7. Step(Louder, {}, d, e)
  BY <1>1, <1>2, <1>6, StepTrans
<1> QED  BY <1>1, <1>2, <1>5, <1>7 DEF GainIs

\* verbose_gain_set goes to manual mode and then sets the gain.
LEMMA ManualGainMoves ==
    ASSUME NEW d, NEW gain, NEW bad, Chipped(d), NEW e, e = verbose_gain_set(d, gain, bad)
    PROVE  /\ Step(Louder, {}, d, e)
           /\ bad = {} /\ d.kind # "E4000" => GainIs(e, gain)
           /\ bad = {} /\ d.kind = "FC0013" => e.t.manual = TRUE
<1>0. PICK yes \in BOOLEAN : yes = TRUE
  OBVIOUS
<1> DEFINE u == rtlsdr_set_tuner_gain_mode(d, yes, bad)
           g == rtlsdr_set_tuner_gain(u, gain, bad)
<1>1. e = IF u.ok THEN g ELSE u
  BY <1>0 DEF verbose_gain_set, Then
<1>2. Step(Louder, {}, d, u) /\ (bad = {} => GainModeIs(u, yes)) /\ (bad = {} /\ d.kind # "E4000" => u.ok)
  BY GainModeMoves
<1> HIDE DEF u
<1>3. Chipped(u) /\ u.kind = d.kind
  BY <1>2, StepTrans
<1>4. /\ Step(Louder, {}, u, g) /\ (bad = {} => GainIs(g, gain))
      /\ u.kind = "FC0013" => g.t.manual = u.t.manual
  BY <1>3, GainMoves
<1> HIDE DEF g
<1>5. Step(Louder, {}, d, g)
  BY <1>2, <1>4, StepTrans
<1>6. bad = {} /\ d.kind = "FC0013" => u.t.manual = yes
  BY <1>2, <1>3 DEF GainModeIs
<1> QED  BY <1>0, <1>1, <1>2, <1>3, <1>4, <1>5, <1>6

\* What setReceiveGainInDb does to the device.
Gained(d, gain, bad) ==
    LET n == nearest_gain(d, 10 * gain, bad)
    IN  IF gain = AutoGain THEN verbose_auto_gain(d, bad) ELSE verbose_gain_set(n.dev, n.gain, bad)

\* It leaves all but the gain alone; with all in reach the gain is in effect
\* and shadow and chip agree on it, so that later writes keep it.
LEMMA GainOutcome ==
    ASSUME NEW d, NEW gain, NEW bad, Chipped(d), NEW e, e = Gained(d, gain, bad)
    PROVE  /\ Step(Louder, {}, d, e)
           /\ bad = {} => GainSet(e, gain) /\ (Rafael(d.kind) => GainAgrees(e.t))
<1>1. CASE gain = AutoGain
  <2>0. PICK no \in BOOLEAN : no = FALSE
    OBVIOUS
  <2>1. e = rtlsdr_set_tuner_gain_mode(d, no, bad)
    BY <1>1, <2>0 DEF Gained, verbose_auto_gain
  <2>2. Step(Louder, {}, d, e) /\ (bad = {} => GainModeIs(e, no))
    BY <2>1, GainModeMoves
  <2>3. e.kind = d.kind
    BY <2>2, StepTrans
  <2>4. bad = {} => GainSet(e, gain)
    <3>1. (gain = AutoGain) = TRUE /\ (gain # AutoGain) = FALSE /\ ~no = TRUE
      BY <1>1, <2>0
    <3> QED  BY <1>1, <2>0, <2>2, <3>1 DEF GainSet, GainModeIs, Rafael
  <2> QED  BY <2>2, <2>3, <2>4 DEF GainModeIs
<1>2. CASE gain # AutoGain
  <2>0. PICK yes \in BOOLEAN : yes = TRUE
    OBVIOUS
  <2> DEFINE u == rtlsdr_set_tuner_gain_mode(d, yes, bad)
             near == NearestOf(rtlsdr_get_tuner_gains(d.kind), 10 * gain)
             g == IF u.ok THEN near ELSE -1
  <2>1. e = verbose_gain_set(u, g, bad)
    <3>1. nearest_gain(d, 10 * gain, bad) = [dev |-> u, gain |-> g]
      BY <2>0 DEF nearest_gain
    <3> HIDE DEF u, g
    <3> QED  BY <1>2, <3>1 DEF Gained
  <2>2. Step(Louder, {}, d, u) /\ (bad = {} /\ d.kind # "E4000" => u.ok)
    BY GainModeMoves
  <2>3. bad = {} /\ d.kind # "E4000" => g = near
    BY <2>2
  <2> HIDE DEF u, g
  <2>4. Chipped(u) /\ u.kind = d.kind
    BY <2>2, StepTrans
  <2>5. /\ Step(Louder, {}, u, e)
        /\ bad = {} /\ d.kind # "E4000" => GainIs(e, g)
        /\ bad = {} /\ d.kind = "FC0013" => e.t.manual = TRUE
    BY <2>1, <2>4, ManualGainMoves
  <2>6. Step(Louder, {}, d, e) /\ e.kind = d.kind
    BY <2>2, <2>4, <2>5, StepTrans
  <2>7. near = NearestOf(rtlsdr_get_tuner_gains(e.kind), 10 * gain)
    BY <2>6
  <2> HIDE DEF near
  <2>8. ASSUME bad = {} PROVE GainSet(e, gain)
    <3>1. (gain = AutoGain) = FALSE /\ (gain # AutoGain) = TRUE
      BY <1>2
    <3>2. CASE Rafael(d.kind)
      <4>1. /\ e.t.chip.r05.auto = FALSE /\ e.t.chip.r07.auto = FALSE
            /\ e.t.chip.r05.lna = R!GainIndices(near).lna
            /\ e.t.chip.r07.mix = R!GainIndices(near).mix
        BY <2>3, <2>5, <2>6, <2>8, <3>2 DEF GainIs, Rafael
      <4> QED  BY <2>6, <2>7, <3>1, <3>2, <4>1 DEF GainSet, Rafael
    <3>3. CASE d.kind = "FC0013"
      <4>1. e.t.lna = F!LnaOf(near) /\ e.t.manual = TRUE
        BY <2>3, <2>5, <2>6, <2>8, <3>3 DEF GainIs
      <4>2. DOMAIN e.t = DOMAIN F!fc0013_regs
        BY <2>6, <3>3, StepTrans DEF Chipped, IsChip
      <4>3. F!fc0013_set_lna_gain(e.t, near, {}).lna = F!LnaOf(near)
        BY <4>2 DEF F!fc0013_set_lna_gain, F!fc0013_regs
      <4> QED  BY <2>6, <2>7, <3>1, <3>3, <4>1, <4>3 DEF GainSet, Rafael
    <3>4. CASE d.kind = "FC0012"
      <4>1. e.t.lna = F!fc0012_set_gain(e.t, near, {}).lna
        BY <2>3, <2>5, <2>6, <2>8, <3>4 DEF GainIs
      <4> QED  BY <2>6, <2>7, <3>4, <4>1 DEF GainSet, Rafael
    <3>5. CASE d.kind \in {"E4000", "FC2580"}
      BY <2>6, <3>5 DEF GainSet, Rafael
    <3> QED  BY <3>2, <3>3, <3>4, <3>5 DEF Chipped, Fine, Kinds, Rafael
  <2>9. bad = {} /\ Rafael(d.kind) => GainAgrees(e.t)
    BY <2>5, <2>6 DEF GainIs, Rafael
  <2> QED  BY <2>6, <2>8, <2>9
<1> QED  BY <1>1, <1>2

\* What an IF gain does to the tuner.
IfGainSet(d, gain) == Rafael(d.kind) => d.t.chip.r0c.vga = R!VgaIndex(10 * gain)

\* rtlsdr_set_tuner_if_gain leaves all but that alone.
LEMMA IfGainOutcome ==
    ASSUME NEW d, NEW stage, NEW gain, NEW bad, Chipped(d),
           NEW e, e = rtlsdr_set_tuner_if_gain(d, stage, 10 * gain, bad)
    PROVE  Step(All \ {"ifGain"}, {}, d, e) /\ (bad = {} => IfGainSet(e, gain))
<1> DEFINE V == All \ {"ifGain"}
           r == Repeater(d, TRUE)
           tenths == 10 * gain
<1>1. Step(V, {}, d, r) /\ r.repeater = TRUE /\ Chipped(r) /\ r.kind = d.kind
  BY RepeaterMoves, StepTrans
<1>2. e = IF HasIfGain(d.kind) THEN tuner_set_if_gain(r, stage, tenths, bad) ELSE [d EXCEPT !.ok = TRUE]
  BY DEF rtlsdr_set_tuner_if_gain
<1> HIDE DEF r
<1>3. CASE Rafael(d.kind)
  <2> DEFINE u == R!r82xx_set_if_gain(r.t, tenths, bad)
  <2>1. e = WithTuner(r, u)
    BY <1>1, <1>2, <1>3 DEF tuner_set_if_gain, HasIfGain
  <2> HIDE DEF tenths
  <2>2. Leaves(V, r.t, u) /\ (bad = {} => u.chip.r0c.vga = R!VgaIndex(tenths))
    BY <1>1, <1>3, SetIfGainLeaves DEF Chipped, IsChip
  <2> HIDE DEF u
  <2>3. ChipKept(r.kind, V, r.t, u)
    BY <1>1, <1>3, <2>2, LeavesTrans DEF ChipKept, IsChip, Rafael
  <2>4. Step(V, {}, r, e) /\ e.t = u
    BY <1>1, <2>1, <2>3, TunerMoves
  <2>5. Step(V, {}, d, e)
    BY <1>1, <2>4, StepTrans
  <2> QED  BY <2>2, <2>4, <2>5 DEF IfGainSet, tenths
<1>4. CASE d.kind = "E4000"
  <2>1. PICK u : e = WithTuner(r, u)
    BY <1>1, <1>2, <1>4 DEF tuner_set_if_gain, HasIfGain, Rafael
  <2>2. ChipKept(r.kind, V, r.t, u)
    BY <1>1, <1>4 DEF ChipKept, IsChip, Rafael
  <2>3. Step(V, {}, r, e)
    BY <1>1, <2>1, <2>2, TunerMoves
  <2>4. Step(V, {}, d, e) /\ e.kind = d.kind
    BY <1>1, <2>3, StepTrans
  <2> QED  BY <1>4, <2>4 DEF IfGainSet, Rafael
<1>5. CASE ~HasIfGain(d.kind)
  <2>1. e = [d EXCEPT !.ok = TRUE]
    BY <1>2, <1>5
  <2>2. Step(V, {}, d, e) /\ e.kind = d.kind
    BY <2>1, WellMoves
  <2> QED  BY <1>5, <2>2 DEF IfGainSet, HasIfGain
<1> QED  BY <1>3, <1>4, <1>5 DEF HasIfGain

(****************************************************************************)
(* Tuning by the user, opening and closing.                                 *)
(****************************************************************************)

\* What a tuning by the user comes to.
LEMMA TuneOutcome ==
    ASSUME NEW d, NEW khz \in Tunable, NEW bad, Ready(d), NEW e, e = rtlsdr_set_center_freq(d, khz, bad)
    PROVE  /\ Ready(e) /\ Step({}, Switching, d, e)
           /\ e.freq # 0 /\ e.direct = d.direct => Step(Rest, Retuning, d, e)
           /\ bad = {} /\ e.ok => e.freq = khz
           /\ bad = {} /\ e.freq # 0 /\ d.kind = "V4" /\ InputAgrees(d.t) => Follows(e.t, e.freq)
           /\ bad = {} /\ d.kind = "R820T" /\ Fits(d) => Fits(e)
<1>0. Chipped(d) /\ khz \in Nat /\ (d.kind # "R820T" => d.direct = 0)
  BY DEF Ready, Tunable
<1>2. /\ Step({}, Switching, d, e) /\ e.freq \in {0, khz} /\ FreqFits(e)
      /\ bad = {} /\ Rafael(d.kind) => e.freq = khz
      /\ bad = {} /\ d.kind = "R820T" /\ FitsMode(d) => FitsMode(e)
  BY <1>0, CentreMoves
<1>3. /\ e.freq # 0 /\ e.direct = d.direct => Step(Rest, Retuning, d, e)
      /\ e.freq # 0 /\ bad = {} /\ d.kind = "V4" /\ InputAgrees(d.t) => Follows(e.t, khz)
      /\ d.kind # "R820T" => (e.ok => e.freq = khz)
      /\ d.kind # "R820T" => e.direct = 0
  BY <1>0, CentreLeaves
<1>4. Ready(e)
  <2>1. 0 \in Tunable
    BY DEF Tunable
  <2> QED  BY <1>2, <1>3, <2>1, StepTrans DEF Ready
<1>5. bad = {} /\ e.ok => e.freq = khz
  BY <1>2, <1>3 DEF Rafael
<1> QED  BY <1>2, <1>3, <1>4, <1>5 DEF Fits

\* A new device is ready, on no frequency.
LEMMA NewDeviceReady ==
    ASSUME NEW kind \in Kinds, NEW chip, IsChip(kind, chip), NEW d, d = NewDevice(kind, chip)
    PROVE  Ready(d) /\ d.kind = kind /\ d.freq = 0 /\ d.direct = 0
<1>1. Fine(d) /\ d.kind = kind
  BY NewDeviceFine
<1>2. d.freq = 0 /\ d.direct = 0 /\ d.t = IF Rafael(kind) THEN [R!Unused EXCEPT !.chip = chip.chip] ELSE chip
  BY DEF NewDevice
<1>3. Rafael(kind) => IsR82xx(d.t)
  <2>1. Rafael(kind) => IsRegs(chip.chip)
    BY DEF IsChip, IsR82xx
  <2> QED  BY <1>2, <2>1, InitRegsAre DEF IsR82xx, R!Unused
<1>4. IsChip(kind, d.t)
  BY <1>2, <1>3 DEF IsChip, Rafael
<1> QED  BY <1>1, <1>2, <1>4 DEF Ready, Chipped, Tunable

\* A chip that was never used has its driver's fields.
LEMMA FreshIsChip ==
    ASSUME NEW kind \in Kinds
    PROVE  IsChip(kind, FreshChip(kind))
<1>1. IsR82xx(R!Unused)
  BY InitRegsAre DEF IsR82xx, R!Unused
<1>2. CASE Rafael(kind)
  BY <1>1, <1>2 DEF IsChip, FreshChip, Rafael
<1>3. CASE kind = "FC0012"
  BY <1>3 DEF IsChip, FreshChip, Rafael, F!fc0012_regs
<1>4. CASE kind = "FC0013"
  BY <1>4 DEF IsChip, FreshChip, Rafael, F!fc0013_regs
<1> QED  BY <1>2, <1>3, <1>4 DEF IsChip

\* The demodulator's mode is one field.
LEMMA SetModeMoves ==
    ASSUME NEW d, NEW mode, NEW bad, Chipped(d), NEW e, e = SetMode(d, mode, bad)
    PROVE  Step({}, {"mode"}, d, e) /\ (bad = {} => e.mode = mode) /\ e.repeater = d.repeater
<1>1. Same(d, e) /\ ChipKept(d.kind, {}, d.t, d.t)
  BY ModeStep, ChipTrans DEF Chipped
<1> QED  BY <1>1 DEF SetMode, Step, Only, Kept, Chipped, Fine, DeviceFields

\* A device just opened is ready, on no frequency; with all in reach an R820T
\* fits, and a V4 knows its antenna input.
LEMMA OpenIs ==
    ASSUME NEW kind \in Kinds, NEW chip, IsChip(kind, chip), NEW bad, NEW e, e = rtlsdr_open(kind, chip, bad)
    PROVE  /\ Ready(e) /\ e.kind = kind /\ e.freq = 0 /\ e.direct = 0
           /\ bad = {} /\ kind = "R820T" => Fits(e)
           /\ bad = {} /\ kind = "V4" => InputAgrees(e.t)
<1> DEFINE n == NewDevice(kind, chip)
           d == Repeater(n, TRUE)
           f == rtlsdr_set_if_freq(d, R82xxIf, bad)
           m == SetMode(f, "lowIf", bad)
           u == IF Rafael(kind) THEN m ELSE d
           i == tuner_init(u, bad)
           r == Repeater(i, FALSE)
<1>1. e = [r EXCEPT !.ok = TRUE]
  BY DEF rtlsdr_open
<1>2. Ready(n) /\ n.kind = kind /\ n.freq = 0 /\ n.direct = 0
  BY NewDeviceReady
<1> HIDE DEF n
<1>3. Step({}, {"mode"}, n, d) /\ d.repeater = TRUE /\ Chipped(d)
  BY <1>2, RepeaterMoves, StepTrans DEF Ready
<1> HIDE DEF d
<1>4. Step({}, {"mode"}, d, f) /\ f.repeater = d.repeater /\ Chipped(f)
  BY <1>3, FreqMoves, StepTrans
<1> HIDE DEF f
<1>5. Step({}, {"mode"}, f, m) /\ (bad = {} => m.mode = "lowIf") /\ m.repeater = f.repeater
  BY <1>4, SetModeMoves
<1> HIDE DEF m
<1>6. Step({}, {"mode"}, d, m) /\ Chipped(m)
  BY <1>4, <1>5, StepTrans
<1>7. Step({}, {"mode"}, n, u) /\ u.repeater = TRUE /\ Chipped(u) /\ u.kind = kind
      /\ (bad = {} /\ Rafael(kind) => u.mode = "lowIf")
  <2>1. Step({}, {"mode"}, n, m)
    BY <1>3, <1>6, StepTrans
  <2> QED  BY <1>2, <1>3, <1>4, <1>5, <1>6, <2>1, StepTrans
<1> HIDE DEF u
<1>8. /\ Step({}, {}, u, i) /\ Chipped(i)
      /\ bad = {} /\ Rafael(kind) => i.t.initDone = TRUE /\ Awake(i.t) /\ InputAgrees(i.t)
  BY <1>7, InitMoves, StepTrans
<1> HIDE DEF i
<1>9. Step({}, {}, i, r) /\ r.t = i.t /\ Chipped(r)
  BY <1>8, SwitchedRepeater
<1> HIDE DEF r
<1>10. Step({}, {}, r, e) /\ e.t = r.t
  <2>1. e.t = r.t
    BY <1>1, <1>9 DEF Chipped, Fine, DeviceFields
  <2> QED  BY <1>1, <1>9, <2>1, WellMoves
<1>11. Step({}, {}, u, e)
  BY <1>8, <1>9, <1>10, StepTrans
<1>12. e.freq = 0 /\ e.direct = 0 /\ e.mode = u.mode
  BY <1>2, <1>7, <1>11 DEF Step, Only, Kept
<1>13. e.kind = kind /\ Chipped(e)
  BY <1>7, <1>11, StepTrans
<1>14. Ready(e)
  BY <1>12, <1>13 DEF Ready, Tunable
<1>15. e.t = i.t
  BY <1>9, <1>10
<1>16. ASSUME bad = {}, kind = "R820T" PROVE Fits(e)
  <2>1. Rafael(kind)
    BY <1>16 DEF Rafael
  <2>2. e.t.initDone = TRUE /\ AwakeAgrees(e.t) /\ e.t.chip.r06.awake = TRUE
    BY <1>8, <1>15, <1>16, <2>1 DEF Awake
  <2>3. (e.direct = 0) = TRUE
    BY <1>12
  <2>4. e.t.chip.r06.awake = (e.direct = 0)
    BY <2>2, <2>3, Zenon
  <2>5. e.mode = "lowIf"
    BY <1>7, <1>12, <1>16, <2>1
  <2> QED  BY <1>12, <2>2, <2>4, <2>5 DEF Fits, FitsMode, FreqFits
<1> QED  BY <1>8, <1>12, <1>13, <1>14, <1>15, <1>16 DEF Rafael

\* A closed device is as a new one on the same chip.
LEMMA CloseIs ==
    ASSUME NEW d, NEW bad, Chipped(d), NEW e, e = rtlsdr_close(d, bad)
    PROVE  Ready(e) /\ e.kind = d.kind
<1> DEFINE r == Repeater(d, TRUE)
           u == tuner_exit(r, bad)
           n == NewDevice(d.kind, u.t)
<1>1. e = [n EXCEPT !.deaf = u.deaf]
  BY DEF rtlsdr_close
<1>2. Step({}, {}, d, r) /\ r.repeater = TRUE /\ Chipped(r)
  BY RepeaterMoves, StepTrans
<1> HIDE DEF r
<1>3. Step({}, {}, d, u) /\ Chipped(u)
  <2>1. Step({}, {}, r, u)
    BY <1>2, ExitMoves
  <2> QED  BY <1>2, <2>1, StepTrans
<1> HIDE DEF u
<1>4. d.kind \in Kinds /\ IsChip(d.kind, u.t) /\ ~u.deaf
  BY <1>3, StepTrans DEF Chipped, Fine
<1>5. Ready(n) /\ n.kind = d.kind
  BY <1>4, NewDeviceReady
<1> HIDE DEF n
<1>6. /\ e.kind = n.kind /\ e.t = n.t /\ e.freq = n.freq /\ e.direct = n.direct /\ e.rate = n.rate
      /\ e.bw = n.bw /\ e.corr = n.corr /\ DOMAIN e = DOMAIN n /\ ~e.deaf
  BY <1>1, <1>4, <1>5 DEF Ready, Chipped, Fine, DeviceFields
<1> HIDE DEF n
<1> QED  BY <1>5, <1>6 DEF Ready, Chipped, Fine

(****************************************************************************)
(* Settings: what a device must be for a setting to be applied, and which   *)
(* steps keep it so.                                                        *)
(****************************************************************************)

\* The device's part of each setting.  GainKnown and InputSet say more than
\* GainInEffect and InEffect: shadow and switches must agree for it to last.
RateSet(d, khz) == d.rate = khz /\ d.ratio = khz
BandwidthSet(d, bw) ==
    /\ d.bw = bw
    /\ Rafael(d.kind) /\ d.direct = 0 => d.t.chip.r0b.width = R!FilterOf(WantedBw(d)).reg
GainKnown(d, gain) == GainSet(d, gain) /\ (Rafael(d.kind) => GainAgrees(d.t))
WarpSet(d, ppm) == ppm # 0 => d.corr = ppm /\ d.sro = ResamplerOffset(ppm)
InputSet(d) == d.kind = "V4" => Follows(d.t, d.freq)

AppliedTo(s, a, tuned, d) ==
    CASE s = "freq" -> d.freq = a.freq + tuned \div 4
      [] s = "rate" -> RateSet(d, a.rate)
      [] s = "bw" -> BandwidthSet(d, a.bw)
      [] s = "gain" -> GainKnown(d, a.gain)
      [] s = "ifGain" -> IfGainSet(d, a.ifGain)
      [] s = "warp" -> WarpSet(d, a.warp)
      [] s = "input" -> InputSet(d)

\* Rate and correction last while their fields do.
LEMMA StepKeepsNotes ==
    ASSUME NEW W, NEW G, NEW d, NEW e, Step(W, G, d, e)
    PROVE  /\ G \cap {"rate", "ratio"} = {} => \A khz : RateSet(d, khz) => RateSet(e, khz)
           /\ G \cap {"corr", "sro"} = {} => \A ppm : WarpSet(d, ppm) => WarpSet(e, ppm)
<1>1. ASSUME G \cap {"rate", "ratio"} = {} PROVE e.rate = d.rate /\ e.ratio = d.ratio
  BY <1>1 DEF Step, Only, Kept
<1>2. ASSUME G \cap {"corr", "sro"} = {} PROVE e.corr = d.corr /\ e.sro = d.sro
  BY <1>2 DEF Step, Only, Kept
<1> QED  BY <1>1, <1>2 DEF RateSet, WarpSet

\* A bandwidth lasts while the filter and direct sampling do.
LEMMA StepKeepsBandwidth ==
    ASSUME NEW W, NEW G, NEW d, NEW e, Step(W, G, d, e), "bw" \in W, G \cap {"bw", "rate"} = {},
           e.direct = d.direct
    PROVE  \A bw : BandwidthSet(d, bw) => BandwidthSet(e, bw)
<1>1. e.bw = d.bw /\ e.rate = d.rate
  BY DEF Step, Only, Kept
<1>2. WantedBw(e) = WantedBw(d)
  BY <1>1 DEF WantedBw
<1>3. e.kind = d.kind /\ (Rafael(d.kind) => e.t.chip.r0b = d.t.chip.r0b)
  BY StepTrans DEF Step, ChipKept, Leaves, FilterKept
<1> QED  BY <1>1, <1>2, <1>3 DEF BandwidthSet

\* A gain lasts while its registers do, shadow and chip.
LEMMA StepKeepsGain ==
    ASSUME NEW W, NEW G, NEW d, NEW e, Chipped(d), Step(W, G, d, e), "gain" \in W
    PROVE  \A gain : GainKnown(d, gain) => GainKnown(e, gain)
<1> SUFFICES ASSUME NEW gain, GainKnown(d, gain) PROVE GainKnown(e, gain)
  OBVIOUS
<1>1. e.kind = d.kind /\ Chipped(e) /\ ChipKept(d.kind, W, d.t, e.t)
  BY StepTrans DEF Step
<1> DEFINE g == NearestOf(rtlsdr_get_tuner_gains(d.kind), 10 * gain)
           h == NearestOf(rtlsdr_get_tuner_gains(e.kind), 10 * gain)
           auto == gain = AutoGain
<1>2. g = h
  BY <1>1
<1>3. CASE Rafael(d.kind)
  <2>1. GainKept(d.t, e.t) /\ GainAgrees(d.t)
    BY <1>1, <1>3 DEF ChipKept, Leaves, GainKnown
  <2>2. /\ GainAgrees(e.t) /\ e.t.chip.r07 = d.t.chip.r07
        /\ e.t.chip.r05.auto = d.t.chip.r05.auto /\ e.t.chip.r05.lna = d.t.chip.r05.lna
    BY <2>1 DEF GainKept, GainAgrees
  <2>3. GainSet(d, gain) = /\ d.t.chip.r05.auto = auto /\ d.t.chip.r07.auto = auto
                           /\ ~auto => /\ d.t.chip.r05.lna = R!GainIndices(g).lna
                                       /\ d.t.chip.r07.mix = R!GainIndices(g).mix
    BY <1>3 DEF GainSet, Rafael
  <2>4. GainSet(e, gain) = /\ e.t.chip.r05.auto = auto /\ e.t.chip.r07.auto = auto
                           /\ ~auto => /\ e.t.chip.r05.lna = R!GainIndices(h).lna
                                       /\ e.t.chip.r07.mix = R!GainIndices(h).mix
    BY <1>1, <1>3 DEF GainSet, Rafael
  <2> HIDE DEF g, h, auto
  <2> QED  BY <1>2, <2>2, <2>3, <2>4 DEF GainKnown
<1>4. CASE d.kind = "FC0013"
  <2>1. e.t.lna = d.t.lna /\ e.t.manual = d.t.manual /\ DOMAIN e.t = DOMAIN F!fc0013_regs
    BY <1>1, <1>4 DEF ChipKept, Chipped, IsChip
  <2>2. CASE gain = AutoGain
    <3>1. (gain # AutoGain) = FALSE
      BY <2>2
    <3> QED  BY <1>1, <1>4, <2>1, <3>1 DEF GainKnown, GainSet, Rafael
  <2>3. CASE gain # AutoGain
    <3>1. (gain # AutoGain) = TRUE
      BY <2>3
    <3>2. d.t.manual = TRUE /\ d.t.lna = F!fc0013_set_lna_gain(d.t, g, {}).lna
      BY <1>4, <3>1 DEF GainKnown, GainSet, Rafael
    <3>3. e.t.lna = F!fc0013_set_lna_gain(e.t, h, {}).lna
      <4>1. F!fc0013_set_lna_gain(e.t, h, {}).lna = F!LnaOf(h)
        BY <2>1 DEF F!fc0013_set_lna_gain, F!fc0013_regs
      <4>2. "lna" \in DOMAIN d.t
        BY <1>4 DEF Chipped, IsChip, F!fc0013_regs
      <4> QED  BY <1>2, <2>1, <3>2, <4>1, <4>2 DEF F!fc0013_set_lna_gain
    <3> QED  BY <1>1, <1>4, <2>1, <3>1, <3>2, <3>3 DEF GainKnown, GainSet, Rafael
  <2> QED  BY <2>2, <2>3
<1>5. CASE d.kind = "FC0012"
  <2>1. e.t.lna = d.t.lna /\ DOMAIN e.t = DOMAIN F!fc0012_regs
    BY <1>1, <1>5 DEF ChipKept, Chipped, IsChip
  <2>2. DOMAIN d.t = DOMAIN F!fc0012_regs
    BY <1>5 DEF Chipped, IsChip
  <2>3. F!fc0012_set_gain(d.t, g, {}).lna = F!fc0012_set_gain(e.t, g, {}).lna
    <3> HIDE DEF g
    <3> QED  BY <2>1, <2>2 DEF F!fc0012_set_gain, F!fc0012_regs
  <2>4. GainSet(d, gain) = (gain # AutoGain => d.t.lna = F!fc0012_set_gain(d.t, g, {}).lna)
    BY <1>5 DEF GainSet, Rafael
  <2>5. GainSet(e, gain) = (gain # AutoGain => e.t.lna = F!fc0012_set_gain(e.t, h, {}).lna)
    BY <1>1, <1>5 DEF GainSet, Rafael
  <2> HIDE DEF g, h
  <2> QED  BY <1>1, <1>2, <1>5, <2>1, <2>3, <2>4, <2>5 DEF GainKnown, Rafael
<1>6. CASE d.kind \in {"E4000", "FC2580"}
  BY <1>1, <1>6 DEF GainKnown, GainSet, Rafael
<1> QED  BY <1>1, <1>3, <1>4, <1>5, <1>6 DEF Chipped, Fine, Kinds, Rafael

\* An IF gain lasts while its register does.
LEMMA StepKeepsIfGain ==
    ASSUME NEW W, NEW G, NEW d, NEW e, Step(W, G, d, e), "ifGain" \in W
    PROVE  \A gain : IfGainSet(d, gain) => IfGainSet(e, gain)
<1>1. e.kind = d.kind /\ (Rafael(d.kind) => e.t.chip.r0c = d.t.chip.r0c)
  BY StepTrans DEF Step, ChipKept, Leaves, VgaKept
<1> QED  BY <1>1 DEF IfGainSet

\* The antenna input lasts through quiet steps.
LEMMA QuietKeepsInput ==
    ASSUME NEW V, NEW d, NEW e, Quiet(V, {}), Step(V, {}, d, e)
    PROVE  InputSet(d) => InputSet(e)
BY QuietIs DEF InputSet

\* What a switch of the sampling, or a tuning that failed, overwrites.
Wiped(old, new) == IF old.direct = new.direct /\ new.freq # 0 THEN {} ELSE TunerSettings

\* A call for one setting does not undo another: what is neither wiped by a
\* switch of the sampling nor touched by a call that failed or met a fault.
Carries(x, d, u, bad) ==
    \A s \in Settings \ {x} : \A a, tuned :
      s \notin Wiped(d, u) /\ (s \notin Touches[x] \/ (bad = {} /\ u.ok)) /\ AppliedTo(s, a, tuned, d)
        => AppliedTo(s, a, tuned, u)

\* AppliedTo, setting by setting.
LEMMA AppliedIs ==
    /\ \A a, tuned, d : AppliedTo("freq", a, tuned, d) <=> d.freq = a.freq + tuned \div 4
    /\ \A a, tuned, d : AppliedTo("rate", a, tuned, d) <=> RateSet(d, a.rate)
    /\ \A a, tuned, d : AppliedTo("bw", a, tuned, d) <=> BandwidthSet(d, a.bw)
    /\ \A a, tuned, d : AppliedTo("gain", a, tuned, d) <=> GainKnown(d, a.gain)
    /\ \A a, tuned, d : AppliedTo("ifGain", a, tuned, d) <=> IfGainSet(d, a.ifGain)
    /\ \A a, tuned, d : AppliedTo("warp", a, tuned, d) <=> WarpSet(d, a.warp)
    /\ \A a, tuned, d : AppliedTo("input", a, tuned, d) <=> InputSet(d)
BY DEF AppliedTo

\* What is not wiped was used throughout.
LEMMA WipedIs ==
    ASSUME NEW d, NEW u
    PROVE  /\ "freq" \notin Wiped(d, u) /\ "rate" \notin Wiped(d, u) /\ "warp" \notin Wiped(d, u)
           /\ \A s \in {"bw", "gain", "ifGain", "input"} :
                s \notin Wiped(d, u) => u.direct = d.direct /\ u.freq # 0
BY DEF Wiped, TunerSettings

\* What is wiped is unsure or reset.
LEMMA WipedIsNoted ==
    ASSUME NEW c, NEW u, NEW x, NEW bad
    PROVE  Wiped(c.dev, u) \subseteq StillUnsure(c, u, x, bad) \cup StillReset(c, u, x, bad)
BY DEF Wiped, StillUnsure, StillReset

\* What each set function reaches down to.
LEMMA TouchesAre ==
    /\ "freq" \in Touches["freq"] /\ "input" \in Touches["freq"]
    /\ "rate" \in Touches["rate"] /\ "bw" \in Touches["rate"] /\ "freq" \in Touches["rate"]
    /\ "warp" \in Touches["rate"] /\ "input" \in Touches["rate"]
    /\ "bw" \in Touches["bw"] /\ "freq" \in Touches["bw"] /\ "input" \in Touches["bw"]
    /\ "gain" \in Touches["gain"] /\ "ifGain" \in Touches["ifGain"]
    /\ "warp" \in Touches["warp"] /\ "freq" \in Touches["warp"] /\ "input" \in Touches["warp"]
BY DEF Touches

\* Carries, setting by setting.
LEMMA CarriesEach ==
    ASSUME NEW x, NEW d, NEW u, NEW bad,
           x # "freq" /\ ("freq" \notin Touches[x] \/ (bad = {} /\ u.ok)) => u.freq = d.freq,
           x # "rate" /\ ("rate" \notin Touches[x] \/ (bad = {} /\ u.ok))
             => \A khz : RateSet(d, khz) => RateSet(u, khz),
           x # "warp" /\ ("warp" \notin Touches[x] \/ (bad = {} /\ u.ok))
             => \A ppm : WarpSet(d, ppm) => WarpSet(u, ppm),
           u.direct = d.direct /\ u.freq # 0
             => /\ x # "bw" /\ ("bw" \notin Touches[x] \/ (bad = {} /\ u.ok))
                     => \A bw : BandwidthSet(d, bw) => BandwidthSet(u, bw)
                /\ x # "gain" /\ ("gain" \notin Touches[x] \/ (bad = {} /\ u.ok))
                     => \A gain : GainKnown(d, gain) => GainKnown(u, gain)
                /\ x # "ifGain" /\ ("ifGain" \notin Touches[x] \/ (bad = {} /\ u.ok))
                     => \A gain : IfGainSet(d, gain) => IfGainSet(u, gain)
                /\ "input" \notin Touches[x] \/ (bad = {} /\ u.ok) => (InputSet(d) => InputSet(u))
    PROVE  Carries(x, d, u, bad)
<1> SUFFICES ASSUME NEW s \in Settings \ {x}, NEW a, NEW tuned, s \notin Wiped(d, u),
                    s \notin Touches[x] \/ (bad = {} /\ u.ok), AppliedTo(s, a, tuned, d)
             PROVE  AppliedTo(s, a, tuned, u)
  BY DEF Carries
<1>1. CASE s = "freq"
  BY <1>1, AppliedIs
<1>2. CASE s = "rate"
  BY <1>2, AppliedIs
<1>3. CASE s = "warp"
  BY <1>3, AppliedIs
<1>4. CASE s \in {"bw", "gain", "ifGain", "input"}
  <2>1. u.direct = d.direct /\ u.freq # 0
    BY <1>4, WipedIs
  <2>2. CASE s = "bw"
    BY <2>1, <2>2, AppliedIs
  <2>3. CASE s = "gain"
    BY <2>1, <2>3, AppliedIs
  <2>4. CASE s = "ifGain"
    BY <2>1, <2>4, AppliedIs
  <2>5. CASE s = "input"
    BY <2>1, <2>5, AppliedIs
  <2> QED  BY <1>4, <2>2, <2>3, <2>4, <2>5
<1> QED  BY <1>1, <1>2, <1>3, <1>4 DEF Settings

\* A gain undoes no other setting.
LEMMA GainCarries ==
    ASSUME NEW d, NEW u, NEW bad, Chipped(d), Step(Louder, {}, d, u)
    PROVE  Carries("gain", d, u, bad)
<1>1. Quiet(Louder, {}) /\ "bw" \in Louder /\ "ifGain" \in Louder
  BY DEF Quiet, Louder, All
<1>2. u.freq = d.freq
  BY DEF Step, Only, Kept
<1>3. /\ \A khz : RateSet(d, khz) => RateSet(u, khz)
      /\ \A ppm : WarpSet(d, ppm) => WarpSet(u, ppm)
  BY StepKeepsNotes
<1>4. u.direct = d.direct => \A bw : BandwidthSet(d, bw) => BandwidthSet(u, bw)
  BY <1>1, StepKeepsBandwidth
<1>5. \A gain : IfGainSet(d, gain) => IfGainSet(u, gain)
  BY <1>1, StepKeepsIfGain
<1>6. InputSet(d) => InputSet(u)
  BY <1>1, QuietKeepsInput
<1> QED  BY <1>2, <1>3, <1>4, <1>5, <1>6, CarriesEach

\* Nor does an IF gain.
LEMMA IfGainCarries ==
    ASSUME NEW d, NEW u, NEW bad, Chipped(d), Step(All \ {"ifGain"}, {}, d, u)
    PROVE  Carries("ifGain", d, u, bad)
<1> DEFINE V == All \ {"ifGain"}
<1>1. Quiet(V, {}) /\ "bw" \in V /\ "gain" \in V
  BY DEF Quiet, All
<1> HIDE DEF V
<1>0. Step(V, {}, d, u)
  BY DEF V
<1>2. u.freq = d.freq
  BY DEF Step, Only, Kept
<1>3. /\ \A khz : RateSet(d, khz) => RateSet(u, khz)
      /\ \A ppm : WarpSet(d, ppm) => WarpSet(u, ppm)
  BY <1>0, StepKeepsNotes
<1>4. u.direct = d.direct => \A bw : BandwidthSet(d, bw) => BandwidthSet(u, bw)
  BY <1>0, <1>1, StepKeepsBandwidth
<1>5. \A gain : GainKnown(d, gain) => GainKnown(u, gain)
  BY <1>0, <1>1, StepKeepsGain
<1>6. InputSet(d) => InputSet(u)
  BY <1>0, <1>1, QuietKeepsInput
<1> QED  BY <1>2, <1>3, <1>4, <1>5, <1>6, CarriesEach

\* What the calls that may tune again undo, and what they do not.
LEMMA OutcomeKeeps ==
    ASSUME NEW W, NEW G, NEW d, NEW u, NEW bad, Ready(d), Outcome(W, G, d, u, bad),
           "gain" \in W, "ifGain" \in W
    PROVE  /\ bad = {} /\ u.ok => u.freq = d.freq
           /\ G \cap {"rate", "ratio"} = {} => \A khz : RateSet(d, khz) => RateSet(u, khz)
           /\ G \cap {"corr", "sro"} = {} => \A ppm : WarpSet(d, ppm) => WarpSet(u, ppm)
           /\ u.direct = d.direct /\ u.freq # 0
                => /\ \A gain : GainKnown(d, gain) => GainKnown(u, gain)
                   /\ \A gain : IfGainSet(d, gain) => IfGainSet(u, gain)
                   /\ bad = {} => (InputSet(d) => InputSet(u))
                   /\ "bw" \in W /\ G \cap {"bw", "rate"} = {}
                        => \A bw : BandwidthSet(d, bw) => BandwidthSet(u, bw)
<1> DEFINE S == Switching \cup G
           T == Retuning \cup G
<1>1. Step({}, S, d, u) /\ (u.freq # 0 /\ u.direct = d.direct => Step(W, T, d, u)) /\ u.kind = d.kind
  BY StepTrans DEF Outcome
<1>2. /\ G \cap {"rate", "ratio"} = {} => S \cap {"rate", "ratio"} = {}
      /\ G \cap {"corr", "sro"} = {} => S \cap {"corr", "sro"} = {}
      /\ G \cap {"bw", "rate"} = {} => T \cap {"bw", "rate"} = {}
  BY DEF Switching, Retuning
<1> HIDE DEF S, T
<1>3. Chipped(d)
  BY DEF Ready
<1>4. /\ G \cap {"rate", "ratio"} = {} => \A khz : RateSet(d, khz) => RateSet(u, khz)
      /\ G \cap {"corr", "sro"} = {} => \A ppm : WarpSet(d, ppm) => WarpSet(u, ppm)
  BY <1>1, <1>2, StepKeepsNotes
<1>5. ASSUME u.direct = d.direct, u.freq # 0
      PROVE  /\ \A gain : GainKnown(d, gain) => GainKnown(u, gain)
             /\ \A gain : IfGainSet(d, gain) => IfGainSet(u, gain)
             /\ bad = {} => (InputSet(d) => InputSet(u))
             /\ "bw" \in W /\ G \cap {"bw", "rate"} = {}
                  => \A bw : BandwidthSet(d, bw) => BandwidthSet(u, bw)
  <2>1. Step(W, T, d, u)
    BY <1>1, <1>5
  <2>2. \A gain : GainKnown(d, gain) => GainKnown(u, gain)
    BY <1>3, <2>1, StepKeepsGain
  <2>3. \A gain : IfGainSet(d, gain) => IfGainSet(u, gain)
    BY <2>1, StepKeepsIfGain
  <2>4. bad = {} => (InputSet(d) => InputSet(u))
    BY <1>1, <1>5 DEF Outcome, InputSet
  <2>5. "bw" \in W /\ G \cap {"bw", "rate"} = {}
          => \A bw : BandwidthSet(d, bw) => BandwidthSet(u, bw)
    BY <1>2, <1>5, <2>1, StepKeepsBandwidth
  <2> QED  BY <2>2, <2>3, <2>4, <2>5
<1>6. bad = {} /\ u.ok => u.freq = d.freq
  BY DEF Outcome
<1> QED  BY <1>4, <1>5, <1>6

\* A bandwidth undoes no other setting.
LEMMA BandwidthCarries ==
    ASSUME NEW d, NEW u, NEW bad, Ready(d), Outcome(Rest \ {"bw"}, {"bw"}, d, u, bad)
    PROVE  Carries("bw", d, u, bad)
<1>1. "gain" \in Rest \ {"bw"} /\ "ifGain" \in Rest \ {"bw"}
  BY DEF Rest
<1>2. {"bw"} \cap {"rate", "ratio"} = {} /\ {"bw"} \cap {"corr", "sro"} = {}
  OBVIOUS
<1>3. /\ bad = {} /\ u.ok => u.freq = d.freq
      /\ \A khz : RateSet(d, khz) => RateSet(u, khz)
      /\ \A ppm : WarpSet(d, ppm) => WarpSet(u, ppm)
      /\ u.direct = d.direct /\ u.freq # 0
           => /\ \A gain : GainKnown(d, gain) => GainKnown(u, gain)
              /\ \A gain : IfGainSet(d, gain) => IfGainSet(u, gain)
              /\ bad = {} => (InputSet(d) => InputSet(u))
  BY <1>1, <1>2, OutcomeKeeps
<1> QED  BY <1>3, TouchesAre, CarriesEach

\* Nor does a correction.
LEMMA WarpCarries ==
    ASSUME NEW d, NEW u, NEW bad, Ready(d), Outcome(Rest, {"corr", "sro"}, d, u, bad)
    PROVE  Carries("warp", d, u, bad)
<1>1. "gain" \in Rest /\ "ifGain" \in Rest /\ "bw" \in Rest
  BY DEF Rest
<1>2. {"corr", "sro"} \cap {"rate", "ratio"} = {} /\ {"corr", "sro"} \cap {"bw", "rate"} = {}
  OBVIOUS
<1>3. /\ bad = {} /\ u.ok => u.freq = d.freq
      /\ \A khz : RateSet(d, khz) => RateSet(u, khz)
      /\ u.direct = d.direct /\ u.freq # 0
           => /\ \A gain : GainKnown(d, gain) => GainKnown(u, gain)
              /\ \A gain : IfGainSet(d, gain) => IfGainSet(u, gain)
              /\ bad = {} => (InputSet(d) => InputSet(u))
              /\ \A bw : BandwidthSet(d, bw) => BandwidthSet(u, bw)
  BY <1>1, <1>2, OutcomeKeeps
<1> QED  BY <1>3, TouchesAre, CarriesEach

\* Nor does a rate, with the bandwidth that goes with it.
LEMMA RateCarries ==
    ASSUME NEW d, NEW u, NEW bad, Ready(d), Outcome(Rest \ {"bw"}, {"rate", "ratio", "sro"}, d, u, bad),
           u.ok => /\ Width(d, u, WantedBw(u), bad)
                   /\ bad = {} => u.sro = ResamplerOffset(d.corr)
    PROVE  Carries("rate", d, u, bad)
<1> DEFINE G == {"rate", "ratio", "sro"}
<1>1. "gain" \in Rest \ {"bw"} /\ "ifGain" \in Rest \ {"bw"}
  BY DEF Rest
<1>3. /\ bad = {} /\ u.ok => u.freq = d.freq
      /\ u.direct = d.direct /\ u.freq # 0
           => /\ \A gain : GainKnown(d, gain) => GainKnown(u, gain)
              /\ \A gain : IfGainSet(d, gain) => IfGainSet(u, gain)
              /\ bad = {} => (InputSet(d) => InputSet(u))
  BY <1>1, OutcomeKeeps
<1>4. Step({}, Switching \cup G, d, u) /\ u.kind = d.kind
  BY StepTrans DEF Outcome
<1>5. u.corr = d.corr /\ u.bw = d.bw
  BY <1>4 DEF Step, Only, Kept, Switching
<1>6. bad = {} /\ u.ok => \A ppm : WarpSet(d, ppm) => WarpSet(u, ppm)
  BY <1>5 DEF WarpSet
<1>7. bad = {} /\ u.ok /\ u.direct = d.direct /\ u.freq # 0
        => \A bw : BandwidthSet(d, bw) => BandwidthSet(u, bw)
  BY <1>4, <1>5 DEF BandwidthSet, Width
<1> QED  BY <1>3, <1>6, <1>7, TouchesAre, CarriesEach

\* Nor does a frequency.
LEMMA TuneCarries ==
    ASSUME NEW d, NEW u, NEW bad, Ready(d), Step({}, Switching, d, u),
           u.freq # 0 /\ u.direct = d.direct => Step(Rest, Retuning, d, u),
           bad = {} /\ u.freq # 0 /\ d.kind = "V4" /\ InputAgrees(d.t) => Follows(u.t, u.freq)
    PROVE  Carries("freq", d, u, bad)
<1>1. Switching \cap {"rate", "ratio"} = {} /\ Switching \cap {"corr", "sro"} = {}
      /\ Retuning \cap {"bw", "rate"} = {} /\ "bw" \in Rest /\ "gain" \in Rest /\ "ifGain" \in Rest
  BY DEF Switching, Retuning, Rest
<1>2. /\ \A khz : RateSet(d, khz) => RateSet(u, khz)
      /\ \A ppm : WarpSet(d, ppm) => WarpSet(u, ppm)
  BY <1>1, StepKeepsNotes
<1>3. ASSUME u.direct = d.direct, u.freq # 0
      PROVE  /\ \A bw : BandwidthSet(d, bw) => BandwidthSet(u, bw)
             /\ \A gain : GainKnown(d, gain) => GainKnown(u, gain)
             /\ \A gain : IfGainSet(d, gain) => IfGainSet(u, gain)
  <2>1. Step(Rest, Retuning, d, u) /\ Chipped(d)
    BY <1>3 DEF Ready
  <2>2. \A bw : BandwidthSet(d, bw) => BandwidthSet(u, bw)
    BY <1>1, <1>3, <2>1, StepKeepsBandwidth
  <2>3. \A gain : GainKnown(d, gain) => GainKnown(u, gain)
    BY <1>1, <2>1, StepKeepsGain
  <2>4. \A gain : IfGainSet(d, gain) => IfGainSet(u, gain)
    BY <1>1, <2>1, StepKeepsIfGain
  <2> QED  BY <2>2, <2>3, <2>4
<1>4. bad = {} /\ u.freq # 0 => (InputSet(d) => InputSet(u))
  <2>1. u.kind = d.kind /\ (Follows(d.t, d.freq) => InputAgrees(d.t))
    BY StepTrans DEF Follows
  <2> QED  BY <2>1 DEF InputSet
<1> QED  BY <1>2, <1>3, <1>4, TouchesAre, CarriesEach

(****************************************************************************)
(* Radio's set functions: each establishes its setting and undoes no other. *)
(****************************************************************************)

\* A setting is applied, unless it is unsure or was reset.
Holds(c, s) == s \in c.unsure \cup c.reset \/ AppliedTo(s, c.attr, c.tunedAt, c.dev)

\* What the commands let the user note.
Bounded(a) == a \in Attributes /\ a.freq <= 1700000 /\ a.rate <= 3200
\* Radio's record with a device that is ready.
Within(c) == /\ IsConfig(c) /\ Bounded(c.attr) /\ Ready(c.dev)
             /\ c.dev.kind # "R820T" => c.reset = {}

\* A set function for x: x holds after it, and so does what held before.
Moved(c, e, x, bad) ==
    /\ Within(e) /\ e.isOpen = c.isOpen /\ e.enabled = c.enabled /\ e.dev.kind = c.dev.kind
    /\ c.isOpen => Holds(e, x) /\ \A s \in Settings \ {x} : Holds(c, s) => Holds(e, s)
    /\ bad = {} /\ c.isOpen /\ c.dev.kind = "R820T" /\ Fits(c.dev) => Fits(e.dev)

\* A setting is applied whatever the others say.
LEMMA AppliedSame ==
    ASSUME NEW s \in Settings, NEW a, NEW b, NEW t, NEW v, NEW d, s # "input" => a[s] = b[s],
           s = "freq" => t = v, AppliedTo(s, a, t, d)
    PROVE  AppliedTo(s, b, v, d)
<1>1. CASE s \in {"freq", "rate", "bw"}
  BY <1>1, AppliedIs
<1>2. CASE s \in {"gain", "ifGain", "warp", "input"}
  BY <1>2, AppliedIs
<1> QED  BY <1>1, <1>2 DEF Settings

\* The outcome of a call is no setting.
LEMMA AppliedRefused ==
    ASSUME NEW s \in Settings, NEW a, NEW tuned, NEW d, Fine(d), AppliedTo(s, a, tuned, d)
    PROVE  AppliedTo(s, a, tuned, [d EXCEPT !.ok = FALSE])
<1> DEFINE u == [d EXCEPT !.ok = FALSE]
<1>1. /\ u.kind = d.kind /\ u.freq = d.freq /\ u.rate = d.rate /\ u.bw = d.bw /\ u.corr = d.corr
      /\ u.direct = d.direct /\ u.sro = d.sro /\ u.ratio = d.ratio /\ u.t = d.t
  BY DEF Fine, DeviceFields
<1> HIDE DEF u
<1> SUFFICES AppliedTo(s, a, tuned, u)
  BY DEF u
<1>2. CASE s \in {"freq", "rate", "warp"}
  BY <1>1, <1>2, AppliedIs DEF RateSet, WarpSet
<1>3. CASE s = "bw"
  BY <1>1, <1>3, AppliedIs DEF BandwidthSet, WantedBw
<1>4. CASE s = "gain"
  <2>1. GainKnown(d, a.gain)
    BY <1>4, AppliedIs
  <2>2. GainKnown(u, a.gain)
    BY <1>1, <2>1 DEF GainKnown, GainSet
  <2> QED  BY <1>4, <2>2, AppliedIs
<1>5. CASE s \in {"ifGain", "input"}
  BY <1>1, <1>5, AppliedIs DEF IfGainSet, InputSet
<1> QED  BY <1>2, <1>3, <1>4, <1>5 DEF Settings

\* A setting as its call leaves it.
Establishes(x, value, d, u, bad, rate) ==
    bad = {} /\ u.ok /\ x \notin Wiped(d, u)
      => \A a, tuned : a[x] = value /\ (x = "freq" => tuned = rate) => AppliedTo(x, a, tuned, u)

\* A call that establishes its setting and carries the others makes its set
\* function do so.
LEMMA ApplyMoved ==
    ASSUME NEW c, Within(c), NEW x \in Settings \ {"input"}, NEW value, NEW u, NEW bad,
           Bounded([c.attr EXCEPT ![x] = value]),
           Ready(u), u.kind = c.dev.kind, Carries(x, c.dev, u, bad),
           Establishes(x, value, c.dev, u, bad, c.attr.rate),
           bad = {} /\ c.dev.kind = "R820T" /\ Fits(c.dev) => Fits(u),
           NEW e, e = Apply(c, x, value, u, bad)
    PROVE  Moved(c, e, x, bad)
<1>0. IsConfig(c) /\ Ready(c.dev) /\ Bounded(c.attr)
  BY DEF Within
<1>1. DOMAIN c.attr = {"freq", "rate", "bw", "gain", "ifGain", "adjustable", "warp"} /\ x \in DOMAIN c.attr
  BY <1>0 DEF IsConfig, Attributes, Settings
<1>2. CASE ~c.isOpen
  <2> DEFINE a == [c.attr EXCEPT ![x] = value]
  <2>1. e = [c EXCEPT !.attr = a, !.success = TRUE]
    BY <1>2 DEF Apply
  <2>2. Bounded(a)
    OBVIOUS
  <2> HIDE DEF a
  <2>3. /\ IsConfig(e) /\ e.attr = a /\ e.dev = c.dev /\ e.isOpen = c.isOpen /\ e.enabled = c.enabled
        /\ e.reset = c.reset
    BY <1>0, <2>1, <2>2 DEF IsConfig, Bounded
  <2> QED  BY <1>0, <1>2, <2>2, <2>3 DEF Moved, Within
<1>3. CASE c.isOpen
  <2> DEFINE note == IF u.ok THEN value ELSE c.attr[x]
             a == [c.attr EXCEPT ![x] = note]
             ok == u.ok
             tuned == IF u.ok /\ x = "freq" THEN c.attr.rate ELSE c.tunedAt
             unsure == StillUnsure(c, u, x, bad)
             reset == StillReset(c, u, x, bad)
  <2>1. e = [c EXCEPT !.dev = u, !.success = ok, !.attr = a, !.tunedAt = tuned, !.unsure = unsure,
                      !.reset = reset]
    BY <1>0, <1>1, <1>3 DEF Apply, IsConfig
  <2>2. Bounded(a)
    <3>1. [c.attr EXCEPT ![x] = c.attr[x]] = c.attr
      BY <1>0 DEF Bounded, Attributes
    <3> QED  BY <1>0, <3>1
  <2>3. unsure \subseteq Settings /\ reset \subseteq TunerSettings
    BY <1>0, UnsureIs DEF IsConfig
  <2>3a. u.kind # "R820T" => reset = {}
    BY DEF Within, Ready, StillReset
  <2>4. /\ bad = {} /\ u.ok
             => c.unsure \ {x} \subseteq unsure /\ c.reset \ {x} \subseteq reset
        /\ ~(bad = {} /\ u.ok) => /\ c.unsure \subseteq unsure /\ c.reset \subseteq reset
                                  /\ Disturbs(x, c.dev, u) \subseteq unsure
    BY DEF StillUnsure, StillReset
  <2>4a. Wiped(c.dev, u) \subseteq unsure \cup reset
    BY WipedIsNoted
  <2>4b. /\ u # [c.dev EXCEPT !.ok = FALSE] => Disturbs(x, c.dev, u) = Touches[x]
         /\ u = [c.dev EXCEPT !.ok = FALSE] => Disturbs(x, c.dev, u) = {x}
    BY DEF Disturbs
  <2>5. /\ a[x] = note /\ \A s \in Settings \ {x, "input"} : a[s] = c.attr[s]
    BY <1>1 DEF Settings
  <2>5a. u.ok => note = value
    OBVIOUS
  <2>6. (x = "freq" /\ u.ok => tuned = c.attr.rate) /\ (x # "freq" => tuned = c.tunedAt)
    OBVIOUS
  <2>7. x \in Touches[x]
    BY TouchesAre DEF Settings
  <2> HIDE DEF a, tuned, unsure, reset, note, ok
  <2>8. /\ IsConfig(e) /\ e.attr = a /\ e.dev = u /\ e.isOpen = c.isOpen /\ e.enabled = c.enabled
        /\ e.unsure = unsure /\ e.reset = reset /\ e.tunedAt = tuned
    BY <1>0, <2>1, <2>2, <2>3 DEF IsConfig, Bounded, Ready, Chipped
  <2>9. Holds(e, x)
    <3>1. CASE bad = {} /\ u.ok /\ x \notin Wiped(c.dev, u)
      <4>1. a[x] = value /\ (x = "freq" => tuned = c.attr.rate)
        BY <2>5, <2>5a, <2>6, <3>1
      <4>2. AppliedTo(x, a, tuned, u)
        BY <3>1, <4>1 DEF Establishes
      <4> QED  BY <2>8, <4>2 DEF Holds
    <3>2. CASE ~(bad = {} /\ u.ok)
      BY <2>4, <2>4b, <2>7, <2>8, <3>2 DEF Holds
    <3>3. CASE x \in Wiped(c.dev, u)
      BY <2>4a, <2>8, <3>3 DEF Holds
    <3> QED  BY <3>1, <3>2, <3>3
  <2>10. ASSUME NEW s \in Settings \ {x}, Holds(c, s)
         PROVE  Holds(e, s)
    <3>1. CASE s \in c.unsure \cup c.reset
      BY <2>4, <2>8, <3>1 DEF Holds
    <3>2. CASE s \in Wiped(c.dev, u) \/ (s \in Disturbs(x, c.dev, u) /\ ~(bad = {} /\ u.ok))
      BY <2>4, <2>4a, <2>8, <3>2 DEF Holds
    <3>3. CASE /\ s \notin c.unsure \cup c.reset /\ s \notin Wiped(c.dev, u)
               /\ s \notin Disturbs(x, c.dev, u) \/ (bad = {} /\ u.ok)
      <4>1. AppliedTo(s, c.attr, c.tunedAt, c.dev)
        BY <2>10, <3>3 DEF Holds
      <4>2. AppliedTo(s, c.attr, c.tunedAt, u)
        <5>1. CASE u = [c.dev EXCEPT !.ok = FALSE]
          BY <1>0, <4>1, <5>1, AppliedRefused DEF IsConfig
        <5>2. CASE u # [c.dev EXCEPT !.ok = FALSE]
          BY <2>4b, <3>3, <4>1, <5>2 DEF Carries
        <5> QED  BY <5>1, <5>2
      <4>3. (s # "input" => c.attr[s] = a[s]) /\ (s = "freq" => c.tunedAt = tuned)
        BY <2>5, <2>6
      <4>4. AppliedTo(s, a, tuned, u)
        BY <4>2, <4>3, AppliedSame
      <4> QED  BY <2>8, <4>4 DEF Holds
    <3> QED  BY <3>1, <3>2, <3>3
  <2> QED  BY <2>2, <2>3a, <2>8, <2>9, <2>10 DEF Moved, Within
<1> QED  BY <1>0, <1>2, <1>3 DEF IsConfig

\* What such a record is, in parts.
LEMMA WithinIs ==
    ASSUME NEW c, Within(c)
    PROVE  /\ IsConfig(c) /\ Ready(c.dev) /\ Chipped(c.dev)
           /\ \A khz \in Nat : khz <= 1700000 => Bounded([c.attr EXCEPT !.freq = khz])
           /\ \A khz \in Nat : khz <= 3200 => Bounded([c.attr EXCEPT !.rate = khz])
           /\ \A khz \in Nat : Bounded([c.attr EXCEPT !.bw = khz])
           /\ \A gain \in Nat : Bounded([c.attr EXCEPT !.gain = gain])
           /\ \A gain \in Nat : Bounded([c.attr EXCEPT !.ifGain = gain])
           /\ \A gain \in Nat : Bounded([c.attr EXCEPT !.adjustable = gain])
           /\ \A ppm \in Int : Bounded([c.attr EXCEPT !.warp = ppm])
BY DEF Within, Ready, Bounded, Attributes

\* setReceiveFrequency establishes its setting and undoes no other; on a V4
\* just opened it also establishes the antenna input.
LEMMA FrequencyMoved ==
    ASSUME NEW c, NEW khz \in Nat, khz <= 1700000, NEW bad, Within(c),
           NEW e, e = setReceiveFrequency(c, khz, bad)
    PROVE  /\ Moved(c, e, "freq", bad)
           /\ bad = {} /\ c.isOpen /\ (c.dev.kind = "V4" => InputAgrees(c.dev.t)) => Holds(e, "input")
<1> DEFINE d == c.dev
           sum == khz + c.attr.rate \div 4
           u == rtlsdr_set_center_freq(d, sum, bad)
<1>1. IsConfig(c) /\ Ready(d) /\ Bounded([c.attr EXCEPT !.freq = khz])
  BY WithinIs
<1>2. sum \in Tunable
  BY DEF Within, Bounded, Attributes, Tunable
<1>3. e = Apply(c, "freq", khz, u, bad)
  BY DEF setReceiveFrequency
<1>4. sum = khz + c.attr.rate \div 4
  OBVIOUS
<1> HIDE DEF sum
<1>5. /\ Ready(u) /\ Step({}, Switching, d, u)
      /\ u.freq # 0 /\ u.direct = d.direct => Step(Rest, Retuning, d, u)
      /\ bad = {} /\ u.ok => u.freq = sum
      /\ bad = {} /\ u.freq # 0 /\ d.kind = "V4" /\ InputAgrees(d.t) => Follows(u.t, u.freq)
      /\ bad = {} /\ d.kind = "R820T" /\ Fits(d) => Fits(u)
  BY <1>1, <1>2, TuneOutcome
<1> HIDE DEF u
<1>6. u.kind = d.kind /\ Chipped(u)
  BY <1>5, StepTrans
<1>7. Carries("freq", d, u, bad)
  BY <1>1, <1>5, TuneCarries
<1>8. Establishes("freq", khz, d, u, bad, c.attr.rate)
  BY <1>4, <1>5, AppliedIs DEF Establishes
<1>9. Moved(c, e, "freq", bad)
  BY <1>1, <1>3, <1>5, <1>6, <1>7, <1>8, ApplyMoved DEF Settings
<1>10. ASSUME bad = {}, c.isOpen, d.kind = "V4" => InputAgrees(d.t)
       PROVE  Holds(e, "input")
  <2>1. /\ e.dev = u /\ e.unsure = StillUnsure(c, u, "freq", bad)
        /\ e.reset = StillReset(c, u, "freq", bad)
        /\ e.attr = [c.attr EXCEPT !["freq"] = IF u.ok THEN khz ELSE @]
    BY <1>1, <1>3, <1>10 DEF Apply, IsConfig
  <2>2. CASE "input" \notin Wiped(d, u)
    <3>1. u.freq # 0
      BY <2>2, WipedIs
    <3>2. InputSet(u)
      BY <1>5, <1>6, <1>10, <3>1 DEF InputSet
    <3> QED  BY <2>1, <3>2, AppliedIs DEF Holds
  <2>3. CASE "input" \in Wiped(d, u)
    <3>1. "input" \in e.unsure \cup e.reset
      BY <2>1, <2>3, WipedIsNoted
    <3> QED  BY <3>1 DEF Holds
  <2> QED  BY <2>2, <2>3
<1> QED  BY <1>9, <1>10

\* The outcome of a rate alone.
LEMMA RateSettles ==
    ASSUME NEW d, NEW khz \in Nat, NEW bad, Ready(d)
    PROVE  Outcome(Rest \ {"bw"}, {"rate", "ratio", "sro"}, d, rtlsdr_set_sample_rate(d, khz, bad), bad)
BY SetRateOutcome, Zenon

\* setReceiveSampleRate establishes its setting and undoes no other.
LEMMA RateMoved ==
    ASSUME NEW c, NEW khz \in Nat, khz <= 3200, NEW bad, Within(c),
           NEW e, e = setReceiveSampleRate(c, khz, bad)
    PROVE  Moved(c, e, "rate", bad)
<1> DEFINE d == c.dev
           u == rtlsdr_set_sample_rate(d, khz, bad)
<1>1. IsConfig(c) /\ Ready(d) /\ Bounded([c.attr EXCEPT !.rate = khz])
  BY WithinIs
<1>3. e = Apply(c, "rate", khz, u, bad)
  BY DEF setReceiveSampleRate
<1>5. /\ Outcome(Rest \ {"bw"}, {"rate", "ratio", "sro"}, d, u, bad)
      /\ u.ok => /\ Width(d, u, WantedBw(u), bad)
                 /\ bad = {} => u.rate = khz /\ u.ratio = khz /\ u.sro = ResamplerOffset(d.corr)
  <2>1. Outcome(Rest \ {"bw"}, {"rate", "ratio", "sro"}, d, u, bad)
    <3>1. Ready(d)
      BY <1>1
    <3> HIDE DEF d
    <3> QED  BY <3>1, RateSettles
  <2>2. u.ok => Width(d, u, WantedBw(u), bad)
    BY <1>1, SetRateOutcome
  <2>3. u.ok /\ bad = {} => u.rate = khz /\ u.ratio = khz /\ u.sro = ResamplerOffset(d.corr)
    BY <1>1, SetRateOutcome
  <2> HIDE DEF u
  <2> QED  BY <2>1, <2>2, <2>3
<1> HIDE DEF u
<1>6. u.kind = d.kind /\ Ready(u) /\ (bad = {} /\ d.kind = "R820T" /\ Fits(d) => Fits(u))
  BY <1>5, StepTrans DEF Outcome
<1>7. Carries("rate", d, u, bad)
  BY <1>1, <1>5, RateCarries
<1>8. Establishes("rate", khz, d, u, bad, c.attr.rate)
  BY <1>5, AppliedIs DEF Establishes, RateSet
<1> QED  BY <1>1, <1>3, <1>6, <1>7, <1>8, ApplyMoved DEF Settings

\* setReceiveBandwidth does.
LEMMA BandwidthMoved ==
    ASSUME NEW c, NEW khz \in Nat, NEW bad, Within(c), NEW e, e = setReceiveBandwidth(c, khz, bad)
    PROVE  Moved(c, e, "bw", bad)
<1> DEFINE d == c.dev
           u == rtlsdr_set_tuner_bandwidth(d, khz, bad)
<1>1. IsConfig(c) /\ Ready(d) /\ Bounded([c.attr EXCEPT !.bw = khz])
  BY WithinIs
<1>3. e = Apply(c, "bw", khz, u, bad)
  BY DEF setReceiveBandwidth
<1>5. /\ Outcome(Rest \ {"bw"}, {"bw"}, d, u, bad)
      /\ u.ok => u.bw = khz /\ Width(d, u, WantedBw(u), bad)
  BY <1>1, SetBandwidthOutcome
<1> HIDE DEF u
<1>6. u.kind = d.kind /\ Ready(u) /\ (bad = {} /\ d.kind = "R820T" /\ Fits(d) => Fits(u))
  BY <1>5, StepTrans DEF Outcome
<1>7. Carries("bw", d, u, bad)
  BY <1>1, <1>5, BandwidthCarries
<1>8. Establishes("bw", khz, d, u, bad, c.attr.rate)
  <2>1. bad = {} /\ u.ok /\ "bw" \notin Wiped(d, u) => BandwidthSet(u, khz)
    BY <1>5, <1>6, WipedIs DEF BandwidthSet, Width
  <2> QED  BY <2>1, AppliedIs DEF Establishes
<1> QED  BY <1>1, <1>3, <1>6, <1>7, <1>8, ApplyMoved DEF Settings

\* setReceiveWarpInPartsPerMillion does.
LEMMA WarpMoved ==
    ASSUME NEW c, NEW ppm \in Int, NEW bad, Within(c),
           NEW e, e = setReceiveWarpInPartsPerMillion(c, ppm, bad)
    PROVE  Moved(c, e, "warp", bad)
<1> DEFINE d == c.dev
           u == verbose_ppm_set(d, ppm, bad)
<1>1. IsConfig(c) /\ Ready(d) /\ Bounded([c.attr EXCEPT !.warp = ppm])
  BY WithinIs
<1>3. e = Apply(c, "warp", ppm, u, bad)
  BY DEF setReceiveWarpInPartsPerMillion
<1>5. /\ Outcome(Rest, {"corr", "sro"}, d, u, bad)
      /\ ppm # 0 /\ u.ok => u.corr = ppm /\ (bad = {} => u.sro = ResamplerOffset(ppm))
  <2>1. Outcome(Rest, {"corr", "sro"}, d, u, bad)
    BY <1>1, WarpOutcome
  <2>2. ppm # 0 /\ u.ok => u.corr = ppm
    BY <1>1, WarpOutcome
  <2>3. ppm # 0 /\ u.ok /\ bad = {} => u.sro = ResamplerOffset(ppm)
    BY <1>1, WarpOutcome
  <2> HIDE DEF u
  <2> QED  BY <2>1, <2>2, <2>3
<1> HIDE DEF u
<1>6. u.kind = d.kind /\ Ready(u) /\ (bad = {} /\ d.kind = "R820T" /\ Fits(d) => Fits(u))
  BY <1>5, StepTrans DEF Outcome
<1>7. Carries("warp", d, u, bad)
  BY <1>1, <1>5, WarpCarries
<1>8. Establishes("warp", ppm, d, u, bad, c.attr.rate)
  BY <1>5, AppliedIs DEF Establishes, WarpSet
<1> QED  BY <1>1, <1>3, <1>6, <1>7, <1>8, ApplyMoved DEF Settings

\* What quiet steps keep of a device that is ready.
LEMMA QuietFits ==
    ASSUME NEW V, NEW d, NEW u, Quiet(V, {}), Step(V, {}, d, u), Ready(d)
    PROVE  Ready(u) /\ u.kind = d.kind /\ (d.kind = "R820T" /\ Fits(d) => Fits(u))
BY QuietIs

\* setReceiveGainInDb does.
LEMMA GainMoved ==
    ASSUME NEW c, NEW gain \in Nat, NEW bad, Within(c), NEW e, e = setReceiveGainInDb(c, gain, bad)
    PROVE  Moved(c, e, "gain", bad)
<1> DEFINE d == c.dev
           u == Gained(d, gain, bad)
<1>1. IsConfig(c) /\ Ready(d) /\ Chipped(d) /\ Bounded([c.attr EXCEPT !.gain = gain])
  BY WithinIs
<1>3. e = Apply(c, "gain", gain, u, bad)
  BY DEF setReceiveGainInDb, Gained
<1>5. /\ Step(Louder, {}, d, u)
      /\ bad = {} => GainSet(u, gain) /\ (Rafael(d.kind) => GainAgrees(u.t))
  BY <1>1, GainOutcome
<1> HIDE DEF u
<1>6. Ready(u) /\ u.kind = d.kind /\ (d.kind = "R820T" /\ Fits(d) => Fits(u))
  <2>1. Quiet(Louder, {})
    BY DEF Quiet, Louder, All
  <2> QED  BY <1>1, <1>5, <2>1, QuietFits
<1>7. Carries("gain", d, u, bad)
  BY <1>1, <1>5, GainCarries
<1>8. Establishes("gain", gain, d, u, bad, c.attr.rate)
  BY <1>5, <1>6, AppliedIs DEF Establishes, GainKnown
<1> QED  BY <1>1, <1>3, <1>6, <1>7, <1>8, ApplyMoved DEF Settings

\* setReceiveIfGainInDb does.
LEMMA IfGainMoved ==
    ASSUME NEW c, NEW stage, NEW gain \in Nat, NEW bad, Within(c),
           NEW e, e = setReceiveIfGainInDb(c, stage, gain, bad)
    PROVE  Moved(c, e, "ifGain", bad)
<1> DEFINE d == c.dev
           V == All \ {"ifGain"}
           u == rtlsdr_set_tuner_if_gain(d, stage, 10 * gain, bad)
           n == Apply(c, "ifGain", gain, u, bad)
<1>1. IsConfig(c) /\ Ready(d) /\ Chipped(d) /\ Bounded([c.attr EXCEPT !.ifGain = gain])
  BY WithinIs
<1>3. e = [n EXCEPT !.attr.adjustable = IF n.success THEN gain ELSE @]
  BY DEF setReceiveIfGainInDb
<1>5. Step(V, {}, d, u) /\ (bad = {} => IfGainSet(u, gain))
  BY <1>1, IfGainOutcome
<1> HIDE DEF u
<1>6. Ready(u) /\ u.kind = d.kind /\ (d.kind = "R820T" /\ Fits(d) => Fits(u))
  <2>1. Quiet(V, {})
    BY DEF Quiet, All
  <2> HIDE DEF V
  <2> QED  BY <1>1, <1>5, <2>1, QuietFits
<1>7. Carries("ifGain", d, u, bad)
  BY <1>1, <1>5, IfGainCarries
<1>8. Establishes("ifGain", gain, d, u, bad, c.attr.rate)
  BY <1>5, AppliedIs DEF Establishes
<1>9. Moved(c, n, "ifGain", bad)
  BY <1>1, <1>6, <1>7, <1>8, ApplyMoved DEF Settings
<1> HIDE DEF n
<1> DEFINE level == IF n.success THEN gain ELSE n.attr.adjustable
           a == [n.attr EXCEPT !.adjustable = level]
<1>10. IsConfig(n) /\ n.attr \in Attributes /\ Bounded(n.attr) /\ Ready(n.dev)
  BY <1>9 DEF Moved, Within, IsConfig
<1>11. e = [n EXCEPT !.attr = a]
  BY <1>3, <1>10 DEF IsConfig, Attributes
<1>12. Bounded(a) /\ \A s \in Settings \ {"input"} : a[s] = n.attr[s]
  BY <1>10 DEF Bounded, Attributes, Settings
<1> HIDE DEF a
<1>13. /\ IsConfig(e) /\ e.attr = a /\ e.dev = n.dev /\ e.isOpen = n.isOpen /\ e.enabled = n.enabled
       /\ e.unsure = n.unsure /\ e.reset = n.reset /\ e.tunedAt = n.tunedAt
  BY <1>10, <1>11, <1>12 DEF IsConfig, Bounded
<1>14. \A s \in Settings : Holds(n, s) => Holds(e, s)
  <2> SUFFICES ASSUME NEW s \in Settings, Holds(n, s) PROVE Holds(e, s)
    OBVIOUS
  <2>1. CASE s \in n.unsure \cup n.reset
    BY <1>13, <2>1 DEF Holds
  <2>2. CASE s \notin n.unsure \cup n.reset
    <3>1. AppliedTo(s, n.attr, n.tunedAt, n.dev)
      BY <2>2 DEF Holds
    <3>2. AppliedTo(s, a, n.tunedAt, n.dev)
      BY <1>12, <3>1, AppliedSame
    <3> QED  BY <1>13, <3>2 DEF Holds
  <2> QED  BY <2>1, <2>2
<1> QED  BY <1>9, <1>12, <1>13, <1>14 DEF Moved, Within, Settings

(****************************************************************************)
(* Start, stop, and the end of a call.                                      *)
(****************************************************************************)

\* A step that leaves all alone keeps every setting applied.
LEMMA StillApplied ==
    ASSUME NEW d, NEW u, Chipped(d), Step(All, {}, d, u)
    PROVE  \A s \in Settings : \A a, tuned : AppliedTo(s, a, tuned, d) => AppliedTo(s, a, tuned, u)
<1>1. Quiet(All, {}) /\ "bw" \in All /\ "gain" \in All /\ "ifGain" \in All
  BY DEF Quiet, All
<1>2. u.freq = d.freq /\ u.direct = d.direct
  BY DEF Step, Only, Kept
<1>3. /\ \A khz : RateSet(d, khz) => RateSet(u, khz)
      /\ \A ppm : WarpSet(d, ppm) => WarpSet(u, ppm)
  BY StepKeepsNotes
<1>4. \A bw : BandwidthSet(d, bw) => BandwidthSet(u, bw)
  BY <1>1, <1>2, StepKeepsBandwidth
<1>5. \A gain : GainKnown(d, gain) => GainKnown(u, gain)
  BY <1>1, StepKeepsGain
<1>6. \A gain : IfGainSet(d, gain) => IfGainSet(u, gain)
  BY <1>1, StepKeepsIfGain
<1>7. InputSet(d) => InputSet(u)
  BY <1>1, QuietKeepsInput
<1> SUFFICES ASSUME NEW s \in Settings, NEW a, NEW tuned, AppliedTo(s, a, tuned, d)
             PROVE  AppliedTo(s, a, tuned, u)
  OBVIOUS
<1>8. CASE s \in {"freq", "rate", "warp"}
  BY <1>2, <1>3, <1>8, AppliedIs
<1>9. CASE s \in {"bw", "gain", "ifGain", "input"}
  BY <1>4, <1>5, <1>6, <1>7, <1>9, AppliedIs
<1> QED  BY <1>8, <1>9 DEF Settings

\* Forgetting the outcomes is such a step.
LEMMA SettledDevice ==
    ASSUME NEW d, Ready(d), NEW e, e = [d EXCEPT !.ok = TRUE, !.t.ok = TRUE]
    PROVE  Step(All, {}, d, e) /\ Ready(e)
<1> DEFINE t == [d.t EXCEPT !.ok = TRUE]
<1>1. Chipped(d) /\ Fine(d) /\ IsChip(d.kind, d.t)
  BY DEF Ready, Chipped
<1>2. e = [d EXCEPT !.ok = TRUE, !.t = t]
  BY <1>1 DEF Fine, DeviceFields
<1>3. Rafael(d.kind) => IsR82xx(d.t)
  BY <1>1 DEF IsChip
<1>4. Rafael(d.kind) => Leaves(All, d.t, t)
  <2> SUFFICES ASSUME Rafael(d.kind) PROVE Leaves(All, d.t, t)
    OBVIOUS
  <2>1. /\ DOMAIN t = DOMAIN d.t /\ t.shadow = d.t.shadow /\ t.chip = d.t.chip /\ t.intFreq = d.t.intFreq
        /\ t.input = d.t.input /\ t.hasLock = d.t.hasLock /\ t.initDone = d.t.initDone /\ t.xtal = d.t.xtal
    BY <1>3 DEF IsR82xx
  <2> HIDE DEF t
  <2>2. IsR82xx(t)
    BY <1>3, <2>1 DEF IsR82xx
  <2> QED  BY <2>1, <2>2 DEF Leaves, GainKept, GainAgrees, InputKept, InputAgrees, FilterKept, VgaKept,
                             LockKept, AwakeKept, AwakeAgrees
<1>5. ChipKept(d.kind, All, d.t, t)
  <2>1. d.kind \in {"FC0012", "FC0013"} => DOMAIN t = DOMAIN d.t /\ t.lna = d.t.lna
    BY <1>1 DEF IsChip, F!fc0012_regs, F!fc0013_regs
  <2>2. d.kind = "FC0013" => t.manual = d.t.manual
    BY <1>1 DEF IsChip, F!fc0013_regs
  <2> HIDE DEF t
  <2>3. IsChip(d.kind, t)
    BY <1>1, <1>4, <2>1 DEF IsChip, Leaves
  <2> QED  BY <1>4, <2>1, <2>2, <2>3 DEF ChipKept
<1> HIDE DEF t
<1>6. Same(d, e) /\ e.t = t /\ \A f \in Kept : e[f] = d[f]
  BY <1>1, <1>2 DEF Same, Fine, DeviceFields, Kept
<1>7. Step(All, {}, d, e)
  BY <1>5, <1>6 DEF Step, Only
<1>8. Quiet(All, {})
  BY DEF Quiet, All
<1> QED  BY <1>7, <1>8, QuietIs

\* These settings hold.
Done(c, S) == \A s \in S : Holds(c, s)

\* The end of a call undoes nothing.
LEMMA SettledMoved ==
    ASSUME NEW c, Within(c), NEW e, e = Settled(c)
    PROVE  /\ Within(e) /\ e.isOpen = c.isOpen /\ e.enabled = c.enabled /\ e.dev.kind = c.dev.kind
           /\ Done(c, Settings) => Done(e, Settings)
           /\ c.dev.kind = "R820T" /\ Fits(c.dev) => Fits(e.dev)
<1> DEFINE d == c.dev
           u == [d EXCEPT !.ok = TRUE, !.t.ok = TRUE]
<1>1. IsConfig(c) /\ Bounded(c.attr) /\ Ready(d) /\ Chipped(d)
  BY DEF Within, Ready
<1>2. e = [c EXCEPT !.success = TRUE, !.dev = u]
  BY <1>1 DEF Settled, IsConfig, Fine, DeviceFields
<1>3. Step(All, {}, d, u) /\ Ready(u)
  BY <1>1, SettledDevice
<1> HIDE DEF u, d
<1>4. Quiet(All, {}) /\ u.kind = d.kind /\ (d.kind = "R820T" /\ Fits(d) => Fits(u))
  <2>1. Quiet(All, {})
    BY DEF Quiet, All
  <2> QED  BY <1>3, <2>1, QuietIs
<1>5. /\ e.attr = c.attr /\ e.dev = u /\ e.isOpen = c.isOpen /\ e.enabled = c.enabled
      /\ e.unsure = c.unsure /\ e.reset = c.reset /\ e.tunedAt = c.tunedAt /\ IsConfig(e)
  <2>1. Fine(u)
    BY <1>3 DEF Ready, Chipped
  <2> QED  BY <1>1, <1>2, <2>1 DEF IsConfig
<1>6. Done(c, Settings) => Done(e, Settings)
  BY <1>1, <1>3, <1>5, StillApplied DEF Done, Holds, d
<1> QED  BY <1>1, <1>3, <1>4, <1>5, <1>6 DEF Within, d

\* Collecting outcomes undoes nothing.
LEMMA MovedAlso ==
    ASSUME NEW c, NEW n, NEW x \in Settings, NEW bad, Moved(c, n, x, bad),
           NEW v, NEW e, e = [n EXCEPT !.success = v]
    PROVE  Moved(c, e, x, bad) /\ \A s : Holds(n, s) => Holds(e, s)
<1>1. IsConfig(n)
  BY DEF Moved, Within
<1>2. /\ e.attr = n.attr /\ e.dev = n.dev /\ e.isOpen = n.isOpen /\ e.enabled = n.enabled
      /\ e.unsure = n.unsure /\ e.reset = n.reset /\ e.tunedAt = n.tunedAt /\ IsConfig(e)
  BY <1>1 DEF IsConfig
<1>3. \A s : Holds(n, s) => Holds(e, s)
  BY <1>2 DEF Holds
<1>4. Within(e)
  BY <1>2 DEF Moved, Within
<1> QED  BY <1>2, <1>3, <1>4 DEF Moved

\* The settings with a set function of their own.
Applicable == {"freq", "rate", "bw", "gain", "ifGain", "warp"}

\* Applying what is noted establishes it.
LEMMA AttributeMoved ==
    ASSUME NEW c, NEW x \in Applicable, NEW bad, Within(c), NEW e, e = setAttribute(c, x, bad)
    PROVE  /\ Moved(c, e, x, bad)
           /\ x = "freq" /\ bad = {} /\ c.isOpen /\ (c.dev.kind = "V4" => InputAgrees(c.dev.t))
                => Holds(e, "input")
<1>1. /\ c.attr.freq \in Nat /\ c.attr.rate \in Nat /\ c.attr.bw \in Nat
      /\ c.attr.ifGain \in Nat /\ c.attr.gain \in Nat /\ c.attr.warp \in Int
      /\ c.attr.freq <= 1700000 /\ c.attr.rate <= 3200
  BY DEF Within, Bounded, Attributes
<1>2. CASE x = "freq"
  <2>1. e = setReceiveFrequency(c, c.attr.freq, bad)
    BY <1>2 DEF setAttribute
  <2> QED  BY <1>1, <1>2, <2>1, FrequencyMoved
<1>3. CASE x = "rate"
  <2>1. e = setReceiveSampleRate(c, c.attr.rate, bad)
    BY <1>3 DEF setAttribute
  <2> QED  BY <1>1, <1>3, <2>1, RateMoved
<1>4. CASE x = "bw"
  <2>1. e = setReceiveBandwidth(c, c.attr.bw, bad)
    BY <1>4 DEF setAttribute
  <2> QED  BY <1>1, <1>4, <2>1, BandwidthMoved
<1>5. CASE x = "gain"
  <2>1. e = setReceiveGainInDb(c, c.attr.gain, bad)
    BY <1>5 DEF setAttribute
  <2> QED  BY <1>1, <1>5, <2>1, GainMoved
<1>6. CASE x = "ifGain"
  <2>1. e = setReceiveIfGainInDb(c, 0, c.attr.ifGain, bad)
    BY <1>6 DEF setAttribute
  <2> QED  BY <1>1, <1>6, <2>1, IfGainMoved
<1>7. CASE x = "warp"
  <2>1. e = setReceiveWarpInPartsPerMillion(c, c.attr.warp, bad)
    BY <1>7 DEF setAttribute
  <2> QED  BY <1>1, <1>7, <2>1, WarpMoved
<1> QED  BY <1>2, <1>3, <1>4, <1>5, <1>6, <1>7 DEF Applicable

\* So does applying it after another.
LEMMA AlsoMoved ==
    ASSUME NEW c, NEW x \in Applicable, NEW bad, Within(c)
    PROVE  Moved(c, AlsoApplied(c, x, bad), x, bad)
<1> DEFINE n == setAttribute(c, x, bad)
           v == n.success /\ c.success
<1>1. AlsoApplied(c, x, bad) = [n EXCEPT !.success = v]
  BY DEF AlsoApplied, With
<1>2. Moved(c, n, x, bad)
  BY AttributeMoved
<1>3. x \in Settings
  BY DEF Applicable, Settings
<1> HIDE DEF n, v
<1>4. ASSUME NEW e, e = [n EXCEPT !.success = v]
      PROVE  Moved(c, e, x, bad)
  BY <1>2, <1>3, <1>4, MovedAlso
<1> QED  BY <1>1, <1>4

\* A sequence of set functions, of which S hold now.
Chain(c, e, S, bad) ==
    /\ Within(e) /\ e.isOpen = c.isOpen /\ e.enabled = c.enabled /\ e.dev.kind = c.dev.kind
    /\ c.isOpen => Done(e, S)
    /\ bad = {} /\ c.isOpen /\ c.dev.kind = "R820T" /\ Fits(c.dev) => Fits(e.dev)

\* One more.
LEMMA ChainGrows ==
    ASSUME NEW c, NEW n, NEW S, S \subseteq Settings, NEW bad, Chain(c, n, S, bad),
           NEW x \in Applicable, NEW e, e = AlsoApplied(n, x, bad)
    PROVE  Chain(c, e, S \cup {x}, bad)
<1>1. Moved(n, e, x, bad)
  BY AlsoMoved DEF Chain
<1>2. n.isOpen => Holds(e, x) /\ \A s \in Settings \ {x} : Holds(n, s) => Holds(e, s)
  BY <1>1 DEF Moved
<1>3. c.isOpen => Done(e, S \cup {x})
  BY <1>2 DEF Chain, Done
<1> QED  BY <1>1, <1>3 DEF Chain, Moved

\* After a start's six set functions all settings hold: a later one does not
\* undo an earlier one, and the antenna input comes with the frequency.
LEMMA AllAppliedChain ==
    ASSUME NEW c, NEW bad, Within(c),
           bad = {} /\ c.isOpen /\ c.dev.kind = "V4" => InputAgrees(c.dev.t),
           bad # {} /\ c.isOpen => Done(c, Settings)
    PROVE  Chain(c, AllApplied(c, bad), Settings, bad)
<1> DEFINE c1 == setAttribute(c, "freq", bad)
           c2 == AlsoApplied(c1, "rate", bad)
           c3 == AlsoApplied(c2, "bw", bad)
           c4 == AlsoApplied(c3, "ifGain", bad)
           c5 == AlsoApplied(c4, "gain", bad)
           c6 == AlsoApplied(c5, "warp", bad)
           S1 == {"freq", "input"}
           S2 == S1 \cup {"rate"}
           S3 == S2 \cup {"bw"}
           S4 == S3 \cup {"ifGain"}
           S5 == S4 \cup {"gain"}
           S6 == S5 \cup {"warp"}
<1>0. /\ {"freq", "rate", "bw", "ifGain", "gain", "warp"} \subseteq Applicable
      /\ S1 \subseteq Settings /\ S2 \subseteq Settings /\ S3 \subseteq Settings /\ S4 \subseteq Settings
      /\ S5 \subseteq Settings /\ S6 = Settings
  BY DEF Applicable, Settings
<1>1. Chain(c, c1, S1, bad)
  <2>1. /\ Moved(c, c1, "freq", bad)
        /\ bad = {} /\ c.isOpen /\ (c.dev.kind = "V4" => InputAgrees(c.dev.t)) => Holds(c1, "input")
    BY <1>0, AttributeMoved
  <2> HIDE DEF c1
  <2>2. c.isOpen => Holds(c1, "freq") /\ Holds(c1, "input")
    BY <2>1 DEF Moved, Done, Settings
  <2> QED  BY <2>1, <2>2 DEF Chain, Moved, Done
<1> HIDE DEF c1, S1
<1>2. Chain(c, c2, S2, bad)  BY <1>0, <1>1, ChainGrows
<1> HIDE DEF c2, S2
<1>3. Chain(c, c3, S3, bad)  BY <1>0, <1>2, ChainGrows
<1> HIDE DEF c3, S3
<1>4. Chain(c, c4, S4, bad)  BY <1>0, <1>3, ChainGrows
<1> HIDE DEF c4, S4
<1>5. Chain(c, c5, S5, bad)  BY <1>0, <1>4, ChainGrows
<1> HIDE DEF c5, S5
<1>6. Chain(c, c6, S6, bad)  BY <1>0, <1>5, ChainGrows
<1>7. c6 = AllApplied(c, bad)
  BY AllAppliedIs DEF c1, c2, c3, c4, c5
<1> QED  BY <1>0, <1>6, <1>7

\* While a device is open every setting holds.
Sound(c) == Within(c) /\ (c.isOpen => c.enabled /\ Done(c, Settings))

\* What a call of Radio leaves.
Answers(c, e, bad) ==
    /\ Sound(e) /\ e.dev.kind = c.dev.kind
    /\ bad = {} /\ e.isOpen /\ e.dev.kind = "R820T" /\ (c.isOpen => Fits(c.dev)) => Fits(e.dev)

\* A set function leaves the settings so.
LEMMA MovedAnswers ==
    ASSUME NEW c, NEW e, NEW x \in Settings, NEW bad, Sound(c), Moved(c, e, x, bad)
    PROVE  Answers(c, e, bad)
<1>1. c.isOpen => Done(e, Settings)
  BY DEF Sound, Moved, Done
<1> QED  BY <1>1 DEF Sound, Moved, Answers

\* A device just opened: nothing holds yet, or everything is unsure.
LEMMA OpenedSound ==
    ASSUME NEW c, NEW bad, Within(c), ~c.isOpen, NEW n, n = Opened(c, bad)
    PROVE  /\ Within(n) /\ n.enabled = c.enabled /\ n.dev.kind = c.dev.kind
           /\ bad = {} /\ n.isOpen /\ n.dev.kind = "V4" => InputAgrees(n.dev.t)
           /\ bad = {} /\ n.isOpen /\ n.dev.kind = "R820T" => Fits(n.dev)
           /\ bad # {} /\ n.isOpen => Done(n, Settings)
<1>1. IsConfig(c) /\ Bounded(c.attr) /\ Ready(c.dev) /\ Chipped(c.dev)
  BY DEF Within, Ready
<1>2. CASE ~GivesDevice(bad)
  BY <1>2 DEF Opened
<1>3. CASE GivesDevice(bad)
  <2> DEFINE d == rtlsdr_open(c.dev.kind, c.dev.t, bad)
             unsure == IF bad = {} THEN {} ELSE Settings
  <2>1. n = [c EXCEPT !.dev = d, !.isOpen = TRUE, !.unsure = unsure, !.reset = {}]
    BY <1>3 DEF Opened
  <2>2. c.dev.kind \in Kinds /\ IsChip(c.dev.kind, c.dev.t)
    BY <1>1 DEF Chipped, Fine
  <2>3. /\ Ready(d) /\ d.kind = c.dev.kind
        /\ bad = {} /\ c.dev.kind = "R820T" => Fits(d)
        /\ bad = {} /\ c.dev.kind = "V4" => InputAgrees(d.t)
    BY <2>2, OpenIs
  <2>4. unsure \subseteq Settings /\ (bad # {} => unsure = Settings)
    OBVIOUS
  <2> HIDE DEF d, unsure
  <2>5. Fine(d)
    BY <2>3 DEF Ready, Chipped
  <2>6. /\ n.attr = c.attr /\ n.dev = d /\ n.enabled = c.enabled /\ n.unsure = unsure
        /\ n.reset = {} /\ IsConfig(n)
    BY <1>1, <2>1, <2>4, <2>5 DEF IsConfig
  <2> QED  BY <1>1, <2>3, <2>4, <2>6 DEF Within, Done, Holds
<1> QED  BY <1>2, <1>3

\* The device as a stop leaves it.
ClosedDev(c, bad) == IF c.isOpen THEN rtlsdr_close(c.dev, bad) ELSE c.dev

\* Without a device there is nothing to hold.
LEMMA ClosedSound ==
    ASSUME NEW c, NEW bad, Within(c), NEW on \in BOOLEAN,
           NEW e, e = [c EXCEPT !.dev = ClosedDev(c, bad), !.isOpen = FALSE, !.enabled = on]
    PROVE  Sound(e) /\ e.dev.kind = c.dev.kind /\ ~e.isOpen
<1> DEFINE d == ClosedDev(c, bad)
<1>1. IsConfig(c) /\ Bounded(c.attr) /\ Ready(c.dev) /\ Chipped(c.dev)
  BY DEF Within, Ready
<1>2. Ready(d) /\ d.kind = c.dev.kind
  BY <1>1, CloseIs DEF ClosedDev
<1>3. e = [c EXCEPT !.dev = d, !.isOpen = FALSE, !.enabled = on]
  BY <1>1 DEF IsConfig
<1> HIDE DEF d
<1>4. Fine(d)
  BY <1>2 DEF Ready, Chipped
<1>5. e.attr = c.attr /\ e.dev = d /\ ~e.isOpen /\ e.reset = c.reset /\ IsConfig(e)
  BY <1>1, <1>3, <1>4 DEF IsConfig
<1> QED  BY <1>1, <1>2, <1>5 DEF Within, Sound

\* stopReceiver leaves the settings so.
LEMMA StopAnswers ==
    ASSUME NEW c, NEW bad, Sound(c)
    PROVE  Answers(c, stopReceiver(c, bad), bad)
<1>1. CASE ~c.enabled
  BY <1>1 DEF stopReceiver, Answers, Sound
<1>2. CASE c.enabled
  <2>1. PICK on \in BOOLEAN : on = FALSE
    OBVIOUS
  <2> DEFINE e == stopReceiver(c, bad)
  <2>0. IsConfig(c)
    BY DEF Sound, Within
  <2>2. e = [c EXCEPT !.dev = ClosedDev(c, bad), !.isOpen = FALSE, !.enabled = on]
    BY <1>2, <2>0, <2>1 DEF stopReceiver, ClosedDev, IsConfig
  <2> HIDE DEF e
  <2>3. Sound(e) /\ e.dev.kind = c.dev.kind /\ ~e.isOpen
    BY <2>2, ClosedSound DEF Sound
  <2> QED  BY <2>3 DEF Answers, e
<1> QED  BY <1>1, <1>2

\* A call that only reports changes nothing.
LEMMA OnlyOutcome ==
    ASSUME NEW c, Sound(c), NEW v, NEW bad, NEW e, e = [c EXCEPT !.success = v]
    PROVE  Answers(c, e, bad)
<1>1. IsConfig(c)
  BY DEF Sound, Within
<1>2. /\ e.attr = c.attr /\ e.dev = c.dev /\ e.isOpen = c.isOpen /\ e.enabled = c.enabled
      /\ e.unsure = c.unsure /\ e.reset = c.reset /\ e.tunedAt = c.tunedAt /\ IsConfig(e)
  BY <1>1 DEF IsConfig
<1> QED  BY <1>2 DEF Answers, Sound, Within, Done, Holds

\* startReceiver leaves the settings so, whether it had a device to open, opened it,
\* or closed it again.
LEMMA StartAnswers ==
    ASSUME NEW c, NEW bad, Sound(c)
    PROVE  Answers(c, startReceiver(c, bad), bad)
<1> DEFINE e == startReceiver(c, bad)
<1>1. CASE c.enabled
  <2>1. e = [c EXCEPT !.success = TRUE]
    BY <1>1 DEF startReceiver
  <2> HIDE DEF e
  <2> QED  BY <2>1, OnlyOutcome DEF e
<1>2. CASE ~c.enabled /\ (verbose_device_search(bad) < 0 \/ OpenError(bad) # 0)
  <2>1. e = [c EXCEPT !.success = FALSE]
    BY <1>2 DEF startReceiver
  <2> HIDE DEF e
  <2> QED  BY <2>1, OnlyOutcome DEF e
<1>3. CASE ~c.enabled /\ ~(verbose_device_search(bad) < 0 \/ OpenError(bad) # 0)
  <2> DEFINE n == Opened(c, bad)
             a == AllApplied(n, bad)
  <2>1. e = Started(a, bad)
    BY <1>3 DEF startReceiver
  <2>2. Within(c) /\ ~c.isOpen
    BY <1>3 DEF Sound
  <2>3. /\ Within(n) /\ n.enabled = c.enabled /\ n.dev.kind = c.dev.kind
        /\ bad = {} /\ n.isOpen /\ n.dev.kind = "V4" => InputAgrees(n.dev.t)
        /\ bad = {} /\ n.isOpen /\ n.dev.kind = "R820T" => Fits(n.dev)
        /\ bad # {} /\ n.isOpen => Done(n, Settings)
    BY <2>2, OpenedSound
  <2>4. Chain(n, a, Settings, bad)
    <3> HIDE DEF n
    <3> QED  BY <2>3, AllAppliedChain
  <2> HIDE DEF n, a, e
  <2>5. /\ Within(a) /\ a.dev.kind = c.dev.kind /\ (a.isOpen => Done(a, Settings))
        /\ bad = {} /\ a.isOpen /\ a.dev.kind = "R820T" => Fits(a.dev)
    BY <2>3, <2>4 DEF Chain
  <2>6. IsConfig(a)
    BY <2>5 DEF Within
  <2>7. CASE a.success
    <3>1. e = [a EXCEPT !.enabled = TRUE]
      BY <2>1, <2>7 DEF Started
    <3>2. /\ e.attr = a.attr /\ e.dev = a.dev /\ e.isOpen = a.isOpen /\ e.enabled
          /\ e.unsure = a.unsure /\ e.reset = a.reset /\ e.tunedAt = a.tunedAt /\ IsConfig(e)
      BY <2>6, <3>1 DEF IsConfig
    <3> QED  BY <2>5, <3>2 DEF Answers, Sound, Within, Done, Holds, e
  <2>8. CASE ~a.success
    <3>1. e = [a EXCEPT !.dev = IF a.isOpen THEN rtlsdr_close(@, bad) ELSE @, !.isOpen = FALSE]
      BY <2>1, <2>8 DEF Started
    <3>2. PICK on \in BOOLEAN : on = a.enabled
      BY <2>6 DEF IsConfig
    <3>3. e = [a EXCEPT !.dev = ClosedDev(a, bad), !.isOpen = FALSE, !.enabled = on]
      BY <2>6, <3>1, <3>2 DEF IsConfig, ClosedDev
    <3>4. Sound(e) /\ e.dev.kind = a.dev.kind /\ ~e.isOpen
      BY <2>5, <3>3, ClosedSound
    <3> QED  BY <2>5, <3>4 DEF Answers, e
  <2> QED  BY <2>7, <2>8
<1> QED  BY <1>1, <1>2, <1>3

\* The second invariant: every setting holds while a device is open, and while
\* no call has met a fault an R820T is in the mode of its frequency.
SoundInv ==
    /\ Sound(config)
    /\ config.isOpen /\ faults = 0 /\ config.dev.kind = "R820T" => Fits(config.dev)

\* Every command that calls Radio keeps the second invariant.
LEMMA CalledSound ==
    ASSUME ConfigInv, SoundInv, NEW e, NEW bad, Answers(config, e, bad),
           faults' = IF bad = {} THEN faults ELSE faults + 1,
           config' = Settled(e)
    PROVE  SoundInv'
<1>1. Within(e) /\ (e.isOpen => e.enabled /\ Done(e, Settings))
  BY DEF Answers, Sound
<1> DEFINE n == config'
<1>2. /\ Within(n) /\ n.isOpen = e.isOpen /\ n.enabled = e.enabled /\ n.dev.kind = e.dev.kind
      /\ Done(e, Settings) => Done(n, Settings)
      /\ e.dev.kind = "R820T" /\ Fits(e.dev) => Fits(n.dev)
  BY <1>1, SettledMoved
<1>3. Sound(n)
  BY <1>1, <1>2 DEF Sound
<1>4. faults' = 0 => bad = {} /\ faults = 0
  BY ConfigAssumption DEF ConfigInv
<1>5. ASSUME n.isOpen, faults' = 0, n.dev.kind = "R820T"
      PROVE  Fits(n.dev)
  <2>1. e.isOpen /\ e.dev.kind = "R820T" /\ config.dev.kind = "R820T"
    BY <1>2, <1>5 DEF Answers
  <2>2. config.isOpen => Fits(config.dev)
    BY <1>4, <1>5, <2>1 DEF SoundInv
  <2> QED  BY <1>2, <1>4, <1>5, <2>1, <2>2 DEF Answers
<1>6. Sound(config)' /\ (config.isOpen /\ faults = 0 /\ config.dev.kind = "R820T" => Fits(config.dev))'
  <2> HIDE DEF n
  <2>1. Sound(config')
    BY <1>3 DEF n
  <2>2. config'.isOpen /\ faults' = 0 /\ config'.dev.kind = "R820T" => Fits(config'.dev)
    BY <1>5 DEF n
  <2> QED  BY <2>1, <2>2
<1> QED  BY <1>6 DEF SoundInv

(****************************************************************************)
(* The second invariant, and what follows from it.                          *)
(****************************************************************************)

\* The second invariant holds at the start.
LEMMA SoundInit == Init => SoundInv
<1> SUFFICES ASSUME Init PROVE SoundInv
  OBVIOUS
<1>1. PICK kind \in Dongles : config = setupReceiver(kind)
  BY DEF Init
<1> DEFINE d == NewDevice(kind, FreshChip(kind))
<1>2. Ready(d)
  BY FreshIsChip, NewDeviceReady, ConfigAssumption
<1>3. config = [attr |-> [freq |-> 100000, rate |-> 256, bw |-> 0, gain |-> AutoGain,
                          ifGain |-> 24, adjustable |-> 24, warp |-> 0],
                dev |-> d, isOpen |-> FALSE, enabled |-> FALSE, success |-> TRUE,
                tunedAt |-> 256, unsure |-> {}, reset |-> {}]
  BY <1>1 DEF setupReceiver
<1> HIDE DEF d
<1>4. Fine(d)
  BY <1>2 DEF Ready, Chipped
<1>5. IsConfig(config) /\ config.dev = d /\ ~config.isOpen /\ config.reset = {}
  BY <1>3, <1>4 DEF IsConfig, Attributes, Settings, AutoGain
<1>6. Bounded(config.attr)
  BY <1>3, <1>5 DEF IsConfig, Bounded
<1> QED  BY <1>2, <1>5, <1>6 DEF SoundInv, Sound, Within

\* Every step keeps it.
LEMMA SoundNext == ConfigInv /\ SoundInv /\ [Next]_vars => SoundInv'
<1> SUFFICES ASSUME ConfigInv, SoundInv, [Next]_vars PROVE SoundInv'
  OBVIOUS
<1>0. Sound(config) /\ Within(config)
  BY DEF SoundInv, Sound
<1>00. Applicable \subseteq Settings
  BY DEF Applicable, Settings
<1>1. CASE cmdSetRxFrequency
  <2>1. PICK khz \in Frequencies, bad \in Faults[config.dev.kind] :
          /\ khz <= 1700000
          /\ faults' = IF bad = {} THEN faults ELSE faults + 1
          /\ config' = Settled(setReceiveFrequency(config, khz, bad))
    BY <1>1 DEF cmdSetRxFrequency, Called
  <2>2. Moved(config, setReceiveFrequency(config, khz, bad), "freq", bad)
    BY <1>0, <2>1, FrequencyMoved, ConfigAssumption
  <2>3. Answers(config, setReceiveFrequency(config, khz, bad), bad)
    BY <1>0, <2>2, MovedAnswers DEF Settings
  <2> QED  BY <2>1, <2>3, CalledSound
<1>2. CASE cmdSetRxSampleRate
  <2>1. PICK khz \in Rates, bad \in Faults[config.dev.kind] :
          /\ ValidRate(khz)
          /\ faults' = IF bad = {} THEN faults ELSE faults + 1
          /\ config' = Settled(setReceiveSampleRate(config, khz, bad))
    BY <1>2 DEF cmdSetRxSampleRate, Called
  <2>2. khz \in Nat /\ khz <= 3200
    <3>1. khz \in Nat
      BY <2>1, ConfigAssumption
    <3>2. khz <= 3200
      BY <2>1, <3>1 DEF ValidRate
    <3> QED  BY <3>1, <3>2
  <2>3. Moved(config, setReceiveSampleRate(config, khz, bad), "rate", bad)
    BY <1>0, <2>2, RateMoved
  <2>4. Answers(config, setReceiveSampleRate(config, khz, bad), bad)
    BY <1>0, <2>3, MovedAnswers DEF Settings
  <2> QED  BY <2>1, <2>4, CalledSound
<1>3. CASE cmdSetRxBandwidth
  <2>1. PICK khz \in Bandwidths, bad \in Faults[config.dev.kind] :
          /\ faults' = IF bad = {} THEN faults ELSE faults + 1
          /\ config' = Settled(setReceiveBandwidth(config, khz, bad))
    BY <1>3 DEF cmdSetRxBandwidth, Called
  <2>2. Moved(config, setReceiveBandwidth(config, khz, bad), "bw", bad)
    BY <1>0, BandwidthMoved, ConfigAssumption
  <2>3. Answers(config, setReceiveBandwidth(config, khz, bad), bad)
    BY <1>0, <2>2, MovedAnswers DEF Settings
  <2> QED  BY <2>1, <2>3, CalledSound
<1>4. CASE cmdSetRxGain
  <2>1. PICK gain \in Gains \cup {AutoGain}, bad \in Faults[config.dev.kind] :
          /\ faults' = IF bad = {} THEN faults ELSE faults + 1
          /\ config' = Settled(setReceiveGainInDb(config, gain, bad))
    BY <1>4 DEF cmdSetRxGain, Called
  <2>2. gain \in Nat
    BY AutoIsNat, ConfigAssumption
  <2>3. Moved(config, setReceiveGainInDb(config, gain, bad), "gain", bad)
    BY <1>0, <2>2, GainMoved
  <2>4. Answers(config, setReceiveGainInDb(config, gain, bad), bad)
    BY <1>0, <2>3, MovedAnswers DEF Settings
  <2> QED  BY <2>1, <2>4, CalledSound
<1>5. CASE cmdSetRxIfGain
  <2>1. PICK gain \in IfGains, bad \in Faults[config.dev.kind] :
          /\ faults' = IF bad = {} THEN faults ELSE faults + 1
          /\ config' = Settled(setReceiveIfGainInDb(config, 0, gain, bad))
    BY <1>5 DEF cmdSetRxIfGain, Called
  <2>2. Moved(config, setReceiveIfGainInDb(config, 0, gain, bad), "ifGain", bad)
    BY <1>0, IfGainMoved, ConfigAssumption
  <2>3. Answers(config, setReceiveIfGainInDb(config, 0, gain, bad), bad)
    BY <1>0, <2>2, MovedAnswers DEF Settings
  <2> QED  BY <2>1, <2>3, CalledSound
<1>6. CASE cmdSetRxWarp
  <2>1. PICK ppm \in Warps, bad \in Faults[config.dev.kind] :
          /\ faults' = IF bad = {} THEN faults ELSE faults + 1
          /\ config' = Settled(setReceiveWarpInPartsPerMillion(config, ppm, bad))
    BY <1>6 DEF cmdSetRxWarp, Called
  <2>2. Moved(config, setReceiveWarpInPartsPerMillion(config, ppm, bad), "warp", bad)
    BY <1>0, WarpMoved, ConfigAssumption
  <2>3. Answers(config, setReceiveWarpInPartsPerMillion(config, ppm, bad), bad)
    BY <1>0, <2>2, MovedAnswers DEF Settings
  <2> QED  BY <2>1, <2>3, CalledSound
<1>7. CASE cmdStartReceiver
  <2>1. PICK bad \in Faults[config.dev.kind] :
          /\ faults' = IF bad = {} THEN faults ELSE faults + 1
          /\ config' = Settled(startReceiver(config, bad))
    BY <1>7 DEF cmdStartReceiver, Called
  <2>2. Answers(config, startReceiver(config, bad), bad)
    BY <1>0, StartAnswers
  <2> QED  BY <2>1, <2>2, CalledSound
<1>8. CASE cmdStopReceiver
  <2>1. PICK bad \in Faults[config.dev.kind] :
          /\ faults' = IF bad = {} THEN faults ELSE faults + 1
          /\ config' = Settled(stopReceiver(config, bad))
    BY <1>8 DEF cmdStopReceiver, Called
  <2>2. Answers(config, stopReceiver(config, bad), bad)
    BY <1>0, StopAnswers
  <2> QED  BY <2>1, <2>2, CalledSound
<1>9. CASE cmdSelectV4BlogRadio \/ cmdSelectNormalRadio \/ UNCHANGED vars
  <2>1. UNCHANGED <<config, faults>>
    BY <1>9 DEF cmdSelectV4BlogRadio, cmdSelectNormalRadio, vars
  <2> QED  BY <2>1 DEF SoundInv
<1> QED  BY <1>1, <1>2, <1>3, <1>4, <1>5, <1>6, <1>7, <1>8, <1>9 DEF Next

\* The second invariant holds in every reachable state.
THEOREM AlwaysSound == Spec => []SoundInv
BY SoundInit, SoundNext, TypeInvariant, PTL DEF Spec

\* An R820T samples the antenna directly exactly below 24 MHz, with tuner and
\* demodulator in the mode that belongs to it, as long as the bus behaved:
\* tuning, direct sampling and bandwidth call each other, and end in step.
THEOREM DirectExactlyBelow24MHz == Spec => []DirectBelow24MHz
<1>1. SoundInv => DirectBelow24MHz
  <2> SUFFICES ASSUME SoundInv, config.isOpen, Dev.kind = "R820T", Dev.freq # 0, faults = 0
               PROVE  /\ (Dev.direct = 2) = (Dev.freq < 24000)
                      /\ Dev.mode = IF Dev.direct = 2 THEN "direct" ELSE "lowIf"
                      /\ Dev.t.chip.r06.awake = (Dev.direct = 0)
    BY DEF DirectBelow24MHz
  <2>1. Fits(Dev)
    BY DEF SoundInv, Dev
  <2>2. Dev.direct = 2 <=> Dev.freq < 24000
    BY <2>1 DEF Fits, FreqFits, WantsDirect
  <2>3. (Dev.direct = 2) = (Dev.freq < 24000)
    <3> HIDE DEF Dev
    <3> QED  BY <2>2
  <2> QED  BY <2>1, <2>3 DEF Fits, FitsMode
<1> QED  BY <1>1, AlwaysSound, PTL

\* The 14 bits of the resampler's correction are what is asked for, to within
\* 1/16 ppm and a sixteenth of it.
LEMMA OffsetCorrects ==
    ASSUME NEW ppm \in Int, Dev.sro = ResamplerOffset(ppm)
    PROVE  ResamplerCorrects(ppm)
<1> SUFFICES ASSUME -488 <= ppm, ppm <= 488
             PROVE  Off(16 * ppm, -(IF Dev.sro >= 8192 THEN Dev.sro - 16384 ELSE Dev.sro)) <= 1 + Off(0, ppm)
  BY DEF ResamplerCorrects
<1> DEFINE n == IF ppm < 0 THEN -ppm ELSE ppm
           size == (n * 16777) \div 1000
<1>1. n \in Nat /\ n <= 488
  OBVIOUS
<1>2. Dev.sro = (IF ppm > 0 THEN -size ELSE size) % 16384
  BY DEF ResamplerOffset
<1>3. size \in Nat /\ 16 * n <= size /\ size <= 17 * n /\ size <= 8190
  <2> HIDE DEF n
  <2>1. size \in Int /\ 1000 * size <= n * 16777 /\ n * 16777 < 1000 * size + 1000
    BY <1>1
  <2> HIDE DEF size
  <2> QED  BY <1>1, <2>1
<1>4. (n = IF ppm < 0 THEN -ppm ELSE ppm)
  OBVIOUS
<1> HIDE DEF size, n
<1>5. CASE ppm > 0
  <2>1. PICK r \in Int : r = Dev.sro
    BY <1>2, <1>3
  <2>2. r = (-size) % 16384
    BY <1>2, <1>5, <2>1
  <2>3. r = 16384 - size
    <3> HIDE <2>1
    <3> QED  BY <1>1, <1>3, <1>4, <1>5, <2>2
  <2>4. Dev.sro = 16384 - size
    BY <2>1, <2>3
  <2> QED  BY <1>1, <1>3, <1>4, <1>5, <2>4 DEF Off
<1>6. CASE ppm <= 0
  <2>1. Dev.sro = size
    BY <1>2, <1>3, <1>6
  <2> QED  BY <1>1, <1>3, <1>4, <1>6, <2>1 DEF Off
<1> QED  BY <1>5, <1>6

\* Switches that agree with a band are those of that band.
LEMMA BandInEffect ==
    ASSUME NEW t, NEW band \in {"hf", "vhf", "uhf"}, InputAgrees(t), t.input = band
    PROVE  /\ t.chip.r06.cable2 = (band = "hf")
           /\ t.chip.r05.cable1 = (band = "vhf")
           /\ t.chip.r05.air = (band = "uhf")
<1>2. (t.input \in {"uhf", "air"}) = (band = "uhf")
  <2>1. CASE band = "uhf"
    <3>1. (t.input \in {"uhf", "air"}) = TRUE /\ (band = "uhf") = TRUE
      BY <2>1
    <3> QED  BY <3>1, Zenon
  <2>2. CASE band # "uhf"
    <3>1. (t.input \in {"uhf", "air"}) = FALSE /\ (band = "uhf") = FALSE
      BY <2>2
    <3> QED  BY <3>1, Zenon
  <2> QED  BY <2>1, <2>2
<1> QED  BY <1>2 DEF InputAgrees

\* What is applied is in effect.
LEMMA AppliedInEffect ==
    ASSUME SoundInv, NEW s \in Settings, AppliedTo(s, Attr, config.tunedAt, Dev)
    PROVE  InEffect(s)
<1>1. CASE s = "freq"
  BY <1>1, AppliedIs DEF InEffect
<1>2. CASE s = "rate"
  BY <1>2, AppliedIs DEF InEffect, RateSet
<1>3. CASE s = "bw"
  BY <1>3, AppliedIs DEF InEffect, BandwidthInEffect, BandwidthSet
<1>4. CASE s = "gain"
  <2>1. GainSet(Dev, Attr.gain)
    BY <1>4, AppliedIs DEF GainKnown
  <2>2. GainInEffect = GainSet(Dev, Attr.gain)
    BY DEF GainInEffect, GainSet
  <2> QED  BY <1>4, <2>1, <2>2 DEF InEffect
<1>5. CASE s = "ifGain"
  BY <1>5, AppliedIs DEF InEffect, IfGainSet
<1>6. CASE s = "warp"
  <2>1. Attr.warp \in Int
    BY DEF SoundInv, Sound, Within, Bounded, Attributes, Attr
  <2>2. Attr.warp # 0 => Dev.corr = Attr.warp /\ Dev.sro = ResamplerOffset(Attr.warp)
    BY <1>6, AppliedIs DEF WarpSet
  <2>3. Attr.warp # 0 => Dev.corr = Attr.warp /\ ResamplerCorrects(Attr.warp)
    BY <2>1, <2>2, OffsetCorrects
  <2> QED  BY <1>6, <2>3 DEF InEffect
<1>7. CASE s = "input"
  <2> DEFINE band == R!BandOf(Dev.freq)
  <2>1. ASSUME Dev.kind = "V4", Dev.t.hasLock
        PROVE  InputAgrees(Dev.t) /\ Dev.t.input = band
    BY <1>7, <2>1, AppliedIs DEF InputSet, Follows
  <2>2. band \in {"hf", "vhf", "uhf"}
    BY DEF R!BandOf
  <2> HIDE DEF band
  <2>3. Dev.kind = "V4" /\ Dev.t.hasLock
          => /\ Dev.t.chip.r06.cable2 = (band = "hf")
             /\ Dev.t.chip.r05.cable1 = (band = "vhf")
             /\ Dev.t.chip.r05.air = (band = "uhf")
    BY <2>1, <2>2, BandInEffect
  <2> QED  BY <1>7, <2>3 DEF InEffect, band
<1> QED  BY <1>1, <1>2, <1>3, <1>4, <1>5, <1>6, <1>7 DEF Settings

\* Every variable of Radio's configuration and its device has its type, only
\* an enabled receiver has a device open, only an R820T loses settings to
\* direct sampling, and the bounds are kept.
THEOREM TypeCorrect == Spec => []TypeOK
<1>1. ConfigInv /\ SoundInv => TypeOK
  <2> SUFFICES ASSUME ConfigInv, SoundInv PROVE TypeOK
    OBVIOUS
  <2>1. config.reset \subseteq IF Dev.kind = "R820T" THEN TunerSettings ELSE {}
    BY DEF SoundInv, Sound, Within, IsConfig, Dev
  <2> QED  BY <2>1 DEF ConfigInv, Settling, IsConfig, Attributes, Fine, TypeOK, Attr, Dev
<1> QED  BY <1>1, TypeInvariant, AlwaysSound, PTL

\* While the receiver runs, what the user set is what the dongle's registers
\* hold, however set functions, starts and stops follow one another and
\* whatever failed before.  Not claimed are settings a failed call has touched,
\* until they are applied with success; bandwidth and gains an R820T has lost
\* by a tuning across 24 MHz, until they are applied again; and the frequency
\* counts from the sample rate at the last tuning.
THEOREM AttributesAlwaysApplied == Spec => []AttributesApplied
<1>1. SoundInv => AttributesApplied
  <2> SUFFICES ASSUME SoundInv, config.isOpen, NEW s \in Settings, Sure(s)
               PROVE  InEffect(s)
    BY DEF AttributesApplied
  <2>1. AppliedTo(s, Attr, config.tunedAt, Dev)
    BY DEF SoundInv, Sound, Done, Holds, Sure, Attr, Dev
  <2> QED  BY <2>1, AppliedInEffect
<1> QED  BY <1>1, AlwaysSound, PTL

(****************************************************************************)
(* What the PLLs make of their registers: within 2 kHz of the frequency.    *)
(****************************************************************************)

\* v is k times m; kept closed where nothing but that it is one matters.
IsProduct(v, k, m) == v = k * m

\* A number close below or above a multiple of m is close to it when divided.
LEMMA NearMultiple ==
    ASSUME NEW k \in Nat, NEW m \in Nat, m >= 2, NEW v \in Nat, IsProduct(v, k, m),
           NEW a \in Nat, a >= v - 4, a <= v + 2
    PROVE  a \div m \in Nat /\ Off(a \div m, k) <= 2
<1> DEFINE q == a \div m
           r == a % m
<1>0. v = k * m
  BY DEF IsProduct
<1>1. q \in Nat /\ r \in Nat /\ r < m /\ a = m * q + r
  BY SMT
<1> HIDE DEF q, r
<1>2. ASSUME q >= k + 2 PROVE FALSE
  <2>1. PICK e \in Nat : q = k + 2 + e
    BY <1>1, <1>2
  <2>2. m * q = k * m + 2 * m + m * e
    BY <2>1
  <2>3. m * e \in Nat /\ k * m \in Nat
    OBVIOUS
  <2> QED  BY <1>0, <1>1, <2>2, <2>3
<1>3. ASSUME q <= k - 3 PROVE FALSE
  <2>1. PICK e \in Nat : k = q + 3 + e
    BY <1>1, <1>3
  <2>2. k * m = m * q + 3 * m + m * e
    BY <1>1, <2>1
  <2>3. m * e \in Nat /\ m * q \in Nat
    BY <1>1
  <2> QED  BY <1>0, <1>1, <2>2, <2>3
<1>4. q < k + 2 /\ q > k - 3
  BY <1>1, <1>2, <1>3
<1> QED  BY <1>1, <1>4 DEF Off, q

\* The sigma-delta word so far: at most left of the fraction f remain, and
\* the word stands for at most over 256ths more than has been taken off.
IsSdm(s, f, left, over) ==
    /\ DOMAIN s = {"sdm", "fra"}
    /\ s.sdm \in Nat /\ s.fra \in Nat /\ s.fra <= left
    /\ 225 * s.sdm + 256 * s.fra >= 256 * f
    /\ 225 * s.sdm + 256 * s.fra <= 256 * f + over

\* The bit of weight 1/n takes that many kHz from what is left; its own value
\* is more by so many 256ths.
IsBit(n, taken, bit, left, rest, over, total) ==
    /\ n \in Nat /\ taken \in Nat /\ bit \in Nat
    /\ left \in Nat /\ rest \in Nat /\ over \in Nat /\ total \in Nat
    /\ 57600 \div n = taken /\ 65536 \div n = bit /\ 225 * bit = 256 * taken + (total - over)
    /\ over <= total /\ left <= taken + rest /\ taken <= rest /\ 1 <= rest

\* One bit of it.
LEMMA SdmBit ==
    ASSUME NEW f \in Nat, NEW s, NEW n, NEW taken, NEW bit, NEW left, NEW rest, NEW over, NEW total,
           IsSdm(s, f, left, over), IsBit(n, taken, bit, left, rest, over, total)
    PROVE  IsSdm(R!SdmStep(s, n), f, rest, total)
<1>0. PICK more \in Nat : total = over + more
  BY DEF IsBit
<1> USE DEF IsBit
<1>1. PICK a \in Nat, b \in Nat : s.sdm = a /\ s.fra = b
  BY DEF IsSdm
<1>2. /\ b <= left /\ 225 * a + 256 * b >= 256 * f
      /\ 225 * a + 256 * b <= 256 * f + over
  BY <1>1 DEF IsSdm
<1>3. R!SdmStep(s, n) = IF b > 1 /\ b > taken THEN [sdm |-> a + bit, fra |-> b - taken] ELSE s
  BY <1>1 DEF R!SdmStep, R!PllRef
<1>4. CASE b > 1 /\ b > taken
  <2> DEFINE u == [sdm |-> a + bit, fra |-> b - taken]
  <2>1. DOMAIN u = {"sdm", "fra"} /\ u.sdm = a + bit /\ u.fra = b - taken
    OBVIOUS
  <2> HIDE DEF u
  <2>2. a + bit \in Nat /\ b - taken \in Nat /\ b - taken <= rest
    BY <1>2, <1>4
  <2>3. /\ 225 * (a + bit) + 256 * (b - taken) >= 256 * f
        /\ 225 * (a + bit) + 256 * (b - taken) <= 256 * f + total
    BY <1>2, <1>4, <1>0
  <2>4. IsSdm(u, f, rest, total)
    BY <2>1, <2>2, <2>3 DEF IsSdm
  <2> QED  BY <1>3, <1>4, <2>4 DEF u
<1>5. CASE ~(b > 1 /\ b > taken)
  <2>1. b <= rest /\ 225 * a + 256 * b <= 256 * f + total
    BY <1>0, <1>2, <1>5
  <2>2. IsSdm(s, f, rest, total)
    BY <1>1, <1>2, <2>1 DEF IsSdm
  <2> QED  BY <1>3, <1>5, <2>2
<1> QED  BY <1>4, <1>5

\* The first four bits are exact.
LEMMA FirstBits ==
    ASSUME NEW f \in Nat, NEW s, IsSdm(s, f, 57599, 0)
    PROVE  IsSdm(R!FourSteps(s, 2), f, 3600, 0)
<1>1. IsBit(2, 28800, 32768, 57599, 28800, 0, 0)
  BY DEF IsBit
<1>2. PICK s1 : s1 = R!SdmStep(s, 2)
  OBVIOUS
<1>3. IsSdm(s1, f, 28800, 0)
  BY <1>1, <1>2, SdmBit
<1>4. IsBit(4, 14400, 16384, 28800, 14400, 0, 0)
  BY DEF IsBit
<1>5. PICK s2 : s2 = R!SdmStep(s1, 4)
  OBVIOUS
<1>6. IsSdm(s2, f, 14400, 0)
  BY <1>4, <1>5, <1>3, SdmBit
<1>7. IsBit(8, 7200, 8192, 14400, 7200, 0, 0)
  BY DEF IsBit
<1>8. PICK s3 : s3 = R!SdmStep(s2, 8)
  OBVIOUS
<1>9. IsSdm(s3, f, 7200, 0)
  BY <1>7, <1>8, <1>6, SdmBit
<1>10. IsBit(16, 3600, 4096, 7200, 3600, 0, 0)
  BY DEF IsBit
<1>11. PICK s4 : s4 = R!SdmStep(s3, 16)
  OBVIOUS
<1>12. IsSdm(s4, f, 3600, 0)
  BY <1>10, <1>11, <1>9, SdmBit
<1> QED  BY <1>2, <1>5, <1>8, <1>11, <1>12 DEF R!FourSteps

\* So are the next four.
LEMMA MiddleBits ==
    ASSUME NEW f \in Nat, NEW s, IsSdm(s, f, 3600, 0)
    PROVE  IsSdm(R!FourSteps(s, 32), f, 225, 0)
<1>1. IsBit(32, 1800, 2048, 3600, 1800, 0, 0)
  BY DEF IsBit
<1>2. PICK s1 : s1 = R!SdmStep(s, 32)
  OBVIOUS
<1>3. IsSdm(s1, f, 1800, 0)
  BY <1>1, <1>2, SdmBit
<1>4. IsBit(64, 900, 1024, 1800, 900, 0, 0)
  BY DEF IsBit
<1>5. PICK s2 : s2 = R!SdmStep(s1, 64)
  OBVIOUS
<1>6. IsSdm(s2, f, 900, 0)
  BY <1>4, <1>5, <1>3, SdmBit
<1>7. IsBit(128, 450, 512, 900, 450, 0, 0)
  BY DEF IsBit
<1>8. PICK s3 : s3 = R!SdmStep(s2, 128)
  OBVIOUS
<1>9. IsSdm(s3, f, 450, 0)
  BY <1>7, <1>8, <1>6, SdmBit
<1>10. IsBit(256, 225, 256, 450, 225, 0, 0)
  BY DEF IsBit
<1>11. PICK s4 : s4 = R!SdmStep(s3, 256)
  OBVIOUS
<1>12. IsSdm(s4, f, 225, 0)
  BY <1>10, <1>11, <1>9, SdmBit
<1> QED  BY <1>2, <1>5, <1>8, <1>11, <1>12 DEF R!FourSteps

\* From the ninth on what a bit takes off is rounded.
LEMMA LaterBits ==
    ASSUME NEW f \in Nat, NEW s, IsSdm(s, f, 225, 0)
    PROVE  IsSdm(R!FourSteps(s, 512), f, 15, 240)
<1>1. IsBit(512, 112, 128, 225, 113, 0, 128)
  BY DEF IsBit
<1>2. PICK s1 : s1 = R!SdmStep(s, 512)
  OBVIOUS
<1>3. IsSdm(s1, f, 113, 128)
  BY <1>1, <1>2, SdmBit
<1>4. IsBit(1024, 56, 64, 113, 57, 128, 192)
  BY DEF IsBit
<1>5. PICK s2 : s2 = R!SdmStep(s1, 1024)
  OBVIOUS
<1>6. IsSdm(s2, f, 57, 192)
  BY <1>4, <1>5, <1>3, SdmBit
<1>7. IsBit(2048, 28, 32, 57, 29, 192, 224)
  BY DEF IsBit
<1>8. PICK s3 : s3 = R!SdmStep(s2, 2048)
  OBVIOUS
<1>9. IsSdm(s3, f, 29, 224)
  BY <1>7, <1>8, <1>6, SdmBit
<1>10. IsBit(4096, 14, 16, 29, 15, 224, 240)
  BY DEF IsBit
<1>11. PICK s4 : s4 = R!SdmStep(s3, 4096)
  OBVIOUS
<1>12. IsSdm(s4, f, 15, 240)
  BY <1>10, <1>11, <1>9, SdmBit
<1> QED  BY <1>2, <1>5, <1>8, <1>11, <1>12 DEF R!FourSteps

\* All fifteen: what the word stands for is at most 4 below the fraction and
\* 2 above it.
LEMMA SdmIs ==
    ASSUME NEW f \in Nat, f < 57600
    PROVE  /\ R!Sdm(f) \in Nat
           /\ (225 * R!Sdm(f)) \div 256 >= f - 4 /\ (225 * R!Sdm(f)) \div 256 <= f + 2
<1>1. IsSdm([sdm |-> 0, fra |-> f], f, 57599, 0)
  BY DEF IsSdm
<1> DEFINE s0 == [sdm |-> 0, fra |-> f]
<1>2. s0 = [sdm |-> 0, fra |-> f]
  OBVIOUS
<1> HIDE DEF s0
<1>3. PICK s4 : s4 = R!FourSteps(s0, 2)
  OBVIOUS
<1>4. PICK s8 : s8 = R!FourSteps(s4, 32)
  OBVIOUS
<1>5. PICK s12 : s12 = R!FourSteps(s8, 512)
  OBVIOUS
<1>6. PICK s13 : s13 = R!SdmStep(s12, 8192)
  OBVIOUS
<1>7. PICK s14 : s14 = R!SdmStep(s13, 16384)
  OBVIOUS
<1>8. PICK s15 : s15 = R!SdmStep(s14, 32768)
  OBVIOUS
<1>9. R!Sdm(f) = s15.sdm
  BY <1>2, <1>3, <1>4, <1>5, <1>6, <1>7, <1>8 DEF R!Sdm
<1>10. IsSdm(s4, f, 3600, 0)
  BY <1>1, <1>2, <1>3, FirstBits
<1>11. IsSdm(s8, f, 225, 0)
  BY <1>10, <1>4, MiddleBits
<1>12. IsSdm(s12, f, 15, 240)
  BY <1>11, <1>5, LaterBits
<1>13. IsBit(8192, 7, 8, 15, 8, 240, 248) /\ IsBit(16384, 3, 4, 8, 5, 248, 380)
       /\ IsBit(32768, 1, 2, 5, 4, 380, 574)
  BY DEF IsBit
<1>14. IsSdm(s13, f, 8, 248)
  BY <1>6, <1>12, <1>13, SdmBit
<1>15. IsSdm(s14, f, 5, 380)
  BY <1>7, <1>14, <1>13, SdmBit
<1>16. IsSdm(s15, f, 4, 574)
  BY <1>8, <1>15, <1>13, SdmBit
<1>17. PICK a \in Nat, b \in Nat : s15.sdm = a /\ s15.fra = b /\ b <= 4
  BY <1>16 DEF IsSdm
<1>18. 225 * a + 256 * b >= 256 * f /\ 225 * a + 256 * b <= 256 * f + 574
  BY <1>16, <1>17 DEF IsSdm
<1>19. (225 * a) \div 256 >= f - 4 /\ (225 * a) \div 256 <= f + 2
  BY <1>17, <1>18
<1> QED  BY <1>9, <1>17, <1>19

\* The PLL's register as r82xx_set_pll writes it.
IsPll(pll, khz) ==
    /\ pll.mixDiv = R!MixDiv(khz)
    /\ pll.nint = (khz * R!MixDiv(khz)) \div (2 * R!PllRef)
    /\ pll.sdm = R!Sdm(khz * R!MixDiv(khz) - 2 * R!PllRef * pll.nint)

\* An R82xx whose PLL found a divider is on its frequency.
LEMMA RafaelLo ==
    ASSUME NEW khz \in Nat, NEW pll, R!MixDiv(khz) <= 64, IsPll(pll, khz)
    PROVE  Off(R!LoOf(pll), khz) <= 2
<1>1. \E div \in R!MixDivs : R!InVcoRange(khz, div)
  BY DEF R!MixDiv
<1>2. R!MixDiv(khz) \in R!MixDivs
  BY <1>1 DEF R!MixDiv
<1>3. PICK m \in Nat : m = R!MixDiv(khz) /\ m >= 2
  BY <1>2 DEF R!MixDivs
<1>4. PICK v \in Nat : v = khz * m
  OBVIOUS
<1>5. PICK n \in Nat : n = v \div 57600
  OBVIOUS
<1>6. PICK f \in Nat : f = v - 57600 * n /\ f < 57600
  BY <1>5
<1>7. pll.nint = n /\ pll.sdm = R!Sdm(f) /\ pll.mixDiv = m
  BY <1>3, <1>4, <1>5, <1>6 DEF IsPll, R!PllRef
<1>8. /\ R!Sdm(f) \in Nat
      /\ (225 * R!Sdm(f)) \div 256 >= f - 4 /\ (225 * R!Sdm(f)) \div 256 <= f + 2
  BY <1>6, SdmIs
<1>9. PICK w \in Nat : w = R!Sdm(f)
  BY <1>8
<1>10. PICK x \in Nat : x = (225 * w) \div 256 /\ x >= f - 4 /\ x <= f + 2
  BY <1>8, <1>9
<1>11. R!LoOf(pll) = (57600 * n + x) \div m
  BY <1>7, <1>9, <1>10 DEF R!LoOf, R!PllRef
<1>12. 57600 * n + x \in Nat /\ 57600 * n + x >= v - 4 /\ 57600 * n + x <= v + 2
  BY <1>6, <1>10
<1>13. PICK a \in Nat : a = 57600 * n + x /\ a >= v - 4 /\ a <= v + 2
  BY <1>12
<1>14. m >= 2
  BY <1>3
<1>15. IsProduct(v, khz, m)
  BY <1>4 DEF IsProduct
<1>16. a >= v - 4 /\ a <= v + 2
  BY <1>13
<1>17. Off(a \div m, khz) <= 2
  BY <1>14, <1>15, <1>16, NearMultiple
<1> QED  BY <1>11, <1>13, <1>17

\* The two counters of a Fitipower tuner make up the cycles.
LEMMA CombinationIs ==
    ASSUME NEW vco \in Nat, vco < F!Word32, F!Cycles(vco) >= 2
    PROVE  /\ F!Combination(vco).am \in Nat /\ F!Combination(vco).pm \in Nat
           /\ F!Combination(vco).am + 8 * F!Combination(vco).pm = F!Cycles(vco)
<1>1. PICK c \in Nat : c = F!Cycles(vco) /\ c <= 299 /\ c >= 2
  BY DEF F!Cycles, F!Word32, F!HalfXtal
<1>2. PICK p \in Nat, a \in Nat : c = 8 * p + a /\ a < 8 /\ p = c \div 8 /\ a = c % 8
  BY <1>1, SMT
<1>3. PICK q \in Nat, b \in Nat : /\ b = a + (IF a < 2 THEN 8 ELSE 0)
                                  /\ q = (p - (IF a < 2 THEN 1 ELSE 0)) % 256
                                  /\ c = 8 * q + b /\ b <= 9 /\ q <= 37
  <2>1. p <= 37 /\ (a < 2 => p >= 1)
    BY <1>1, <1>2
  <2>2. CASE a < 2
    <3>1. (p - 1) % 256 = p - 1
      BY <2>1, <2>2
    <3>2. p - 1 \in Nat /\ a + 8 \in Nat /\ c = 8 * (p - 1) + (a + 8)
      BY <1>2, <2>1, <2>2
    <3> QED  BY <2>1, <2>2, <3>1, <3>2
  <2>3. CASE ~(a < 2)
    <3>1. p % 256 = p
      BY <2>1
    <3> QED  BY <1>2, <2>1, <2>3, <3>1
  <2> QED  BY <2>2, <2>3
<1>4. F!Combination(vco) = IF q > 31 THEN [am |-> (b + 8 * (q - 31)) % 256, pm |-> 31]
                           ELSE [am |-> b, pm |-> q]
  BY <1>1, <1>2, <1>3 DEF F!Combination
<1>5. q > 31 => (b + 8 * (q - 31)) % 256 = b + 8 * (q - 31)
  BY <1>3
<1> QED  BY <1>1, <1>3, <1>4, <1>5

\* A Fitipower tuner within reach is on its frequency.
LEMMA FitipowerLo ==
    ASSUME NEW khz \in Nat, NEW t, NEW multi \in Nat, multi >= 2, F!InReach(khz, multi),
           t.multi = multi, t.xin = F!Xin(F!Vco(khz, multi)),
           t.am = F!Combination(F!Vco(khz, multi)).am, t.pm = F!Combination(F!Vco(khz, multi)).pm
    PROVE  Off(F!LoOf(t), khz) <= 2
<1>1. PICK v \in Nat : v = khz * multi
  OBVIOUS
<1>2. v < F!Word32 /\ F!Cycles(v) >= 2
  BY <1>1 DEF F!InReach
<1>3. F!Vco(khz, multi) = v
  BY <1>1, <1>2 DEF F!Vco, F!Word32
<1>4. PICK q \in Nat, r \in Nat : v = 14400 * q + r /\ r < 14400 /\ q = v \div 14400 /\ r = v % 14400
  BY SMT
<1>5. F!Cycles(v) = IF r >= 7200 THEN q + 1 ELSE q
  BY <1>4 DEF F!Cycles, F!HalfXtal
<1>6. PICK x \in Nat : /\ x = (r * 32768) \div 14400
                       /\ 14400 * x <= 32768 * r /\ 14400 * x > 32768 * r - 14400
  BY SMT
<1>7. /\ x < 32768
      /\ x >= 16384 <=> r >= 7200
  BY <1>4, <1>6
<1>8. F!Xin(v) = IF x >= 16384 THEN x + 32768 ELSE x
  BY <1>4, <1>6 DEF F!Xin, F!HalfXtal
<1>9. PICK a \in Nat, p \in Nat : t.am = a /\ t.pm = p /\ a + 8 * p = F!Cycles(v)
  BY <1>2, <1>3, CombinationIs
<1>10. PICK e \in Int : e = (14400 * x) \div 32768 /\ e >= r - 1 /\ e <= r
  BY <1>6, SMT
<1>11. t.xin = (IF r >= 7200 THEN x + 32768 ELSE x) /\ t.multi = multi
  BY <1>3, <1>7, <1>8
<1>12. F!LoOf(t) = (14400 * q + e) \div multi
  <2>1. CASE r >= 7200
    <3>1. a + 8 * p = q + 1
      BY <1>5, <1>9, <2>1
    <3>2. (14400 * (x + 32768 - 65536)) \div 32768 = e - 14400
      BY <1>10, SMT
    <3>3. t.xin = x + 32768
      BY <1>11, <2>1
    <3>4. F!LoOf(t) = (14400 * (a + 8 * p) + (14400 * (x + 32768 - 65536)) \div 32768) \div multi
      BY <1>9, <1>11, <3>3 DEF F!LoOf, F!HalfXtal
    <3>5. 14400 * (a + 8 * p) + (e - 14400) = 14400 * q + e
      BY <3>1
    <3> QED  BY <3>2, <3>4, <3>5
  <2>2. CASE ~(r >= 7200)
    <3>1. a + 8 * p = q /\ t.xin = x /\ x < 32768
      BY <1>5, <1>7, <1>9, <1>11, <2>2
    <3>2. F!LoOf(t) = (14400 * (a + 8 * p) + (14400 * x) \div 32768) \div multi
      BY <1>9, <1>11, <3>1 DEF F!LoOf, F!HalfXtal
    <3> QED  BY <1>10, <3>1, <3>2
  <2> QED  BY <2>1, <2>2
<1>13. PICK w \in Int : w = 14400 * q + e /\ w >= v - 1 /\ w <= v
  BY <1>4, <1>10
<1>14. w \in Nat
  <2>1. v >= 1
    BY <1>2, <1>4, <1>5
  <2> QED  BY <1>13, <2>1
<1>15. w >= v - 4 /\ w <= v + 2
  BY <1>13
<1>16. IsProduct(v, khz, multi)
  BY <1>1 DEF IsProduct
<1>17. Off(w \div multi, khz) <= 2
  BY <1>14, <1>15, <1>16, NearMultiple
<1> QED  BY <1>12, <1>13, <1>17

\* The registers of an FC2580 as fc2580_set_freq writes them.
IsFci(t, khz) ==
    LET p == K!Dividers(khz * K!VcoFactor[K!Band(khz)])
    IN  t.band = K!Band(khz) /\ t.r = p.r /\ t.n = p.n % 256 /\ t.k = p.k

\* The FC2580 is on its frequency: its dividers leave no rest.
LEMMA FciLo ==
    ASSUME NEW khz \in Tunable, NEW t, IsFci(t, khz)
    PROVE  Off(K!LoOf(t), khz) <= 2
<1>0. khz \in Nat /\ khz <= 1700800
  BY DEF Tunable
<1>1. K!Band(khz) \in {"L", "UHF", "VHF"} /\ (K!Band(khz) # "L" => khz <= 1000000)
      /\ (K!Band(khz) = "VHF" => khz <= 400000)
  BY <1>0, SMT DEF K!Band
<1>2. PICK m \in Nat : m = K!VcoFactor[K!Band(khz)] /\ m \in {2, 4, 12}
                       /\ (m = 4 => khz <= 1000000) /\ (m = 12 => khz <= 400000)
  BY <1>1, SMT DEF K!VcoFactor
<1>3. PICK v \in Nat : v = khz * m /\ v <= 4800000
  BY <1>0, <1>2, SMT
<1> HIDE DEF Tunable
<1>4. PICK r \in Nat : r = IF v >= 152 * 16384 THEN 1 ELSE IF v >= 76 * 16384 THEN 2 ELSE 4
  BY SMT
<1>5. PICK c \in Nat : c = 16384 \div r /\ c * r = 16384 /\ r \in {1, 2, 4} /\ c \in {16384, 8192, 4096} /\ c \div 16 > 0
  BY <1>4, SMT
<1>5a. PICK u \in Nat : u = (2 * c) \div 16 /\ c = 8 * u
  BY <1>5, SMT
<1>6. PICK n \in Nat : n = (v \div 2) \div c
  BY <1>5, SMT
<1>7. PICK l \in Nat : v = 2 * (c * n) + l /\ l < 2 * c /\ n < 256
  <2>1. CASE r = 1
    <3>1. c = 16384 /\ u = 2048
      BY <1>5, <1>5a, <2>1, SMT
    <3>2. n = (v \div 2) \div 16384 /\ v < 8388608
      BY <1>3, <1>4, <1>6, <2>1, <3>1, SMT
    <3>3. 2 * (16384 * n) <= v /\ v < 2 * (16384 * n) + 2 * 16384 /\ n < 256
      BY <3>2, SMT
    <3> QED  BY <3>1, <3>3, SMT
  <2>2. CASE r = 2
    <3>1. c = 8192 /\ u = 1024
      BY <1>5, <1>5a, <2>2, SMT
    <3>2. n = (v \div 2) \div 8192 /\ v < 4194304
      BY <1>3, <1>4, <1>6, <2>2, <3>1, SMT
    <3>3. 2 * (8192 * n) <= v /\ v < 2 * (8192 * n) + 2 * 8192 /\ n < 256
      BY <3>2, SMT
    <3> QED  BY <3>1, <3>3, SMT
  <2>4. CASE r = 4
    <3>1. c = 4096 /\ u = 512
      BY <1>5, <1>5a, <2>4, SMT
    <3>2. n = (v \div 2) \div 4096 /\ v < 2097152
      BY <1>3, <1>4, <1>6, <2>4, <3>1, SMT
    <3>3. 2 * (4096 * n) <= v /\ v < 2 * (4096 * n) + 2 * 4096 /\ n < 256
      BY <3>2, SMT
    <3> QED  BY <3>1, <3>3, SMT
  <2> QED  BY <1>5, <2>1, <2>2, <2>4, SMT
<1>8. PICK k \in Nat : k = (l * 65536) \div u /\ k * u = l * 65536
                       /\ (2 * c * (k \div 16)) \div 65536 = l
  <2>1. CASE r = 1
    <3>1. c = 16384 /\ u = 2048
      BY <1>5, <1>5a, <2>1, SMT
    <3>2. (l * 65536) \div 2048 = 32 * l /\ (32 * l) * 2048 = l * 65536
      BY SMT
    <3>3. (32 * l) \div 16 = 2 * l /\ (2 * 16384 * (2 * l)) \div 65536 = l
      BY SMT
    <3> DEFINE k == 32 * l
    <3>4. k \in Nat /\ k = (l * 65536) \div u
      BY <3>1, <3>2, SMT
    <3>5. k * u = l * 65536
      BY <3>1, <3>2, SMT
    <3>6. (2 * c * (k \div 16)) \div 65536 = l
      BY <3>1, <3>3, SMT
    <3> HIDE DEF k
    <3> QED  BY <3>4, <3>5, <3>6
  <2>2. CASE r = 2
    <3>1. c = 8192 /\ u = 1024
      BY <1>5, <1>5a, <2>2, SMT
    <3>2. (l * 65536) \div 1024 = 64 * l /\ (64 * l) * 1024 = l * 65536
      BY SMT
    <3>3. (64 * l) \div 16 = 4 * l /\ (2 * 8192 * (4 * l)) \div 65536 = l
      BY SMT
    <3> DEFINE k == 64 * l
    <3>4. k \in Nat /\ k = (l * 65536) \div u
      BY <3>1, <3>2, SMT
    <3>5. k * u = l * 65536
      BY <3>1, <3>2, SMT
    <3>6. (2 * c * (k \div 16)) \div 65536 = l
      BY <3>1, <3>3, SMT
    <3> HIDE DEF k
    <3> QED  BY <3>4, <3>5, <3>6
  <2>4. CASE r = 4
    <3>1. c = 4096 /\ u = 512
      BY <1>5, <1>5a, <2>4, SMT
    <3>2. (l * 65536) \div 512 = 128 * l /\ (128 * l) * 512 = l * 65536
      BY SMT
    <3>3. (128 * l) \div 16 = 8 * l /\ (2 * 4096 * (8 * l)) \div 65536 = l
      BY SMT
    <3> DEFINE k == 128 * l
    <3>4. k \in Nat /\ k = (l * 65536) \div u
      BY <3>1, <3>2, SMT
    <3>5. k * u = l * 65536
      BY <3>1, <3>2, SMT
    <3>6. (2 * c * (k \div 16)) \div 65536 = l
      BY <3>1, <3>3, SMT
    <3> HIDE DEF k
    <3> QED  BY <3>4, <3>5, <3>6
  <2> QED  BY <1>5, <2>1, <2>2, <2>4, SMT
<1>9. v - 2 * c * n = l /\ 2 * c * n + l = v
  BY <1>5, <1>7, SMT
<1>10. K!Dividers(v) = [r |-> r, n |-> n, k |-> k]
  <2> DEFINE diff == (v - 2 * c * n) * 65536
             unit == (2 * c) \div 16
             q == diff \div unit
  <2>1. K!Dividers(v) = [r |-> r, n |-> n, k |-> IF diff - q * unit >= c \div 16 THEN q + 1 ELSE q]
    <3>1. r = IF v >= 152 * K!Xtal THEN 1 ELSE IF v >= 76 * K!Xtal THEN 2 ELSE 4
      BY <1>4 DEF K!Xtal
    <3>2. c = K!Xtal \div r
      BY <1>5 DEF K!Xtal
    <3> HIDE DEF K!Xtal
    <3> QED  BY <1>6, <3>1, <3>2 DEF K!Dividers
  <2>2. diff = l * 65536 /\ unit = u
    BY <1>5a, <1>9
  <2> HIDE DEF diff, unit
  <2>3. q = k /\ q * unit = diff
    BY <1>8, <2>2
  <2>4. diff \in Nat /\ c \div 16 > 0
    BY <1>5, <2>2
  <2> HIDE DEF q
  <2>5. diff - q * unit = 0
    BY <2>3, <2>4
  <2> QED  BY <2>1, <2>3, <2>4, <2>5
<1>11. t.r = r /\ t.n = n /\ t.k = k /\ K!VcoFactor[t.band] = m
  <2> DEFINE factor == K!VcoFactor[K!Band(khz)]
             p == K!Dividers(khz * factor)
  <2>1. t.band = K!Band(khz) /\ t.r = p.r /\ t.n = p.n % 256 /\ t.k = p.k
    BY DEF IsFci
  <2>2. factor = m
    BY <1>2, SMT
  <2>3. K!VcoFactor[t.band] = m
    BY <2>1, <2>2
  <2> HIDE DEF factor
  <2>4. khz * factor = v
    BY <1>3, <2>2, SMT
  <2>5. p = [r |-> r, n |-> n, k |-> k]
    BY <1>10, <2>4
  <2> HIDE DEF p
  <2>6. n % 256 = n
    BY <1>7, SMT
  <2> QED  BY <2>1, <2>3, <2>5, <2>6
<1>12. K!LoOf(t) = v \div m
  BY <1>5, <1>8, <1>9, <1>11, SMT DEF K!LoOf, K!Xtal
<1>13. m >= 2 /\ v >= v - 4 /\ v <= v + 2
  BY <1>2, SMT
<1>14. IsProduct(v, khz, m)
  BY <1>3 DEF IsProduct
<1>15. Off(v \div m, khz) <= 2
  BY <1>0, <1>13, <1>14, NearMultiple
<1> QED  BY <1>12, <1>15

(****************************************************************************)
(* The R82xx: what leaves the oscillator and the tracking filter alone, and *)
(* what sets them.                                                          *)
(****************************************************************************)

\* The intermediate frequency and the crystal the driver reckons with stay.
Clocked(t, u) == u.intFreq = t.intFreq /\ u.xtal = t.xtal

\* So do the PLL and the tracking filter.
Held(t, u) == /\ Clocked(t, u) /\ u.hasLock = t.hasLock
              /\ u.chip.r14 = t.chip.r14 /\ u.chip.r1b = t.chip.r1b

\* A masked write holds them, except one to the tracking filter.
LEMMA MaskHolds ==
    ASSUME NEW t, NEW reg \in DOMAIN Fields, NEW field \in Fields[reg], NEW val, NEW bad, IsR82xx(t)
    PROVE  /\ IsR82xx(Mask(t, reg, field, val, bad))
           /\ IsR82xx(R!ThenMask(t, reg, field, val, bad))
           /\ Clocked(t, Mask(t, reg, field, val, bad))
           /\ Clocked(t, R!ThenMask(t, reg, field, val, bad))
           /\ reg # "r1b" => /\ Held(t, Mask(t, reg, field, val, bad))
                             /\ Held(t, R!ThenMask(t, reg, field, val, bad))
<1> DEFINE s == [t.shadow[reg] EXCEPT ![field] = val]
           u == [t EXCEPT !.shadow[reg] = s, !.chip[reg] = IF reg \in bad THEN @ ELSE s,
                          !.ok = reg \notin bad]
<1>1. Mask(t, reg, field, val, bad) = u
  BY DEF Mask, R!r82xx_write_reg_mask, R!r82xx_write
<1>2. IsR82xx(Mask(t, reg, field, val, bad))
  BY MaskIs DEF Mask
<1>3. /\ DOMAIN t = {"shadow", "chip", "intFreq", "input", "hasLock", "initDone", "xtal", "ok"}
      /\ DOMAIN t.chip = {"r05", "r06", "r07", "r0b", "r0c", "r14", "r17", "r1b"}
      /\ DOMAIN Fields = {"r05", "r06", "r07", "r0b", "r0c", "r17", "r1b"}
  BY DEF IsR82xx, IsRegs, Fields
<1>4. /\ Clocked(t, u) /\ u.hasLock = t.hasLock
      /\ \A r \in DOMAIN t.chip \ {reg} : u.chip[r] = t.chip[r]
  BY <1>3 DEF Clocked
<1> HIDE DEF u
<1>5. reg # "r1b" => Held(t, u)
  BY <1>3, <1>4 DEF Held
<1>6. R!ThenMask(t, reg, field, val, bad) = IF t.ok THEN u ELSE t
  BY <1>1 DEF R!ThenMask, Mask
<1>7. Held(t, t) /\ Clocked(t, t)
  BY DEF Held, Clocked
<1> QED  BY <1>1, <1>2, <1>4, <1>5, <1>6, <1>7

\* One routine after another.
LEMMA HeldTrans ==
    /\ \A t : Held(t, t) /\ Clocked(t, t)
    /\ \A t, u : Held(t, u) => Clocked(t, u)
    /\ \A t, u, v : Held(t, u) /\ Held(u, v) => Held(t, v)
    /\ \A t, u, v : Clocked(t, u) /\ Clocked(u, v) => Clocked(t, v)
BY DEF Held, Clocked

\* So does a register written as a whole.
LEMMA WriteHolds ==
    ASSUME NEW t, NEW reg \in DOMAIN Fields, reg # "r1b", NEW val, DOMAIN val = Fields[reg], NEW bad,
           IsR82xx(t)
    PROVE  /\ IsR82xx(R!r82xx_write(t, reg, val, bad)) /\ Held(t, R!r82xx_write(t, reg, val, bad))
           /\ IsR82xx(R!ThenWrite(t, reg, val, bad)) /\ Held(t, R!ThenWrite(t, reg, val, bad))
<1> DEFINE u == [t EXCEPT !.shadow[reg] = val, !.chip[reg] = IF reg \in bad THEN @ ELSE val,
                          !.ok = reg \notin bad]
<1>1. R!r82xx_write(t, reg, val, bad) = u
  BY DEF R!r82xx_write
<1>2. IsR82xx(R!r82xx_write(t, reg, val, bad))
  BY WriteIs
<1>3. /\ DOMAIN t = {"shadow", "chip", "intFreq", "input", "hasLock", "initDone", "xtal", "ok"}
      /\ DOMAIN t.chip = {"r05", "r06", "r07", "r0b", "r0c", "r14", "r17", "r1b"}
      /\ DOMAIN Fields = {"r05", "r06", "r07", "r0b", "r0c", "r17", "r1b"}
  BY DEF IsR82xx, IsRegs, Fields
<1>4. /\ Clocked(t, u) /\ u.hasLock = t.hasLock
      /\ \A r \in DOMAIN t.chip \ {reg} : u.chip[r] = t.chip[r]
  BY <1>3 DEF Clocked
<1> HIDE DEF u
<1>5. Held(t, u)
  BY <1>3, <1>4 DEF Held
<1>6. R!ThenWrite(t, reg, val, bad) = IF t.ok THEN u ELSE t
  BY <1>1 DEF R!ThenWrite
<1> QED  BY <1>1, <1>2, <1>5, <1>6, HeldTrans

\* Both gains hold the oscillator.
LEMMA GainHolds ==
    ASSUME NEW t, NEW manual, NEW gain, NEW bad, IsR82xx(t)
    PROVE  /\ Held(t, R!r82xx_set_gain(t, manual, gain, bad))
           /\ Held(t, R!r82xx_set_if_gain(t, gain, bad))
<1> DEFINE auto == ~manual
           lna == R!GainIndices(gain).lna
           mix == R!GainIndices(gain).mix
           vga == R!VgaIndex(gain)
           u == Mask(t, "r05", "auto", auto, bad)
           v == R!ThenMask(u, "r07", "auto", auto, bad)
           w == R!ThenMask(v, "r05", "lna", lna, bad)
           x == R!ThenMask(w, "r07", "mix", mix, bad)
           y == Mask(t, "r0c", "vga", vga, bad)
<1>1. R!r82xx_set_gain(t, manual, gain, bad) = IF manual THEN x ELSE v
  BY DEF R!r82xx_set_gain, Mask
<1>2. R!r82xx_set_if_gain(t, gain, bad) = y
  BY DEF R!r82xx_set_if_gain, Mask
<1>3. /\ "r05" \in DOMAIN Fields /\ {"auto", "lna"} \subseteq Fields["r05"]
      /\ "r07" \in DOMAIN Fields /\ {"auto", "mix"} \subseteq Fields["r07"]
      /\ "r0c" \in DOMAIN Fields /\ "vga" \in Fields["r0c"]
  BY DEF Fields
<1> HIDE DEF auto, lna, mix, vga
<1>4. Held(t, y)
  BY <1>3, MaskHolds
<1> HIDE DEF y
<1>5. IsR82xx(u) /\ Held(t, u)
  BY <1>3, MaskHolds
<1> HIDE DEF u
<1>6. IsR82xx(v) /\ Held(u, v)
  BY <1>3, <1>5, MaskHolds
<1> HIDE DEF v
<1>7. IsR82xx(w) /\ Held(v, w)
  BY <1>3, <1>6, MaskHolds
<1> HIDE DEF w
<1>8. IsR82xx(x) /\ Held(w, x)
  BY <1>3, <1>7, MaskHolds
<1> HIDE DEF x
<1> QED  BY <1>1, <1>2, <1>4, <1>5, <1>6, <1>7, <1>8, HeldTrans

\* Standby holds it.
LEMMA StandbyHolds ==
    ASSUME NEW t, NEW bad, IsR82xx(t)
    PROVE  Held(t, R!r82xx_standby(t, bad))
<1> DEFINE S == R!StandbyRegs
           u == R!r82xx_write(t, "r06", S.r06, bad)
           v == R!ThenWrite(u, "r05", S.r05, bad)
           w == R!ThenWrite(v, "r07", S.r07, bad)
           x == R!ThenWrite(w, "r0c", S.r0c, bad)
           y == R!ThenWrite(x, "r17", S.r17, bad)
           z == [t EXCEPT !.ok = TRUE]
<1>1. R!r82xx_standby(t, bad) = IF ~t.initDone THEN z ELSE y
  BY DEF R!r82xx_standby
<1>2. Held(t, z)
  BY DEF IsR82xx, Held, Clocked
<1> HIDE DEF z
<1>3. /\ DOMAIN S.r06 = Fields["r06"] /\ DOMAIN S.r05 = Fields["r05"]
      /\ DOMAIN S.r07 = Fields["r07"] /\ DOMAIN S.r0c = Fields["r0c"]
      /\ DOMAIN S.r17 = Fields["r17"]
  BY DEF R!StandbyRegs, Fields
<1>4. DOMAIN Fields = {"r05", "r06", "r07", "r0b", "r0c", "r17", "r1b"}
  BY DEF Fields
<1> HIDE DEF S
<1>5. IsR82xx(u) /\ Held(t, u)
  BY <1>3, <1>4, WriteHolds
<1> HIDE DEF u
<1>6. IsR82xx(v) /\ Held(u, v)
  BY <1>3, <1>4, <1>5, WriteHolds
<1> HIDE DEF v
<1>7. IsR82xx(w) /\ Held(v, w)
  BY <1>3, <1>4, <1>6, WriteHolds
<1> HIDE DEF w
<1>8. IsR82xx(x) /\ Held(w, x)
  BY <1>3, <1>4, <1>7, WriteHolds
<1> HIDE DEF x
<1>9. IsR82xx(y) /\ Held(x, y)
  BY <1>3, <1>4, <1>8, WriteHolds
<1> HIDE DEF y
<1> QED  BY <1>1, <1>2, <1>5, <1>6, <1>7, <1>8, <1>9, HeldTrans

\* A bandwidth notes the filter's intermediate frequency and holds the rest.
LEMMA BandwidthHolds ==
    ASSUME NEW t, NEW bw \in Nat, NEW bad, IsR82xx(t)
    PROVE  LET w == R!r82xx_set_bandwidth(t, bw, bad) IN w.xtal = t.xtal
<1> DEFINE f == R!FilterOf(bw)
           s == [t EXCEPT !.intFreq = f.int]
           w == Mask(s, "r0b", "width", f.reg, bad)
<1>1. R!r82xx_set_bandwidth(t, bw, bad) = w
  BY DEF R!r82xx_set_bandwidth, Mask
<1>2. f.int \in Nat /\ f.int <= 4570
  BY FilterIntIs
<1> HIDE DEF f
<1>3. IsR82xx(s) /\ s.xtal = t.xtal
  BY <1>2 DEF IsR82xx
<1> HIDE DEF s
<1>4. "r0b" \in DOMAIN Fields /\ "width" \in Fields["r0b"]
  BY DEF Fields
<1>5. Held(s, w)
  BY <1>3, <1>4, MaskHolds
<1> QED  BY <1>1, <1>3, <1>5 DEF Held, Clocked

\* The tracking filter is set to the range of the oscillator.
LEMMA MuxHolds ==
    ASSUME NEW t, NEW khz, NEW bad, IsR82xx(t)
    PROVE  LET v == R!r82xx_set_mux(t, khz, bad) IN
           /\ IsR82xx(v) /\ Clocked(t, v)
           /\ bad = {} => v.chip.r1b.tf = R!RangeOf(khz)
<1> DEFINE a == R!RangeOf(khz) <= 6
           b == R!RangeOf(khz)
           u == Mask(t, "r17", "open", a, bad)
           v == R!ThenMask(u, "r1b", "tf", b, bad)
<1>1. R!r82xx_set_mux(t, khz, bad) = v
  BY DEF R!r82xx_set_mux, Mask
<1>2. /\ "r17" \in DOMAIN Fields /\ "open" \in Fields["r17"]
      /\ "r1b" \in DOMAIN Fields /\ "tf" \in Fields["r1b"]
  BY DEF Fields
<1> HIDE DEF a, b
<1>3. IsR82xx(u) /\ Clocked(t, u) /\ u.ok = ("r17" \notin bad)
  BY <1>2, MaskHolds, MaskIs DEF Mask
<1> HIDE DEF u
<1>4. IsR82xx(v) /\ Clocked(u, v)
  BY <1>2, <1>3, MaskHolds
<1>5. bad = {} => v.chip.r1b.tf = b
  <2> SUFFICES ASSUME bad = {} PROVE v.chip.r1b.tf = b
    OBVIOUS
  <2> DEFINE w == R!r82xx_write_reg_mask(u, "r1b", "tf", b, bad)
  <2>1. v = w
    BY <1>3 DEF R!ThenMask
  <2> HIDE DEF v, w
  <2>2. w = R!r82xx_write_reg_mask(u, "r1b", "tf", b, bad)
    BY DEF w
  <2>3. w.shadow["r1b"]["tf"] = b /\ ("r1b" \notin bad => w.chip["r1b"] = w.shadow["r1b"])
    BY <1>2, <1>3, <2>2, MaskSetsField
  <2> QED  BY <2>1, <2>3
<1> HIDE DEF v
<1> QED  BY <1>1, <1>3, <1>4, <1>5, HeldTrans DEF b

\* An oscillator at lo, unless it does not lock, computed with a correction.
OnLo(t, lo, corr) == t.hasLock => Off(R!LoOf(t.chip.r14), lo) <= 2 /\ t.chip.r14.corr = corr

\* The PLL is set to the frequency, or says that it does not lock.
LEMMA PllHolds ==
    ASSUME NEW t, NEW khz \in Nat, NEW corr, NEW bad, IsR82xx(t)
    PROVE  LET v == R!r82xx_set_pll(t, khz, corr, bad) IN
           /\ IsR82xx(v) /\ Clocked(t, v) /\ v.chip.r1b = t.chip.r1b
           /\ v.ok => OnLo(v, khz, corr)
<1> DEFINE div  == R!MixDiv(khz)
           nint == (khz * div) \div (2 * R!PllRef)
           fra  == khz * div - 2 * R!PllRef * nint
           sdm  == R!Sdm(fra)
           pll  == [mixDiv |-> div, nint |-> nint, sdm |-> sdm, corr |-> corr]
           u == R!r82xx_write(t, "r14", pll, bad)
           lock == div <= 64 /\ "lock" \notin bad
           w == IF u.ok THEN [u EXCEPT !.hasLock = lock] ELSE u
           v == R!r82xx_set_pll(t, khz, corr, bad)
           z == [t EXCEPT !.ok = FALSE]
<1>1. v = IF nint > 63 THEN z ELSE w
  BY DEF R!r82xx_set_pll, R!Then
<1>2. IsR82xx(v)
  BY PllLeaves, LeavesTrans
<1>3. IsPll(pll, khz) /\ pll.corr = corr
  BY DEF IsPll
<1>4. lock => R!MixDiv(khz) <= 64
  OBVIOUS
<1>5. lock => Off(R!LoOf(pll), khz) <= 2
  <2> SUFFICES ASSUME lock PROVE Off(R!LoOf(pll), khz) <= 2
    OBVIOUS
  <2> HIDE DEF pll, lock, div
  <2>1. R!MixDiv(khz) <= 64
    BY <1>4
  <2> QED  BY <1>3, <2>1, RafaelLo
<1> HIDE DEF nint, pll, lock, sdm
<1>6. /\ DOMAIN t = {"shadow", "chip", "intFreq", "input", "hasLock", "initDone", "xtal", "ok"}
      /\ DOMAIN t.chip = {"r05", "r06", "r07", "r0b", "r0c", "r14", "r17", "r1b"}
  BY DEF IsR82xx, IsRegs
<1>7. z.ok = FALSE /\ Clocked(t, z) /\ z.chip = t.chip
  BY <1>6 DEF Clocked
<1>8. u = [t EXCEPT !.shadow["r14"] = pll, !.chip["r14"] = IF "r14" \in bad THEN @ ELSE pll,
                    !.ok = "r14" \notin bad]
  BY DEF R!r82xx_write
<1>9. /\ DOMAIN u = DOMAIN t /\ u.ok = ("r14" \notin bad) /\ Clocked(t, u)
      /\ u.chip.r1b = t.chip.r1b /\ ("r14" \notin bad => u.chip.r14 = pll)
  <2> HIDE DEF u
  <2>1. DOMAIN u = DOMAIN t /\ u.ok = ("r14" \notin bad)
    BY <1>6, <1>8
  <2>2. u.intFreq = t.intFreq /\ u.xtal = t.xtal
    BY <1>6, <1>8
  <2>3. u.chip = [t.chip EXCEPT !["r14"] = IF "r14" \in bad THEN @ ELSE pll]
    BY <1>6, <1>8
  <2>4. u.chip.r1b = t.chip.r1b /\ ("r14" \notin bad => u.chip.r14 = pll)
    BY <1>6, <2>3
  <2> QED  BY <2>1, <2>2, <2>4 DEF Clocked
<1> HIDE DEF u
<1>10. Clocked(t, w) /\ w.ok = u.ok /\ w.chip = u.chip /\ (u.ok => w.hasLock = lock)
  BY <1>6, <1>9 DEF Clocked
<1> HIDE DEF w, z, v
<1>11. w.ok => OnLo(w, khz, corr)
  BY <1>3, <1>5, <1>9, <1>10 DEF OnLo
<1> QED  BY <1>1, <1>2, <1>7, <1>9, <1>10, <1>11 DEF v

\* The antenna switch holds the oscillator.
LEMMA SwitchHolds ==
    ASSUME NEW t, NEW band, NEW bad, IsR82xx(t)
    PROVE  Held(t, R!switchInput(t, band, bad))
<1> DEFINE s == [t EXCEPT !.input = band]
           a == band = "hf"
           b == band = "vhf"
           c == band = "uhf"
           u == Mask(s, "r06", "cable2", a, bad)
           v == R!ThenMask(u, "r05", "cable1", b, bad)
           w == R!ThenMask(v, "r05", "air", c, bad)
<1>1. R!switchInput(t, band, bad) = IF band = t.input THEN t ELSE w
  BY DEF R!switchInput, Mask
<1>2. IsR82xx(s) /\ Held(t, s)
  BY DEF IsR82xx, Held, Clocked
<1> HIDE DEF s, a, b, c
<1>3. /\ "r06" \in DOMAIN Fields /\ "r05" \in DOMAIN Fields
      /\ "cable2" \in Fields["r06"] /\ {"cable1", "air"} \subseteq Fields["r05"]
  BY DEF Fields
<1>4. IsR82xx(u) /\ Held(s, u)
  BY <1>2, <1>3, MaskHolds
<1> HIDE DEF u
<1>5. IsR82xx(v) /\ Held(u, v)
  BY <1>3, <1>4, MaskHolds
<1> HIDE DEF v
<1>6. Held(v, w)
  BY <1>3, <1>5, MaskHolds
<1> HIDE DEF w
<1> QED  BY <1>1, <1>2, <1>4, <1>5, <1>6, HeldTrans

\* Where the oscillator of an R82xx belongs: above the frequency, and for a
\* V4 behind its up-converter.
LoFor(t, khz, v4) == t.intFreq + khz + (IF v4 /\ khz < 28800 THEN 28800 ELSE 0)

\* A tuning that succeeds sets oscillator and tracking filter to it.
LEMMA SetFreqHolds ==
    ASSUME NEW t, NEW khz \in Nat, NEW v4 \in BOOLEAN, NEW bad, IsR82xx(t)
    PROVE  LET w == R!r82xx_set_freq(t, khz, v4, bad) IN
           /\ Clocked(t, w)
           /\ bad = {} /\ w.ok => /\ OnLo(w, LoFor(t, khz, v4), t.xtal)
                                  /\ w.chip.r1b.tf = R!RangeOf(LoFor(t, khz, v4))
<1> DEFINE lo == t.intFreq + (IF v4 /\ khz < 28800 THEN khz + 28800 ELSE khz)
           m == R!r82xx_set_mux(t, lo, bad)
           p == R!r82xx_set_pll(m, lo, m.xtal, bad)
           tuned == IF m.ok THEN p ELSE m
           a == ~R!Notched(khz)
           n == Mask(tuned, "r17", "open", a, bad)
           band == R!BandOf(khz)
           s == R!switchInput(n, band, bad)
           w == IF ~tuned.ok \/ ~(tuned.hasLock /\ v4) THEN tuned ELSE IF n.ok THEN s ELSE n
<1>1. R!r82xx_set_freq(t, khz, v4, bad) = w
  BY DEF R!r82xx_set_freq, R!Then, Mask
<1>2. t.intFreq \in Nat
  BY DEF IsR82xx
<1>3. lo \in Nat /\ lo = LoFor(t, khz, v4)
  BY <1>2 DEF LoFor
<1> HIDE DEF lo
<1>4. IsR82xx(m) /\ Clocked(t, m) /\ (bad = {} => m.chip.r1b.tf = R!RangeOf(lo) /\ m.ok)
  BY MuxHolds, MuxLeaves
<1>5. m.xtal = t.xtal
  BY <1>4 DEF Clocked
<1> HIDE DEF m
<1>6. IsR82xx(p) /\ Clocked(m, p) /\ p.chip.r1b = m.chip.r1b /\ (p.ok => OnLo(p, lo, m.xtal))
  BY <1>3, <1>4, PllHolds
<1> HIDE DEF p
<1>7. IsR82xx(tuned) /\ Clocked(t, tuned)
  BY <1>4, <1>6, HeldTrans
<1>8. bad = {} /\ tuned.ok => OnLo(tuned, lo, t.xtal) /\ tuned.chip.r1b.tf = R!RangeOf(lo)
  BY <1>4, <1>5, <1>6
<1> HIDE DEF tuned, a
<1>9. IsR82xx(n) /\ Held(tuned, n)
  <2>1. "r17" \in DOMAIN Fields /\ "open" \in Fields["r17"]
    BY DEF Fields
  <2> QED  BY <1>7, <2>1, MaskHolds
<1> HIDE DEF n, band
<1>10. Held(n, s)
  BY <1>9, SwitchHolds
<1> HIDE DEF s
<1>11. Held(tuned, w) /\ (w.ok => tuned.ok \/ w = tuned)
  BY <1>9, <1>10, HeldTrans
<1> HIDE DEF w
<1>12. Clocked(t, w)
  BY <1>7, <1>11, HeldTrans
<1>13. ASSUME bad = {}, w.ok
       PROVE  OnLo(w, lo, t.xtal) /\ w.chip.r1b.tf = R!RangeOf(lo)
  BY <1>8, <1>11, <1>13 DEF OnLo, Held
<1> QED  BY <1>1, <1>3, <1>12, <1>13

\* The choice of the television standard reckons with the same crystal and,
\* with all in reach, an intermediate frequency of 3570 kHz.
LEMMA StandardHolds ==
    ASSUME NEW t, NEW bad, IsR82xx(t)
    PROVE  LET u == R!r82xx_set_tv_standard(t, bad) IN
           u.xtal = t.xtal /\ (bad = {} => u.intFreq = 3570)
<1> DEFINE s == [t EXCEPT !.shadow = R!InitRegs]
           vga == Mask(s, "r0c", "vga", 0, bad)
           f == [vga EXCEPT !.intFreq = 3570]
           g == Mask(f, "r0b", "width", 107, bad)
           width == IF vga.ok THEN g ELSE vga
           lo == 56000
           p == R!r82xx_set_pll(width, lo, width.xtal, bad)
           pll == IF width.ok THEN p ELSE width
           filter == R!ThenMask(pll, "r0b", "width", 107, bad)
           yes == TRUE
           mixer == R!ThenMask(filter, "r07", "auto", yes, bad)
           awake == R!ThenMask(mixer, "r06", "awake", yes, bad)
           last == R!ThenMask(awake, "r05", "auto", yes, bad)
<1>1. R!r82xx_set_tv_standard(t, bad) = IF pll.ok /\ pll.hasLock THEN last ELSE pll
  BY DEF R!r82xx_set_tv_standard, R!Calibrated, R!Then, Mask
<1>2. /\ "r0c" \in DOMAIN Fields /\ "vga" \in Fields["r0c"]
      /\ "r0b" \in DOMAIN Fields /\ "width" \in Fields["r0b"]
      /\ "r07" \in DOMAIN Fields /\ "auto" \in Fields["r07"]
      /\ "r06" \in DOMAIN Fields /\ "awake" \in Fields["r06"]
      /\ "r05" \in DOMAIN Fields /\ "auto" \in Fields["r05"]
  BY DEF Fields
<1>3. IsR82xx(s) /\ s.xtal = t.xtal
  BY InitRegsAre DEF IsR82xx
<1>3a. lo \in Nat
  OBVIOUS
<1> HIDE DEF s, yes, lo
<1>4. IsR82xx(vga) /\ vga.ok = ("r0c" \notin bad) /\ vga.xtal = s.xtal
  BY <1>2, <1>3, MaskHolds, MaskIs DEF Mask, Clocked
<1> HIDE DEF vga
<1>5. IsR82xx(f) /\ f.xtal = vga.xtal /\ f.intFreq = 3570
  BY <1>4 DEF IsR82xx
<1> HIDE DEF f
<1>6. IsR82xx(g) /\ Clocked(f, g)
  BY <1>2, <1>5, MaskHolds
<1> HIDE DEF g
<1>7. IsR82xx(width) /\ width.xtal = t.xtal /\ (bad = {} => width.intFreq = 3570)
  <2>1. width = g \/ (width = vga /\ ~vga.ok)
    OBVIOUS
  <2>2. bad = {} => vga.ok
    BY <1>4
  <2> HIDE DEF width
  <2>3. g.xtal = t.xtal /\ g.intFreq = 3570
    BY <1>3, <1>4, <1>5, <1>6 DEF Clocked
  <2> QED  BY <1>3, <1>4, <1>6, <2>1, <2>2, <2>3
<1> HIDE DEF width
<1>8. IsR82xx(p) /\ Clocked(width, p)
  BY <1>3a, <1>7, PllHolds
<1> HIDE DEF p
<1>9. IsR82xx(pll) /\ Clocked(width, pll)
  BY <1>7, <1>8, HeldTrans
<1> HIDE DEF pll
<1>10. IsR82xx(filter) /\ Clocked(pll, filter)
  BY <1>2, <1>9, MaskHolds
<1> HIDE DEF filter
<1>11. IsR82xx(mixer) /\ Clocked(filter, mixer)
  BY <1>2, <1>10, MaskHolds
<1> HIDE DEF mixer
<1>12. IsR82xx(awake) /\ Clocked(mixer, awake)
  BY <1>2, <1>11, MaskHolds
<1> HIDE DEF awake
<1>13. Clocked(awake, last)
  BY <1>2, <1>12, MaskHolds
<1> HIDE DEF last
<1> QED  BY <1>1, <1>7, <1>9, <1>10, <1>11, <1>12, <1>13 DEF Clocked

\* So does the initialisation.
LEMMA InitHolds ==
    ASSUME NEW t, NEW bad, IsR82xx(t)
    PROVE  LET u == R!r82xx_init(t, bad) IN
           u.xtal = t.xtal /\ (bad = {} => u.intFreq = 3570)
<1> DEFINE a == R!writeInitArray(t, bad)
           s == R!r82xx_set_tv_standard(a, bad)
           no == FALSE
           yes == TRUE
           i == [s EXCEPT !.input = "air"]
           u == Mask(i, "r05", "cable1", no, bad)
           v == R!ThenMask(u, "r05", "air", yes, bad)
           y == R!ThenMask(v, "r06", "cable2", no, bad)
           z == [y EXCEPT !.initDone = TRUE]
<1>1. R!r82xx_init(t, bad) = IF s.ok THEN z ELSE s
  BY DEF R!r82xx_init, R!Then, R!r82xx_sysfreq_sel, Mask
<1>2. IsR82xx(a) /\ a.xtal = t.xtal
  <2>1. a.xtal = t.xtal
    BY DEF R!writeInitArray, IsR82xx
  <2> HIDE DEF a
  <2>2. a = R!writeInitArray(t, bad)
    BY DEF a
  <2> QED  BY <2>1, <2>2, ArrayIs
<1> HIDE DEF a
<1>3. IsR82xx(s) /\ s.xtal = a.xtal /\ (bad = {} => s.intFreq = 3570)
  BY <1>2, StandardIs, StandardHolds
<1> HIDE DEF s
<1>4. IsR82xx(i) /\ Clocked(s, i)
  BY <1>3 DEF IsR82xx, Clocked
<1> HIDE DEF i, no, yes
<1>5. /\ "r05" \in DOMAIN Fields /\ "cable1" \in Fields["r05"] /\ "air" \in Fields["r05"]
      /\ "r06" \in DOMAIN Fields /\ "cable2" \in Fields["r06"]
  BY DEF Fields
<1>6. IsR82xx(u) /\ Clocked(i, u)
  BY <1>4, <1>5, MaskHolds
<1> HIDE DEF u
<1>7. IsR82xx(v) /\ Clocked(u, v)
  BY <1>5, <1>6, MaskHolds
<1> HIDE DEF v
<1>8. IsR82xx(y) /\ Clocked(v, y)
  BY <1>5, <1>7, MaskHolds
<1> HIDE DEF y
<1>9. Clocked(y, z)
  BY <1>8 DEF IsR82xx, Clocked
<1> HIDE DEF z
<1> QED  BY <1>1, <1>2, <1>3, <1>4, <1>6, <1>7, <1>8, <1>9 DEF Clocked

(****************************************************************************)
(* The Fitipower and FCI tuners.                                            *)
(****************************************************************************)

\* A set of the first ten numbers has a smallest one.
LEMMA FirstOf ==
    ASSUME NEW S, S \subseteq 1..10, S # {}
    PROVE  (CHOOSE x \in S : \A y \in S : x =< y) \in S
<1> DEFINE Least(x) == x \in S /\ \A y \in S : x =< y
<1>1. ASSUME \A x : ~Least(x) PROVE FALSE
  <2>1. 1 \notin S
    BY <1>1
  <2>2. 2 \notin S
    BY <1>1, <2>1
  <2>3. 3 \notin S
    BY <1>1, <2>1, <2>2
  <2>4. 4 \notin S
    BY <1>1, <2>1, <2>2, <2>3
  <2>5. 5 \notin S
    BY <1>1, <2>1, <2>2, <2>3, <2>4
  <2>6. 6 \notin S
    BY <1>1, <2>1, <2>2, <2>3, <2>4, <2>5
  <2>7. 7 \notin S
    BY <1>1, <2>1, <2>2, <2>3, <2>4, <2>5, <2>6
  <2>8. 8 \notin S
    BY <1>1, <2>1, <2>2, <2>3, <2>4, <2>5, <2>6, <2>7
  <2>9. 9 \notin S
    BY <1>1, <2>1, <2>2, <2>3, <2>4, <2>5, <2>6, <2>7, <2>8
  <2>10. 10 \notin S
    BY <1>1, <2>1, <2>2, <2>3, <2>4, <2>5, <2>6, <2>7, <2>8, <2>9
  <2>11. PICK e \in S : TRUE
    OBVIOUS
  <2>12. e \in 1..10
    OBVIOUS
  <2> QED  BY <2>1, <2>2, <2>3, <2>4, <2>5, <2>6, <2>7, <2>8, <2>9, <2>10, <2>11, <2>12
<1>2. PICK x : Least(x)
  BY <1>1
<1> QED  BY <1>2

\* A factor taken from a table whose factors are two at least is.
LEMMA FactorIs ==
    ASSUME NEW table, NEW above \in Nat, NEW khz, above >= 2, Len(table) \in 1..10,
           \A i \in 1..Len(table) : table[i][2] \in Nat /\ table[i][2] >= 2
    PROVE  F!MultiOf(table, above, khz) \in Nat /\ F!MultiOf(table, above, khz) >= 2
<1> DEFINE I == {i \in 1..Len(table) : khz < table[i][1]}
           j == IF I # {} THEN F!Min(I) ELSE 0
<1>1. F!MultiOf(table, above, khz) = IF j = 0 THEN above ELSE table[j][2]
  BY DEF F!MultiOf, F!SelectInSeq
<1>2. I \subseteq 1..Len(table) /\ I \subseteq 1..10
  OBVIOUS
<1> HIDE DEF I
<1>3. I # {} => F!Min(I) \in I
  BY <1>2, FirstOf DEF F!Min
<1>4. j = 0 \/ j \in 1..Len(table)
  BY <1>2, <1>3
<1> HIDE DEF j
<1> QED  BY <1>1, <1>4

\* The factor between VCO and LO is two at least.
LEMMA MultiIs ==
    ASSUME NEW khz
    PROVE  /\ F!fc0012_multi(khz) \in Nat /\ F!fc0012_multi(khz) >= 2
           /\ F!fc0013_multi(khz) \in Nat /\ F!fc0013_multi(khz) >= 2
<1> DEFINE Rows == Append(F!Multis, <<950000, 4>>)
<1>1. Len(F!Multis) = 9 /\ \A i \in 1..9 : F!Multis[i][2] \in Nat /\ F!Multis[i][2] >= 2
  <2>1. \A i \in 1..9 : i \in {1, 2, 3, 4, 5, 6, 7, 8, 9}
    BY SMT
  <2> QED  BY <2>1, SMT DEF F!Multis
<1>2. Len(Rows) = 10 /\ \A i \in 1..10 : Rows[i][2] \in Nat /\ Rows[i][2] >= 2
  <2>1. F!Multis \in Seq(Nat \X Nat)
    BY DEF F!Multis
  <2> DEFINE table == F!Multis
             last == <<950000, 4>>
             T == Nat \X Nat
  <2>2. table \in Seq(T)
    BY <2>1
  <2>3. Len(table) = 9 /\ \A i \in 1..9 : table[i][2] \in Nat /\ table[i][2] >= 2
    BY <1>1
  <2>4. last \in T /\ last[2] = 4
    BY SMT
  <2>5. Rows = Append(table, last)
    OBVIOUS
  <2> HIDE DEF table, last, Rows, T
  <2>6. Len(Rows) = 10 /\ (\A i \in 1..9 : Rows[i] = table[i]) /\ Rows[10] = last
    <3>1. /\ Len(Append(table, last)) = Len(table) + 1
          /\ \A i \in 1..Len(table) : Append(table, last)[i] = table[i]
          /\ Append(table, last)[Len(table) + 1] = last
      BY <2>2, <2>4, AppendProperties
    <3>2. Len(table) = 9 /\ Len(table) + 1 = 10 /\ Append(table, last) = Rows
      BY <2>3, <2>5
    <3>3. Len(Rows) = 10 /\ Rows[10] = last
      BY <3>1, <3>2
    <3>4. \A i \in 1..9 : Rows[i] = table[i]
      BY <3>1, <3>2
    <3> QED  BY <3>3, <3>4
  <2>7. \A i \in 1..9 : Rows[i][2] \in Nat /\ Rows[i][2] >= 2
    BY <2>3, <2>6
  <2>8. Rows[10][2] \in Nat /\ Rows[10][2] >= 2
    BY <2>4, <2>6
  <2>9. \A i \in 1..10 : i \in 1..9 \/ i = 10
    OBVIOUS
  <2> QED  BY <2>6, <2>7, <2>8, <2>9
<1>3. F!fc0012_multi(khz) = F!MultiOf(F!Multis, 4, khz)
  BY DEF F!fc0012_multi
<1>4. F!fc0013_multi(khz) = F!MultiOf(Rows, 2, khz)
  BY DEF F!fc0013_multi
<1> HIDE DEF Rows
<1>5. F!MultiOf(F!Multis, 4, khz) \in Nat /\ F!MultiOf(F!Multis, 4, khz) >= 2
  <2> DEFINE table == F!Multis
  <2>1. Len(table) \in 1..10
    BY <1>1
  <2>2. \A i \in 1..Len(table) : table[i][2] \in Nat /\ table[i][2] >= 2
    BY <1>1
  <2> HIDE DEF table
  <2>3. F!MultiOf(table, 4, khz) \in Nat /\ F!MultiOf(table, 4, khz) >= 2
    BY <2>1, <2>2, FactorIs
  <2> QED  BY <2>3 DEF table
<1>6. F!MultiOf(Rows, 2, khz) \in Nat /\ F!MultiOf(Rows, 2, khz) >= 2
  <2>1. Len(Rows) \in 1..10
    BY <1>2
  <2>2. \A i \in 1..Len(Rows) : Rows[i][2] \in Nat /\ Rows[i][2] >= 2
    BY <1>2
  <2> QED  BY <2>1, <2>2, FactorIs
<1> QED  BY <1>3, <1>4, <1>5, <1>6

\* What the oscillator of a Fitipower tuner is made of.
FitipowerSame(t, u) ==
    u.multi = t.multi /\ u.am = t.am /\ u.pm = t.pm /\ u.xin = t.xin /\ u.corr = t.corr

\* A Fitipower tuner on a frequency within reach of the factor it has.
OnVco(t, khz, corr) ==
    /\ F!InReach(khz, t.multi) => Off(F!LoOf(t), khz) <= 2
    /\ t.corr = corr

\* The PLL of a Fitipower tuner, when set, is on its frequency.
LEMMA SetPllLo ==
    ASSUME NEW t, NEW khz \in Nat, NEW multi \in Nat, multi >= 2, NEW corr, NEW bad,
           {"multi", "am", "pm", "xin", "fast", "corr", "ok"} \subseteq DOMAIN t,
           NEW u, u = F!SetPll(t, khz, multi, corr, bad), u.ok
    PROVE  OnVco(u, khz, corr)
<1> DEFINE vco == F!Vco(khz, multi)
           c == F!Combination(vco)
           x == F!Xin(vco)
           fast == (vco >= 3060000) # ("vco" \in bad)
           w == [t EXCEPT !.multi = multi, !.am = c.am, !.pm = c.pm, !.xin = x, !.fast = fast,
                          !.corr = corr, !.ok = "cal" \notin bad]
           z == [t EXCEPT !.ok = FALSE]
<1>1. u = IF ~F!ValidCombination(c) \/ "pll" \in bad THEN z ELSE w
  BY DEF F!SetPll
<1>2. z.ok = FALSE
  OBVIOUS
<1> HIDE DEF c, x, fast
<1>3. w.multi = multi /\ w.am = c.am /\ w.pm = c.pm /\ w.xin = x /\ w.corr = corr
  OBVIOUS
<1> HIDE DEF w, z, vco
<1>4. u = w
  BY <1>1, <1>2
<1>5. u.multi = multi /\ u.am = c.am /\ u.pm = c.pm /\ u.xin = x /\ u.corr = corr
  BY <1>3, <1>4
<1>6. F!InReach(khz, multi) => Off(F!LoOf(u), khz) <= 2
  BY <1>5, FitipowerLo DEF c, x, vco
<1> QED  BY <1>5, <1>6 DEF OnVco

\* So is the tuner after a tuning that succeeds.
LEMMA ParamsLo ==
    ASSUME NEW t, NEW khz \in Nat, NEW corr, NEW bad, NEW u, u.ok,
           \/ IsChip("FC0012", t) /\ u = F!fc0012_set_params(t, khz, corr, bad)
           \/ IsChip("FC0013", t) /\ u = F!fc0013_set_params(t, khz, corr, bad)
    PROVE  OnVco(u, khz, corr)
<1> DEFINE S == {"multi", "am", "pm", "xin", "fast", "corr", "ok"}
<1>1. CASE IsChip("FC0012", t) /\ u = F!fc0012_set_params(t, khz, corr, bad)
  <2> DEFINE m == F!fc0012_multi(khz)
  <2>1. m \in Nat /\ m >= 2
    BY MultiIs
  <2>2. u = F!SetPll(t, khz, m, corr, bad)
    BY <1>1 DEF F!fc0012_set_params
  <2>3. S \subseteq DOMAIN t
    BY <1>1 DEF IsChip, F!fc0012_regs
  <2> HIDE DEF m
  <2> QED  BY <2>1, <2>2, <2>3, SetPllLo
<1>2. CASE IsChip("FC0013", t) /\ u = F!fc0013_set_params(t, khz, corr, bad)
  <2> DEFINE m == F!fc0013_multi(khz)
             a == F!fc0013_set_vhf_track(t, khz, bad)
             b == IF a.ok THEN F!SetBand(a, khz, bad) ELSE a
             w == F!SetPll(b, khz, m, corr, bad)
  <2>1. m \in Nat /\ m >= 2
    BY MultiIs
  <2>2. u = IF b.ok THEN w ELSE b
    BY <1>2 DEF F!fc0013_set_params
  <2>3. DOMAIN t = DOMAIN F!fc0013_regs
    BY <1>2 DEF IsChip
  <2> HIDE DEF m
  <2>4. DOMAIN a = DOMAIN t
    BY DEF F!fc0013_set_vhf_track
  <2> HIDE DEF a
  <2>5. DOMAIN b = DOMAIN t
    BY <2>4 DEF F!SetBand
  <2> HIDE DEF b
  <2>6. u = w
    BY <2>2
  <2>7. S \subseteq DOMAIN b
    BY <2>3, <2>5 DEF F!fc0013_regs
  <2>8. u = F!SetPll(b, khz, m, corr, bad)
    BY <2>6
  <2> HIDE DEF w, S
  <2> QED  BY <2>1, <2>7, <2>8, SetPllLo DEF S
<1> QED  BY <1>1, <1>2

\* The gain of a Fitipower tuner has no part in its oscillator.
LEMMA FitipowerGain ==
    ASSUME NEW t, NEW gain, NEW manual, NEW bad
    PROVE  /\ DOMAIN t = DOMAIN F!fc0012_regs => FitipowerSame(t, F!fc0012_set_gain(t, gain, bad))
           /\ DOMAIN t = DOMAIN F!fc0013_regs
                => /\ FitipowerSame(t, F!fc0013_set_lna_gain(t, gain, bad))
                   /\ FitipowerSame(t, F!fc0013_set_gain_mode(t, manual, bad))
<1> DEFINE code == CASE gain = -99 -> 2 [] gain = -40 -> 0 [] gain = 71 -> 8
                     [] gain = 179 -> 23 [] OTHER -> 16
<1>1. F!fc0012_set_gain(t, gain, bad) = IF "gain" \in bad THEN [t EXCEPT !.ok = FALSE]
                                        ELSE [t EXCEPT !.lna = code, !.ok = TRUE]
  BY DEF F!fc0012_set_gain
<1> HIDE DEF code
<1>2. DOMAIN t = DOMAIN F!fc0012_regs => FitipowerSame(t, F!fc0012_set_gain(t, gain, bad))
  BY <1>1 DEF FitipowerSame, F!fc0012_regs
<1>3. DOMAIN t = DOMAIN F!fc0013_regs => FitipowerSame(t, F!fc0013_set_lna_gain(t, gain, bad))
  BY DEF FitipowerSame, F!fc0013_regs, F!fc0013_set_lna_gain
<1>4. DOMAIN t = DOMAIN F!fc0013_regs => FitipowerSame(t, F!fc0013_set_gain_mode(t, manual, bad))
  BY DEF FitipowerSame, F!fc0013_regs, F!fc0013_set_gain_mode
<1> QED  BY <1>2, <1>3, <1>4

\* An FC2580.
IsFcChip(t) == DOMAIN t = DOMAIN K!fc2580_regs

\* What its oscillator is made of.
FciSame(t, u) == u.band = t.band /\ u.r = t.r /\ u.n = t.n /\ u.k = t.k

\* Its filter has no part in that.
LEMMA FciFilter ==
    ASSUME NEW t, NEW mode, NEW bad, IsFcChip(t)
    PROVE  /\ LET u == K!fc2580_set_filter(t, mode, bad) IN IsFcChip(u) /\ FciSame(t, u)
           /\ LET u == K!fc2580_SetBandwidthMode(t, bad) IN IsFcChip(u) /\ FciSame(t, u)
<1>1. ASSUME NEW s, IsFcChip(s), NEW m
      PROVE  LET u == K!fc2580_set_filter(s, m, bad) IN IsFcChip(u) /\ FciSame(s, u)
  BY <1>1 DEF K!fc2580_set_filter, IsFcChip, FciSame, K!fc2580_regs
<1> DEFINE s == [t EXCEPT !.ok = TRUE]
<1>2. IsFcChip(s) /\ FciSame(t, s)
  BY DEF IsFcChip, FciSame, K!fc2580_regs
<1>3. K!fc2580_SetBandwidthMode(t, bad) = K!fc2580_set_filter(s, 1, bad)
  BY DEF K!fc2580_SetBandwidthMode
<1> HIDE DEF s
<1> QED  BY <1>1, <1>2, <1>3 DEF FciSame

\* An initialisation, whether or not it succeeds, leaves an FC2580.
LEMMA FciInit ==
    ASSUME NEW t, NEW bad
    PROVE  IsFcChip(K!fc2580_Initialize(t, bad))
<1> DEFINE s == [K!fc2580_regs EXCEPT !.ok = "init" \notin bad]
<1>1. IsFcChip(s)
  BY DEF IsFcChip, K!fc2580_regs
<1>2. K!fc2580_Initialize(t, bad) = K!fc2580_set_filter(s, 8, bad)
  BY DEF K!fc2580_Initialize, K!fc2580_set_init
<1> HIDE DEF s
<1> QED  BY <1>1, <1>2, FciFilter

\* A tuning leaves an FC2580 and, with all in reach, one on the frequency.
LEMMA FciTuned ==
    ASSUME NEW t, NEW khz \in Tunable, NEW bad, IsFcChip(t)
    PROVE  LET w == K!fc2580_SetRfFreqHz(t, khz, bad) IN
           IsFcChip(w) /\ (bad = {} => Off(K!LoOf(w), khz) <= 2)
<1> DEFINE band == K!Band(khz)
           vco == khz * K!VcoFactor[band]
           p == K!Dividers(vco)
           input == IF band = "UHF" THEN K!InputOf(khz) ELSE t.input
           s == [t EXCEPT !.ok = "pll" \notin bad, !.band = band, !.input = input]
           filter == K!BandFilter[band]
           u == K!fc2580_set_filter(s, filter, bad)
           high == vco >= K!BorderFreq
           w == IF "pll" \in bad THEN u
                ELSE [u EXCEPT !.r = p.r, !.n = p.n % 256, !.k = p.k, !.high = high]
<1>0. K!fc2580_SetRfFreqHz(t, khz, bad) = w
  BY DEF K!fc2580_SetRfFreqHz, K!fc2580_set_freq
<1>1. p = K!Dividers(khz * K!VcoFactor[K!Band(khz)]) /\ band = K!Band(khz)
  OBVIOUS
<1> HIDE DEF p, band, input, filter, high, vco
<1>2. IsFcChip(s) /\ s.band = band
  BY DEF IsFcChip, K!fc2580_regs
<1> HIDE DEF s
<1>3. IsFcChip(u) /\ u.band = band
  BY <1>2, FciFilter DEF FciSame
<1> HIDE DEF u
<1>4. IsFcChip(w)
  BY <1>3 DEF IsFcChip
<1>5. bad = {} => w.band = band /\ w.r = p.r /\ w.n = p.n % 256 /\ w.k = p.k
  BY <1>3 DEF IsFcChip, K!fc2580_regs
<1> HIDE DEF w
<1>6. bad = {} => IsFci(w, khz)
  BY <1>1, <1>5 DEF IsFci
<1> QED  BY <1>0, <1>4, <1>6, FciLo

(****************************************************************************)
(* The device: oscillator and down-converter.                               *)
(****************************************************************************)

\* The oscillator is on the frequency the device notes, or, in direct
\* sampling, the down-converter is; a tracking filter follows.
OnRafael(d) ==
    LET lo == LoFor(d.t, d.freq, d.kind = "V4")
    IN  OnLo(d.t, lo, d.corr) /\ d.t.chip.r1b.tf = R!RangeOf(lo)
OnFreq(d) ==
    d.freq # 0 =>
      /\ d.direct # 0 => d.ddc = [freq |-> d.freq, corr |-> d.corr]
      /\ d.direct = 0 =>
           /\ Rafael(d.kind) => OnRafael(d)
           /\ d.kind \in {"FC0012", "FC0013"} => OnVco(d.t, d.freq, d.corr)
           /\ d.kind = "FC2580" => Off(K!LoOf(d.t), d.freq) <= 2

\* The down-converter undoes the intermediate frequency of an R82xx.
Shifted(d) == Rafael(d.kind) /\ d.direct = 0 => d.ddc.freq = d.t.intFreq

\* An R82xx reckons with the correction; an FC2580 has its registers.
ChipWhole(kind, corr, t) ==
    (Rafael(kind) => t.xtal = corr) /\ (kind = "FC2580" => IsFcChip(t))
Whole(d) == ChipWhole(d.kind, d.corr, d.t)

\* The tuner's part in that is left alone.
ChipSame(kind, t, u) ==
    /\ Rafael(kind) => Held(t, u)
    /\ kind \in {"FC0012", "FC0013"} => FitipowerSame(t, u)
    /\ kind = "FC2580" /\ IsFcChip(t) => IsFcChip(u) /\ FciSame(t, u)

\* So is the device's.
Core(d, e) ==
    /\ e.kind = d.kind /\ e.freq = d.freq /\ e.direct = d.direct /\ e.corr = d.corr /\ e.ddc = d.ddc
    /\ ChipSame(d.kind, d.t, e.t)

\* One thing after another.
LEMMA CoreTrans ==
    /\ \A kind, t : ChipSame(kind, t, t)
    /\ \A kind, t, u, v : ChipSame(kind, t, u) /\ ChipSame(kind, u, v) => ChipSame(kind, t, v)
    /\ \A d : Core(d, d)
    /\ \A d, e, g : Core(d, e) /\ Core(e, g) => Core(d, g)
<1>1. \A kind, t : ChipSame(kind, t, t)
  BY HeldTrans DEF ChipSame, FitipowerSame, FciSame
<1>2. \A kind, t, u, v : ChipSame(kind, t, u) /\ ChipSame(kind, u, v) => ChipSame(kind, t, v)
  BY HeldTrans DEF ChipSame, FitipowerSame, FciSame
<1> QED  BY <1>1, <1>2 DEF Core

\* What is left alone stays right.
LEMMA CoreKeeps ==
    ASSUME NEW d, NEW e, Core(d, e), Whole(d)
    PROVE  Whole(e) /\ (OnFreq(d) => OnFreq(e)) /\ (Shifted(d) => Shifted(e))
<1>1. /\ e.kind = d.kind /\ e.freq = d.freq /\ e.direct = d.direct /\ e.corr = d.corr
      /\ e.ddc = d.ddc
  BY DEF Core
<1>2. Rafael(d.kind) => /\ e.t.intFreq = d.t.intFreq /\ e.t.xtal = d.t.xtal
                        /\ e.t.hasLock = d.t.hasLock /\ e.t.chip.r14 = d.t.chip.r14
                        /\ e.t.chip.r1b = d.t.chip.r1b
  BY DEF Core, ChipSame, Held, Clocked
<1>3. d.kind \in {"FC0012", "FC0013"} => FitipowerSame(d.t, e.t)
  BY DEF Core, ChipSame
<1>4. d.kind = "FC2580" => IsFcChip(e.t) /\ FciSame(d.t, e.t)
  BY DEF Core, ChipSame, Whole, ChipWhole
<1>5. Whole(e)
  BY <1>1, <1>2, <1>4 DEF Whole, ChipWhole
<1>6. Shifted(d) => Shifted(e)
  BY <1>1, <1>2 DEF Shifted
<1>7. Rafael(d.kind) /\ OnRafael(d) => OnRafael(e)
  <2> DEFINE lo == LoFor(d.t, d.freq, d.kind = "V4")
  <2>1. OnRafael(d) = (OnLo(d.t, lo, d.corr) /\ d.t.chip.r1b.tf = R!RangeOf(lo))
    BY DEF OnRafael
  <2>2. Rafael(d.kind) => LoFor(e.t, e.freq, e.kind = "V4") = lo
    BY <1>1, <1>2 DEF LoFor
  <2> HIDE DEF lo
  <2>3. Rafael(d.kind) => OnRafael(e) = (OnLo(e.t, lo, e.corr) /\ e.t.chip.r1b.tf = R!RangeOf(lo))
    BY <2>2 DEF OnRafael
  <2> QED  BY <1>1, <1>2, <2>1, <2>3 DEF OnLo
<1>8. d.kind \in {"FC0012", "FC0013"} /\ OnVco(d.t, d.freq, d.corr) => OnVco(e.t, e.freq, e.corr)
  <2>1. FitipowerSame(d.t, e.t) => F!LoOf(e.t) = F!LoOf(d.t)
    BY DEF FitipowerSame, F!LoOf
  <2> QED  BY <1>1, <1>3, <2>1 DEF OnVco, FitipowerSame
<1>9. d.kind = "FC2580" => K!LoOf(e.t) = K!LoOf(d.t)
  BY <1>4 DEF FciSame, K!LoOf
<1>10. OnFreq(d) => OnFreq(e)
  BY <1>1, <1>7, <1>8, <1>9 DEF OnFreq
<1> QED  BY <1>5, <1>6, <1>10

\* Repeater, outcome, resampler, mode and numbers noted have no part in it.
LEMMA CoreFields ==
    ASSUME NEW d, Chipped(d)
    PROVE  /\ \A on : Core(d, Repeater(d, on))
           /\ \A ok : Core(d, And(d, ok)) /\ Core(d, [d EXCEPT !.ok = ok])
           /\ \A v : /\ Core(d, [d EXCEPT !.rate = v]) /\ Core(d, [d EXCEPT !.bw = v])
                     /\ Core(d, [d EXCEPT !.gain = v]) /\ Core(d, [d EXCEPT !.ratio = v])
           /\ \A mode, bad : Core(d, SetMode(d, mode, bad))
           /\ \A ppm, bad : Core(d, rtlsdr_set_sample_freq_correction(d, ppm, bad))
<1>1. DOMAIN d = DeviceFields
  BY DEF Chipped, Fine
<1>2. \A on : Core(d, Repeater(d, on))
  BY <1>1, CoreTrans DEF Core, Repeater, DeviceFields
<1>3. \A ok : Core(d, And(d, ok)) /\ Core(d, [d EXCEPT !.ok = ok])
  BY <1>1, CoreTrans DEF Core, And, DeviceFields
<1>4. \A v : Core(d, [d EXCEPT !.rate = v]) /\ Core(d, [d EXCEPT !.bw = v])
  BY <1>1, CoreTrans DEF Core, DeviceFields
<1>5. \A v : Core(d, [d EXCEPT !.gain = v]) /\ Core(d, [d EXCEPT !.ratio = v])
  BY <1>1, CoreTrans DEF Core, DeviceFields
<1>6. \A mode, bad : Core(d, SetMode(d, mode, bad))
  BY <1>1, CoreTrans DEF Core, SetMode, DeviceFields
<1>7. \A ppm, bad : Core(d, rtlsdr_set_sample_freq_correction(d, ppm, bad))
  BY <1>1, CoreTrans DEF Core, rtlsdr_set_sample_freq_correction, DeviceFields
<1> QED  BY <1>2, <1>3, <1>4, <1>5, <1>6, <1>7

\* A routine of the tuner that leaves the tuner's part alone does.
LEMMA CoreTuner ==
    ASSUME NEW d, NEW u, Chipped(d), ChipSame(d.kind, d.t, u)
    PROVE  Core(d, WithTuner(d, u))
BY DEF Core, WithTuner, Chipped, Fine, DeviceFields

\* What a routine of the tuner leaves.
LEMMA PartsAre ==
    ASSUME NEW d, NEW u, Chipped(d), NEW e, e = WithTuner(d, u)
    PROVE  /\ e.kind = d.kind /\ e.freq = d.freq /\ e.direct = d.direct /\ e.corr = d.corr
           /\ e.ddc = d.ddc /\ e.t = u /\ e.ok = u.ok
<1>1. DOMAIN d = DeviceFields
  BY DEF Chipped, Fine
<1> QED  BY <1>1 DEF WithTuner, DeviceFields

\* What one of the down-converter leaves.
LEMMA ShiftIs ==
    ASSUME NEW d, NEW khz, NEW bad, Chipped(d), NEW e, e = rtlsdr_set_if_freq(d, khz, bad)
    PROVE  /\ e.kind = d.kind /\ e.freq = d.freq /\ e.direct = d.direct /\ e.corr = d.corr
           /\ e.t = d.t /\ e.ok = ("ddc" \notin bad)
           /\ "ddc" \notin bad => e.ddc = [freq |-> khz, corr |-> d.corr]
           /\ "ddc" \in bad => e.ddc = d.ddc
<1>1. DOMAIN d = DeviceFields
  BY DEF Chipped, Fine
<1> QED  BY <1>1 DEF rtlsdr_set_if_freq, DeviceFields

\* The tuner's gains, their mode, the IF gain and standby have no part in
\* oscillator and down-converter.
LEMMA TunerCore ==
    ASSUME NEW d, NEW gain, NEW manual, NEW stage, NEW bad, Chipped(d)
    PROVE  /\ Core(d, tuner_set_gain(d, gain, bad))
           /\ Core(d, tuner_set_gain_mode(d, manual, bad))
           /\ HasIfGain(d.kind) => Core(d, tuner_set_if_gain(d, stage, gain, bad))
           /\ Core(d, tuner_exit(d, bad))
<1>1. ASSUME NEW u, \/ Rafael(d.kind) /\ Held(d.t, u)
                    \/ d.kind \in {"FC0012", "FC0013"} /\ FitipowerSame(d.t, u)
                    \/ d.kind = "E4000"
      PROVE  Core(d, WithTuner(d, u))
  <2>1. ChipSame(d.kind, d.t, u)
    BY <1>1 DEF ChipSame, Rafael
  <2> QED  BY <2>1, CoreTuner
<1>2. Core(d, [d EXCEPT !.ok = TRUE])
  BY CoreFields
<1>3. CASE Rafael(d.kind)
  <2>1. IsR82xx(d.t)
    BY <1>3 DEF Chipped, IsChip
  <2>2. /\ tuner_set_gain(d, gain, bad) = WithTuner(d, R!r82xx_set_gain(d.t, TRUE, gain, bad))
        /\ tuner_set_gain_mode(d, manual, bad) = WithTuner(d, R!r82xx_set_gain(d.t, manual, 0, bad))
        /\ tuner_set_if_gain(d, stage, gain, bad) = WithTuner(d, R!r82xx_set_if_gain(d.t, gain, bad))
        /\ tuner_exit(d, bad) = WithTuner(d, R!r82xx_standby(d.t, bad))
    BY <1>3 DEF tuner_set_gain, tuner_set_gain_mode, tuner_set_if_gain, tuner_exit, Rafael
  <2>3. /\ Held(d.t, R!r82xx_set_gain(d.t, TRUE, gain, bad))
        /\ Held(d.t, R!r82xx_set_gain(d.t, manual, 0, bad))
        /\ Held(d.t, R!r82xx_set_if_gain(d.t, gain, bad))
        /\ Held(d.t, R!r82xx_standby(d.t, bad))
    BY <2>1, GainHolds, StandbyHolds
  <2> QED  BY <1>1, <1>3, <2>2, <2>3
<1>4. CASE d.kind = "E4000"
  <2>1. PICK u : tuner_set_gain(d, gain, bad) = WithTuner(d, u)
    BY <1>4 DEF tuner_set_gain, Rafael
  <2>2. PICK v : tuner_set_gain_mode(d, manual, bad) = WithTuner(d, v)
    BY <1>4 DEF tuner_set_gain_mode, Rafael
  <2>3. PICK w : tuner_set_if_gain(d, stage, gain, bad) = WithTuner(d, w)
    BY <1>4 DEF tuner_set_if_gain, Rafael
  <2>4. PICK x : tuner_exit(d, bad) = WithTuner(d, x)
    BY <1>4 DEF tuner_exit, Rafael
  <2> QED  BY <1>1, <1>4, <2>1, <2>2, <2>3, <2>4
<1>5. CASE d.kind = "FC0012"
  <2>1. /\ tuner_set_gain(d, gain, bad) = WithTuner(d, F!fc0012_set_gain(d.t, gain, bad))
        /\ tuner_set_gain_mode(d, manual, bad) = [d EXCEPT !.ok = TRUE]
        /\ tuner_exit(d, bad) = [d EXCEPT !.ok = TRUE]
        /\ ~HasIfGain(d.kind)
    BY <1>5 DEF tuner_set_gain, tuner_set_gain_mode, tuner_exit, HasIfGain, Rafael
  <2>2. FitipowerSame(d.t, F!fc0012_set_gain(d.t, gain, bad))
    BY <1>5, FitipowerGain DEF Chipped, IsChip
  <2> QED  BY <1>1, <1>2, <1>5, <2>1, <2>2
<1>6. CASE d.kind = "FC0013"
  <2>1. /\ tuner_set_gain(d, gain, bad) = WithTuner(d, F!fc0013_set_lna_gain(d.t, gain, bad))
        /\ tuner_set_gain_mode(d, manual, bad)
             = WithTuner(d, F!fc0013_set_gain_mode(d.t, manual, bad))
        /\ tuner_exit(d, bad) = [d EXCEPT !.ok = TRUE]
        /\ ~HasIfGain(d.kind)
    BY <1>6 DEF tuner_set_gain, tuner_set_gain_mode, tuner_exit, HasIfGain, Rafael
  <2>2. /\ FitipowerSame(d.t, F!fc0013_set_lna_gain(d.t, gain, bad))
        /\ FitipowerSame(d.t, F!fc0013_set_gain_mode(d.t, manual, bad))
    BY <1>6, FitipowerGain DEF Chipped, IsChip
  <2> QED  BY <1>1, <1>2, <1>6, <2>1, <2>2
<1>7. CASE d.kind = "FC2580"
  <2>1. /\ tuner_set_gain(d, gain, bad) = [d EXCEPT !.ok = TRUE]
        /\ tuner_set_gain_mode(d, manual, bad) = [d EXCEPT !.ok = TRUE]
        /\ tuner_exit(d, bad) = [d EXCEPT !.ok = TRUE]
        /\ ~HasIfGain(d.kind)
    BY <1>7 DEF tuner_set_gain, tuner_set_gain_mode, tuner_exit, HasIfGain, Rafael
  <2> QED  BY <1>2, <2>1
<1> QED  BY <1>3, <1>4, <1>5, <1>6, <1>7 DEF Chipped, Fine, Kinds, Rafael

\* Setting the gain has no part in them.
LEMMA GainCore ==
    ASSUME NEW d, NEW gain, NEW bad, Chipped(d)
    PROVE  Core(d, Gained(d, gain, bad))
<1>1. ASSUME NEW x, Chipped(x), NEW manual \in BOOLEAN
      PROVE  LET y == rtlsdr_set_tuner_gain_mode(x, manual, bad) IN Core(x, y) /\ Chipped(y)
  <2> DEFINE r == Repeater(x, TRUE)
             y == tuner_set_gain_mode(r, manual, bad)
  <2>1. Core(x, r) /\ Chipped(r) /\ r.repeater
    BY <1>1, CoreFields, RepeaterMoves, StepTrans
  <2> HIDE DEF r
  <2>2. Core(r, y)
    BY <2>1, TunerCore
  <2>3. Chipped(y)
    BY <1>1, <2>1, TunerGainModeMoves, StepTrans
  <2>4. rtlsdr_set_tuner_gain_mode(x, manual, bad) = y
    BY DEF rtlsdr_set_tuner_gain_mode, r
  <2> HIDE DEF y
  <2> QED  BY <2>1, <2>2, <2>3, <2>4, CoreTrans
<1>2. ASSUME NEW x, Chipped(x), NEW g
      PROVE  Core(x, rtlsdr_set_tuner_gain(x, g, bad))
  <2> DEFINE r == Repeater(x, TRUE)
             y == tuner_set_gain(r, g, bad)
             v == IF y.ok THEN g ELSE 0
  <2>1. Core(x, r) /\ Chipped(r) /\ r.repeater
    BY <1>2, CoreFields, RepeaterMoves, StepTrans
  <2>4. rtlsdr_set_tuner_gain(x, g, bad) = [y EXCEPT !.gain = v]
    BY DEF rtlsdr_set_tuner_gain, Amplified
  <2> HIDE DEF r, v
  <2>2. Core(r, y)
    BY <2>1, TunerCore
  <2>3. Chipped(y)
    BY <2>1, TunerGainMoves, StepTrans
  <2> HIDE DEF y
  <2>5. Core(y, [y EXCEPT !.gain = v])
    BY <2>3, CoreFields
  <2> QED  BY <2>1, <2>2, <2>4, <2>5, CoreTrans
<1>3. PICK yes \in BOOLEAN, no \in BOOLEAN : yes = TRUE /\ no = FALSE
  OBVIOUS
<1> DEFINE n == rtlsdr_set_tuner_gain_mode(d, yes, bad)
           g == nearest_gain(d, 10 * gain, bad).gain
           m == rtlsdr_set_tuner_gain_mode(n, yes, bad)
           s == rtlsdr_set_tuner_gain(m, g, bad)
           a == rtlsdr_set_tuner_gain_mode(d, no, bad)
<1>4. Gained(d, gain, bad) = IF gain = AutoGain THEN a ELSE IF m.ok THEN s ELSE m
  <2>1. nearest_gain(d, 10 * gain, bad).dev = n
    BY <1>3 DEF nearest_gain
  <2>2. verbose_auto_gain(d, bad) = a
    BY <1>3 DEF verbose_auto_gain
  <2> HIDE DEF g, n, a
  <2>3. verbose_gain_set(n, g, bad) = IF m.ok THEN s ELSE m
    BY <1>3 DEF verbose_gain_set, Then
  <2> HIDE DEF s, m
  <2> QED  BY <2>1, <2>2, <2>3 DEF Gained, g
<1> HIDE DEF g
<1>5. Core(d, n) /\ Chipped(n) /\ Core(d, a)
  BY <1>1
<1> HIDE DEF n, a
<1>6. Core(n, m) /\ Chipped(m)
  BY <1>1, <1>5
<1> HIDE DEF m
<1>7. Core(m, s)
  BY <1>2, <1>6
<1> HIDE DEF s
<1> QED  BY <1>4, <1>5, <1>6, <1>7, CoreTrans

\* Nor has the IF gain.
LEMMA IfGainCore ==
    ASSUME NEW d, NEW stage, NEW gain, NEW bad, Chipped(d)
    PROVE  Core(d, rtlsdr_set_tuner_if_gain(d, stage, gain, bad))
<1> DEFINE r == Repeater(d, TRUE)
           y == tuner_set_if_gain(r, stage, gain, bad)
           z == [d EXCEPT !.ok = TRUE]
<1>1. Core(d, r) /\ Chipped(r) /\ Core(d, z)
  BY CoreFields, RepeaterMoves, StepTrans
<1>2. rtlsdr_set_tuner_if_gain(d, stage, gain, bad) = IF HasIfGain(d.kind) THEN y ELSE z
  BY DEF rtlsdr_set_tuner_if_gain
<1> HIDE DEF r, z
<1>3. HasIfGain(d.kind) => Core(r, y)
  BY <1>1, TunerCore DEF Core
<1> HIDE DEF y
<1> QED  BY <1>1, <1>2, <1>3, CoreTrans

\* Initialising the tuner makes an R82xx reckon with the device's correction
\* and, with all in reach, gives it the intermediate frequency of 3570 kHz.
LEMMA InitWhole ==
    ASSUME NEW d, NEW bad, Chipped(d), NEW e, e = tuner_init(d, bad)
    PROVE  /\ Whole(e) /\ e.kind = d.kind /\ e.corr = d.corr /\ e.ddc = d.ddc
           /\ e.freq = d.freq /\ e.direct = d.direct
           /\ bad = {} /\ Rafael(d.kind) => e.t.intFreq = 3570
<1>1. PICK u : /\ e = WithTuner(d, u)
               /\ Rafael(d.kind) => u = R!r82xx_init([d.t EXCEPT !.xtal = d.corr], bad)
               /\ d.kind = "FC2580" => u = K!fc2580_Initialize(d.t, bad)
  <2> DEFINE u == CASE Rafael(d.kind) -> R!r82xx_init([d.t EXCEPT !.xtal = d.corr], bad)
                     [] d.kind = "E4000" -> E!e4k_init(d.t, bad)
                     [] d.kind = "FC0012" -> F!fc0012_init(d.t, bad)
                     [] d.kind = "FC0013" -> F!fc0013_init(d.t, bad)
                     [] d.kind = "FC2580" -> K!fc2580_Initialize(d.t, bad)
  <2>1. e = WithTuner(d, u)
    BY DEF tuner_init
  <2>2. Rafael(d.kind) => u = R!r82xx_init([d.t EXCEPT !.xtal = d.corr], bad)
    BY DEF Rafael
  <2>3. d.kind = "FC2580" => u = K!fc2580_Initialize(d.t, bad)
    BY DEF Rafael
  <2> HIDE DEF u
  <2> QED  BY <2>1, <2>2, <2>3
<1>2. /\ e.kind = d.kind /\ e.freq = d.freq /\ e.direct = d.direct /\ e.corr = d.corr
      /\ e.ddc = d.ddc /\ e.t = u
  BY <1>1, PartsAre
<1>3. Rafael(d.kind) => u.xtal = d.corr /\ (bad = {} => u.intFreq = 3570)
  <2> SUFFICES ASSUME Rafael(d.kind) PROVE u.xtal = d.corr /\ (bad = {} => u.intFreq = 3570)
    OBVIOUS
  <2> DEFINE s == [d.t EXCEPT !.xtal = d.corr]
  <2>1. IsR82xx(s) /\ s.xtal = d.corr
    BY DEF Chipped, IsChip, IsR82xx
  <2>2. u = R!r82xx_init(s, bad)
    BY <1>1
  <2> HIDE DEF s
  <2> QED  BY <2>1, <2>2, InitHolds
<1>4. d.kind = "FC2580" => IsFcChip(u)
  BY <1>1, FciInit
<1> QED  BY <1>2, <1>3, <1>4 DEF Whole, ChipWhole

\* A tuning of the tuner leaves the crystal it reckons with and the
\* intermediate frequency; one that succeeds with all in reach puts the
\* oscillator where it belongs.
LEMMA TunerFreqWhole ==
    ASSUME NEW d, NEW khz \in Tunable, NEW bad, Chipped(d), Whole(d),
           NEW e, e = tuner_set_freq(d, khz, bad)
    PROVE  /\ Whole(e) /\ e.kind = d.kind /\ e.corr = d.corr /\ e.ddc = d.ddc
           /\ e.direct = d.direct
           /\ Rafael(d.kind) => e.t.intFreq = d.t.intFreq
           /\ bad = {} /\ e.ok /\ d.direct = 0 => OnFreq([e EXCEPT !.freq = khz])
<1>0. khz \in Nat
  BY DEF Tunable
<1>1. PICK v4 \in BOOLEAN : v4 = (d.kind = "V4")
  OBVIOUS
<1>2. PICK u : /\ e = WithTuner(d, u)
               /\ Rafael(d.kind) => u = R!r82xx_set_freq(d.t, khz, v4, bad)
               /\ d.kind = "FC0012" => u = F!fc0012_set_params(d.t, khz, d.corr, bad)
               /\ d.kind = "FC0013" => u = F!fc0013_set_params(d.t, khz, d.corr, bad)
               /\ d.kind = "FC2580" => u = K!fc2580_SetRfFreqHz(d.t, khz, bad)
  <2> DEFINE u == CASE Rafael(d.kind) -> R!r82xx_set_freq(d.t, khz, v4, bad)
                     [] d.kind = "E4000" -> E!e4k_tune_freq(d.t, khz, d.corr, bad)
                     [] d.kind = "FC0012" -> F!fc0012_set_params(d.t, khz, d.corr, bad)
                     [] d.kind = "FC0013" -> F!fc0013_set_params(d.t, khz, d.corr, bad)
                     [] d.kind = "FC2580" -> K!fc2580_SetRfFreqHz(d.t, khz, bad)
  <2>1. e = WithTuner(d, u)
    BY <1>1 DEF tuner_set_freq
  <2>2. Rafael(d.kind) => u = R!r82xx_set_freq(d.t, khz, v4, bad)
    BY DEF Rafael
  <2>3. /\ d.kind = "FC0012" => u = F!fc0012_set_params(d.t, khz, d.corr, bad)
        /\ d.kind = "FC0013" => u = F!fc0013_set_params(d.t, khz, d.corr, bad)
        /\ d.kind = "FC2580" => u = K!fc2580_SetRfFreqHz(d.t, khz, bad)
    BY DEF Rafael
  <2> HIDE DEF u
  <2> QED  BY <2>1, <2>2, <2>3
<1>3. /\ e.kind = d.kind /\ e.freq = d.freq /\ e.direct = d.direct /\ e.corr = d.corr
      /\ e.ddc = d.ddc /\ e.t = u /\ e.ok = u.ok
  BY <1>2, PartsAre
<1>3a. DOMAIN e = DeviceFields
  BY <1>2 DEF WithTuner, Chipped, Fine
<1>4. ASSUME Rafael(d.kind)
      PROVE  /\ u.xtal = d.t.xtal /\ u.intFreq = d.t.intFreq
             /\ bad = {} /\ u.ok => /\ OnLo(u, LoFor(d.t, khz, v4), d.t.xtal)
                                    /\ u.chip.r1b.tf = R!RangeOf(LoFor(d.t, khz, v4))
  <2>1. IsR82xx(d.t)
    BY <1>4 DEF Chipped, IsChip
  <2> QED  BY <1>0, <1>2, <1>4, <2>1, SetFreqHolds DEF Clocked
<1>5. d.kind \in {"FC0012", "FC0013"} /\ u.ok => OnVco(u, khz, d.corr)
  <2>1. d.kind = "FC0012" /\ u.ok => OnVco(u, khz, d.corr)
    BY <1>0, <1>2, ParamsLo DEF Chipped
  <2>2. d.kind = "FC0013" /\ u.ok => OnVco(u, khz, d.corr)
    BY <1>0, <1>2, ParamsLo DEF Chipped
  <2> QED  BY <2>1, <2>2
<1>6. d.kind = "FC2580" => IsFcChip(u) /\ (bad = {} => Off(K!LoOf(u), khz) <= 2)
  BY <1>2, FciTuned DEF Whole, ChipWhole
<1>7. Whole(e)
  BY <1>3, <1>4, <1>6 DEF Whole, ChipWhole
<1>8. ASSUME bad = {}, e.ok, d.direct = 0
      PROVE  OnFreq([e EXCEPT !.freq = khz])
  <2> DEFINE x == [e EXCEPT !.freq = khz]
  <2>1. /\ x.kind = d.kind /\ x.freq = khz /\ x.direct = d.direct /\ x.corr = d.corr /\ x.t = u
    BY <1>3, <1>3a DEF DeviceFields
  <2> HIDE DEF x
  <2>2. ASSUME Rafael(d.kind) PROVE OnRafael(x)
    <3> DEFINE lo == LoFor(x.t, x.freq, x.kind = "V4")
    <3>1. lo = LoFor(d.t, khz, v4)
      <4>1. (x.kind = "V4") = v4 /\ x.freq = khz /\ x.t.intFreq = d.t.intFreq
        BY <1>1, <1>4, <2>1, <2>2
      <4> QED  BY <4>1 DEF LoFor
    <3>2. d.t.xtal = d.corr
      BY <2>2 DEF Whole, ChipWhole
    <3> HIDE DEF lo
    <3>3. OnLo(x.t, lo, x.corr) /\ x.t.chip.r1b.tf = R!RangeOf(lo)
      BY <1>3, <1>4, <1>8, <2>1, <2>2, <3>1, <3>2
    <3> QED  BY <3>3 DEF OnRafael, lo
  <2>3. OnFreq(x)
    BY <1>3, <1>5, <1>6, <1>8, <2>1, <2>2 DEF OnFreq
  <2> QED  BY <2>3 DEF x
<1> QED  BY <1>3, <1>4, <1>7, <1>8

\* So does a tuning of the device, in direct sampling too.
LEMMA RetunedWhole ==
    ASSUME NEW d, NEW khz \in Tunable, NEW bad, Chipped(d), Whole(d), NEW g, g = Retuned(d, khz, bad)
    PROVE  /\ Whole(g) /\ g.kind = d.kind /\ g.corr = d.corr
           /\ g.direct = 0 => g.ddc = d.ddc /\ (Rafael(d.kind) => g.t.intFreq = d.t.intFreq)
           /\ bad = {} => OnFreq(g)
<1> DEFINE on == WantsDirect(d, khz)
           e == [d EXCEPT !.direct = on]
           fd == Repeater(e, FALSE)
           ft == Repeater(e, TRUE)
           gd == rtlsdr_set_if_freq(fd, khz, bad)
           gt == tuner_set_freq(ft, khz, bad)
           f == IF e.direct # 0 THEN gd ELSE gt
           x == IF f.ok THEN khz ELSE 0
           h == [f EXCEPT !.freq = x]
<1>0. khz \in Nat
  BY DEF Tunable
<1>1. g = h
  BY DEF Retuned, Tuned
<1>2. e.direct = on /\ e.t = d.t /\ e.kind = d.kind /\ e.corr = d.corr /\ e.ddc = d.ddc /\ Chipped(e)
  <2>1. on \in {0, 2}
    BY <1>0, WantsDirectIs
  <2> HIDE DEF on
  <2> QED  BY <2>1 DEF Chipped, Fine, DeviceFields
<1>3. Whole(e)
  BY <1>2 DEF Whole
<1> HIDE DEF e, on
<1>4. Core(e, fd) /\ Core(e, ft) /\ Chipped(fd) /\ Chipped(ft) /\ ft.repeater /\ Whole(fd) /\ Whole(ft)
      /\ ft.t = e.t
  BY <1>2, <1>3, CoreFields, CoreKeeps, RepeaterMoves, StepTrans
<1>5. /\ fd.kind = d.kind /\ fd.corr = d.corr /\ fd.direct = on
      /\ ft.kind = d.kind /\ ft.corr = d.corr /\ ft.direct = on /\ ft.ddc = d.ddc
      /\ ft.t = d.t
  BY <1>2, <1>4 DEF Core
<1> HIDE DEF fd, ft
<1>6. /\ gd.kind = d.kind /\ gd.corr = d.corr /\ gd.direct = on /\ gd.t = fd.t
      /\ gd.ok = ("ddc" \notin bad) /\ ("ddc" \notin bad => gd.ddc = [freq |-> khz, corr |-> d.corr])
  BY <1>4, <1>5, ShiftIs
<1>7. Whole(gd) /\ Chipped(gd)
  <2>1. Whole(gd)
    BY <1>4, <1>5, <1>6 DEF Whole
  <2>2. Chipped(gd)
    BY <1>4, FreqMoves, StepTrans
  <2> QED  BY <2>1, <2>2
<1> HIDE DEF gd
<1>8. /\ Whole(gt) /\ gt.kind = d.kind /\ gt.corr = d.corr /\ gt.direct = on /\ gt.ddc = d.ddc
      /\ Rafael(d.kind) => gt.t.intFreq = d.t.intFreq
      /\ bad = {} /\ gt.ok /\ on = 0 => OnFreq([gt EXCEPT !.freq = khz])
  BY <1>4, <1>5, TunerFreqWhole
<1>9. Chipped(gt)
  BY <1>0, <1>4, TunerFreqMoves, StepTrans
<1> HIDE DEF gt
<1>10. Whole(f) /\ Chipped(f) /\ f.kind = d.kind /\ f.corr = d.corr /\ f.direct = on
       /\ (on = 0 => f = gt) /\ (on # 0 => f = gd)
  BY <1>2, <1>6, <1>7, <1>8, <1>9
<1> HIDE DEF f
<1>11. /\ h.kind = d.kind /\ h.corr = d.corr /\ h.direct = on /\ h.t = f.t /\ h.ddc = f.ddc
       /\ h.freq = x
  BY <1>10 DEF Chipped, Fine, DeviceFields
<1>12. Whole(h)
  BY <1>10, <1>11 DEF Whole
<1>13. ASSUME bad = {} PROVE OnFreq(h)
  <2>1. CASE ~f.ok
    <3>1. h.freq = 0
      BY <1>11, <2>1
    <3> QED  BY <3>1 DEF OnFreq
  <2>2. CASE f.ok /\ on = 0
    <3>1. h = [gt EXCEPT !.freq = khz]
      BY <1>10, <2>2
    <3> QED  BY <1>8, <1>10, <1>13, <2>2, <3>1
  <2>3. CASE f.ok /\ on # 0
    <3>1. h.freq = khz /\ h.direct # 0 /\ h.ddc = [freq |-> khz, corr |-> h.corr]
      BY <1>6, <1>10, <1>11, <1>13, <2>3
    <3> HIDE DEF h
    <3> QED  BY <3>1 DEF OnFreq
  <2> QED  BY <2>1, <2>2, <2>3
<1> HIDE DEF h
<1> QED  BY <1>1, <1>8, <1>10, <1>11, <1>12, <1>13

\* What is left alone, field by field.
LEMMA CoreIs ==
    \A d, e : Core(d, e) => /\ e.kind = d.kind /\ e.freq = d.freq /\ e.direct = d.direct
                            /\ e.corr = d.corr /\ e.ddc = d.ddc
BY DEF Core

\* Switching the repeater does so.
LEMMA RepeaterWhole ==
    ASSUME NEW d, NEW on, Chipped(d), NEW r, r = Repeater(d, on)
    PROVE  Core(d, r) /\ Chipped(r) /\ r.t = d.t /\ r.repeater = on /\ (Whole(d) => Whole(r))
<1>1. Core(d, r)
  BY CoreFields
<1>2. Step({}, {}, d, r) /\ r.repeater = on /\ r.t = d.t
  BY RepeaterMoves
<1>3. Chipped(r)
  BY <1>2, StepTrans
<1> QED  BY <1>1, <1>2, <1>3, CoreKeeps

\* So does handing up an outcome.
LEMMA AndWhole ==
    ASSUME NEW d, NEW ok, Chipped(d), NEW r, r = And(d, ok)
    PROVE  Core(d, r) /\ Chipped(r) /\ r.t = d.t /\ (Whole(d) => Whole(r))
<1>1. Core(d, r)
  BY CoreFields
<1>2. Step({}, {}, d, r) /\ r.t = d.t
  BY OkMoves
<1>3. Chipped(r)
  BY <1>2, StepTrans
<1> QED  BY <1>1, <1>2, <1>3, CoreKeeps

\* The mode of sampling has no part in what is whole.
LEMMA ModeWhole ==
    ASSUME NEW d, NEW mode, NEW bad, NEW on, Chipped(d), Whole(d)
    PROVE  LET g == Directed(SetMode(d, mode, bad), on) IN
           Whole(g) /\ g.kind = d.kind /\ g.corr = d.corr
<1> DEFINE g == Directed(SetMode(d, mode, bad), on)
<1>1. g.kind = d.kind /\ g.corr = d.corr /\ g.t = d.t
  BY DEF Directed, SetMode, Chipped, Fine, DeviceFields
<1> HIDE DEF g
<1> QED  BY <1>1 DEF Whole, g

\* A switch of direct sampling, which initialises the tuner or puts it to
\* sleep, leaves it reckoning with the device's correction.
LEMMA SwitchedWhole ==
    ASSUME NEW d, NEW on, NEW bad, Chipped(d), Whole(d), NEW g, g = Switched(d, on, bad)
    PROVE  Whole(g) /\ g.kind = d.kind /\ g.corr = d.corr
<1> DEFINE r == Repeater(d, TRUE)
           x == tuner_exit(r, bad)
           u == Repeater(x, FALSE)
           i == tuner_init(r, bad)
           v == Repeater(i, FALSE)
           khz == IF Rafael(d.kind) THEN R82xxIf ELSE 0
           f == rtlsdr_set_if_freq(v, khz, bad)
           w == And(f, v.ok)
           low == IF Rafael(d.kind) THEN "lowIf" ELSE "zeroIf"
           a == Directed(SetMode(u, "direct", bad), on)
           b == Directed(SetMode(w, low, bad), 0)
<1>1. g = IF on # 0 THEN a ELSE b
  BY DEF Switched, ShiftedBy, Directed
<1> HIDE DEF khz, low
<1>2. Chipped(r) /\ Whole(r) /\ r.repeater = TRUE /\ r.kind = d.kind /\ r.corr = d.corr
  BY RepeaterWhole, CoreIs
<1> HIDE DEF r
<1>3. Chipped(x) /\ Whole(x) /\ x.kind = d.kind /\ x.corr = d.corr
  <2>1. Core(r, x)
    <3>1. \A gain, manual, stage : Core(r, x)
      BY <1>2, TunerCore
    <3> QED  BY <3>1
  <2>2. Chipped(x)
    BY <1>2, ExitMoves, StepTrans
  <2> HIDE DEF x
  <2> QED  BY <1>2, <2>1, <2>2, CoreKeeps, CoreIs
<1> HIDE DEF x
<1>4. Chipped(u) /\ Whole(u) /\ u.kind = d.kind /\ u.corr = d.corr
  BY <1>3, RepeaterWhole, CoreIs
<1> HIDE DEF u
<1>5. Whole(i) /\ i.kind = d.kind /\ i.corr = d.corr /\ Chipped(i)
  <2>1. Whole(i) /\ i.kind = d.kind /\ i.corr = d.corr
    BY <1>2, InitWhole
  <2>2. Chipped(i)
    BY <1>2, InitMoves, StepTrans
  <2> QED  BY <2>1, <2>2
<1> HIDE DEF i
<1>6. Chipped(v) /\ Whole(v) /\ v.kind = d.kind /\ v.corr = d.corr
  BY <1>5, RepeaterWhole, CoreIs
<1> HIDE DEF v
<1>7. Whole(f) /\ f.kind = d.kind /\ f.corr = d.corr /\ Chipped(f)
  <2>1. Chipped(f)
    BY <1>6, FreqMoves, StepTrans
  <2>2. f.kind = v.kind /\ f.corr = v.corr /\ f.t = v.t
    BY <1>6 DEF rtlsdr_set_if_freq, Chipped, Fine, DeviceFields
  <2> HIDE DEF f
  <2>3. Whole(f)
    BY <1>6, <2>2 DEF Whole
  <2> QED  BY <1>6, <2>1, <2>2, <2>3
<1> HIDE DEF f
<1>8. Chipped(w) /\ Whole(w) /\ w.kind = d.kind /\ w.corr = d.corr
  BY <1>7, AndWhole, CoreIs
<1> HIDE DEF w
<1>9. Whole(a) /\ a.kind = d.kind /\ a.corr = d.corr
  BY <1>4, ModeWhole
<1>10. Whole(b) /\ b.kind = d.kind /\ b.corr = d.corr
  BY <1>8, ModeWhole
<1> HIDE DEF a, b
<1> QED  BY <1>1, <1>9, <1>10

\* So does a round of a tuning; one that is the last and had all in reach
\* leaves the oscillator where it belongs.
LEMMA RoundWhole ==
    ASSUME NEW r, NEW khz \in Tunable, NEW bad, IsCycle(r), ~r.done, Whole(r.dev),
           NEW s, s = Round(r, khz, bad)
    PROVE  /\ Whole(s.dev) /\ s.dev.kind = r.dev.kind /\ s.dev.corr = r.dev.corr
           /\ s.done /\ bad = {} => OnFreq(s.dev)
<1> DEFINE d == r.dev
           u == Retuned(d, khz, bad)
           v == And(u, r.ok)
           w == Switched(u, u.direct, bad)
           x == [r EXCEPT !.dev = v, !.done = TRUE]
           y == [r EXCEPT !.dev = w, !.ok = @ /\ w.ok]
<1>1. s = IF u.direct = d.direct THEN x ELSE y
  BY DEF Round, SwitchIfNeeded, ToBeTuned
<1>2. Chipped(d) /\ Whole(d) /\ khz \in Nat
  BY DEF IsCycle, Tunable
<1> HIDE DEF d
<1>3. Whole(u) /\ u.kind = d.kind /\ u.corr = d.corr /\ (bad = {} => OnFreq(u))
  BY <1>2, RetunedWhole
<1>4. Chipped(u)
  BY <1>2, RetunedMoves, StepTrans
<1> HIDE DEF u
<1>5. Core(u, v)
  BY <1>4, AndWhole
<1>6. Whole(w) /\ w.kind = d.kind /\ w.corr = d.corr
  BY <1>3, <1>4, SwitchedWhole
<1> HIDE DEF v, w
<1>7. Whole(v) /\ v.kind = d.kind /\ v.corr = d.corr /\ (bad = {} => OnFreq(v))
  BY <1>3, <1>5, CoreKeeps, CoreIs
<1>8. DOMAIN r = {"dev", "ok", "done"}
  BY DEF IsCycle, IsRound
<1>9. x.dev = v /\ y.dev = w /\ (y.done <=> r.done)
  BY <1>8
<1> HIDE DEF x, y
<1> QED  BY <1>1, <1>6, <1>7, <1>9 DEF d

\* So does a second or third round, which may have nothing to do.
LEMMA AgainWhole ==
    ASSUME NEW r, NEW bad, IsCycle(r), Whole(r.dev), r.dev.freq \in Tunable,
           r.done /\ bad = {} => OnFreq(r.dev),
           NEW s, s = RoundAgain(r, bad)
    PROVE  /\ Whole(s.dev) /\ s.dev.kind = r.dev.kind /\ s.dev.corr = r.dev.corr
           /\ s.done /\ bad = {} => OnFreq(s.dev)
           /\ IsCycle(s) /\ s.dev.freq \in {0, r.dev.freq}
           /\ FreqFits(r.dev) => FreqFits(s.dev)
           /\ r.done => s.done
           /\ FreqFits(r.dev) /\ r.dev.freq # 0 => s.done
<1>1. IsCycle(s) /\ s.dev.freq \in {0, r.dev.freq} /\ (FreqFits(r.dev) => FreqFits(s.dev))
  BY AgainMoves
<1>2. CASE r.done
  <2>1. s = r
    BY <1>2 DEF RoundAgain
  <2> QED  BY <1>1, <1>2, <2>1
<1>3. CASE ~r.done
  <2>1. s = Round(r, r.dev.freq, bad)
    BY <1>3 DEF RoundAgain
  <2>2. /\ Whole(s.dev) /\ s.dev.kind = r.dev.kind /\ s.dev.corr = r.dev.corr
        /\ s.done /\ bad = {} => OnFreq(s.dev)
    BY <1>3, <2>1, RoundWhole
  <2>3. s.done <=> (r.dev.direct = WantsDirect(r.dev, r.dev.freq))
    <3>1. r.dev.freq \in Nat
      BY DEF Tunable
    <3> QED  BY <1>3, <2>1, <3>1, RoundMoves
  <2>4. FreqFits(r.dev) /\ r.dev.freq # 0 => s.done
    BY <2>3 DEF FreqFits
  <2> QED  BY <1>1, <1>3, <2>2, <2>4
<1> QED  BY <1>2, <1>3

\* rtlsdr_set_center_freq, whichever rounds it takes, leaves the tuner
\* reckoning with the correction and, with all in reach, the oscillator where
\* the frequency that is noted then wants it; if it neither failed nor
\* switched, the down-converter still undoes the intermediate frequency.
LEMMA CentreWhole ==
    ASSUME NEW d, NEW khz \in Tunable, NEW bad, Chipped(d), Whole(d),
           NEW e, e = rtlsdr_set_center_freq(d, khz, bad)
    PROVE  /\ Whole(e) /\ e.kind = d.kind /\ e.corr = d.corr
           /\ bad = {} => OnFreq(e)
           /\ e.freq # 0 /\ e.direct = d.direct /\ Shifted(d) => Shifted(e)
<1> DEFINE f == First(d)
           r == Round(f, khz, bad)
           s == RoundAgain(r, bad)
           q == RoundAgain(s, bad)
<1>0. khz \in Nat /\ 0 \in Tunable
  BY DEF Tunable
<1>1. IsCycle(r) /\ r.dev.freq \in {0, khz} /\ FreqFits(r.dev)
  BY <1>0, CentreIs
<1>2a. e = q.dev
  BY <1>0, CentreIs
<1>2. IsCycle(f) /\ f.dev = d /\ ~f.done
  BY FirstIs
<1> HIDE DEF f
<1>3. /\ Whole(r.dev) /\ r.dev.kind = d.kind /\ r.dev.corr = d.corr
      /\ r.done /\ bad = {} => OnFreq(r.dev)
  BY <1>2, RoundWhole
<1> HIDE DEF r
<1>4. /\ Whole(s.dev) /\ s.dev.kind = d.kind /\ s.dev.corr = d.corr
      /\ s.done /\ bad = {} => OnFreq(s.dev)
      /\ IsCycle(s) /\ s.dev.freq \in {0, r.dev.freq} /\ FreqFits(s.dev)
      /\ r.dev.freq # 0 => s.done
  BY <1>0, <1>1, <1>3, AgainWhole
<1> HIDE DEF s
<1>5. /\ Whole(q.dev) /\ q.dev.kind = d.kind /\ q.dev.corr = d.corr
      /\ q.done /\ bad = {} => OnFreq(q.dev)
      /\ q.dev.freq \in {0, s.dev.freq}
      /\ s.done => q.done
  <2>1. s.dev.freq \in Tunable
    BY <1>0, <1>1, <1>4
  <2> QED  BY <1>4, <2>1, AgainWhole
<1> HIDE DEF q
<1>6. bad = {} => OnFreq(e)
  <2>0. e = q.dev
    BY <1>2a
  <2>1. CASE e.freq = 0
    BY <2>1 DEF OnFreq
  <2>2. CASE e.freq # 0
    <3>1. q.done
      BY <1>1, <1>4, <1>5, <2>0, <2>2
    <3> QED  BY <1>5, <2>0, <3>1
  <2> QED  BY <2>1, <2>2
<1>7. ASSUME e.freq # 0, e.direct = d.direct, Shifted(d)
      PROVE  Shifted(e)
  <2> DEFINE u == Retuned(d, khz, bad)
             v == And(u, TRUE)
  <2>1. e = v
    BY <1>0, <1>7, CentreStays DEF TunedOnce
  <2>2. /\ u.kind = d.kind
        /\ u.direct = 0 => u.ddc = d.ddc /\ (Rafael(d.kind) => u.t.intFreq = d.t.intFreq)
    BY RetunedWhole
  <2>3. Chipped(u)
    BY <1>0, RetunedMoves, StepTrans
  <2> HIDE DEF u
  <2>4. Core(u, v) /\ v.t = u.t
    BY <2>3, AndWhole
  <2> HIDE DEF v
  <2> QED  BY <1>7, <2>1, <2>2, <2>4, CoreIs DEF Shifted
<1> QED  BY <1>2a, <1>5, <1>6, <1>7

\* A call that may tune again keeps what the tuner reckons with and, with all
\* in reach, the oscillator where it was right.
Steered(d, e, bad) ==
    /\ Whole(e) /\ e.kind = d.kind
    /\ bad = {} /\ OnFreq(d) => OnFreq(e)

\* Unless it failed or switched: it keeps the down-converter right, or, with
\* all in reach, puts it right.
ShiftKept(d, e) == e.freq # 0 /\ e.direct = d.direct /\ Shifted(d) => Shifted(e)
ShiftRight(d, e, bad) == bad = {} /\ e.freq # 0 /\ e.direct = d.direct => Shifted(e)

\* What leaves tuner and down-converter alone does all that.
LEMMA CoreSteers ==
    ASSUME NEW d, NEW e, NEW bad, Whole(d), Core(d, e)
    PROVE  Steered(d, e, bad) /\ ShiftKept(d, e)
BY CoreKeeps, CoreIs DEF Steered, ShiftKept

\* It may come before.
LEMMA CoreThen ==
    ASSUME NEW d, NEW e, NEW g, NEW bad, Whole(d), Core(d, e)
    PROVE  /\ Steered(e, g, bad) => Steered(d, g, bad)
           /\ ShiftKept(e, g) => ShiftKept(d, g)
           /\ ShiftRight(e, g, bad) => ShiftRight(d, g, bad)
BY CoreKeeps, CoreIs DEF Steered, ShiftKept, ShiftRight

\* It may come after.
LEMMA ThenCore ==
    ASSUME NEW d, NEW e, NEW g, NEW bad, Core(e, g)
    PROVE  /\ Steered(d, e, bad) => Steered(d, g, bad)
           /\ Steered(d, e, bad) /\ ShiftKept(d, e) => ShiftKept(d, g)
           /\ Steered(d, e, bad) /\ ShiftRight(d, e, bad) => ShiftRight(d, g, bad)
<1>1. Whole(e) => Whole(g) /\ (OnFreq(e) => OnFreq(g)) /\ (Shifted(e) => Shifted(g))
  BY CoreKeeps
<1>2. g.kind = e.kind /\ g.freq = e.freq /\ g.direct = e.direct
  BY CoreIs
<1> QED  BY <1>1, <1>2 DEF Steered, ShiftKept, ShiftRight

\* So does the resampler's correction.
LEMMA ResamplerWhole ==
    ASSUME NEW d, NEW ppm, NEW bad, Chipped(d)
    PROVE  LET r == rtlsdr_set_sample_freq_correction(d, ppm, bad) IN Core(d, r) /\ Chipped(r)
<1> DEFINE r == rtlsdr_set_sample_freq_correction(d, ppm, bad)
<1>1. Core(d, r)
  BY CoreFields
<1>2. Step({}, {"sro"}, d, r)
  BY OffsetMoves
<1> HIDE DEF r
<1>3. Chipped(r)
  BY <1>2, StepTrans
<1> QED  BY <1>1, <1>3 DEF r

\* r820t_set_bw moves the intermediate frequency; tuning again makes the
\* oscillator follow it, and the down-converter has followed before.
LEMMA BandwidthWhole ==
    ASSUME NEW d, NEW bw \in Nat, NEW bad, Ready(d), d.repeater, Rafael(d.kind), Whole(d),
           NEW e, e = r820t_set_bw(d, bw, bad)
    PROVE  Steered(d, e, bad) /\ ShiftRight(d, e, bad)
<1> DEFINE t == R!r82xx_set_bandwidth(d.t, bw, bad)
           u == WithTuner(d, t)
           f == rtlsdr_set_if_freq(u, u.t.intFreq, bad)
           v == IF u.ok THEN f ELSE u
           g == rtlsdr_set_center_freq(v, v.freq, bad)
<1>1. e = IF v.ok THEN g ELSE v
  <2> DEFINE x == Then(u, LAMBDA y : rtlsdr_set_if_freq(y, y.t.intFreq, bad))
  <2>1. x = v
    BY DEF Then
  <2>2. e = Then(x, LAMBDA y : rtlsdr_set_center_freq(y, y.freq, bad))
    BY DEF r820t_set_bw
  <2> HIDE DEF x
  <2>3. e = IF x.ok THEN rtlsdr_set_center_freq(x, x.freq, bad) ELSE x
    BY <2>2 DEF Then
  <2> QED  BY <2>1, <2>3
<1>2. Chipped(d) /\ d.freq \in Tunable /\ IsR82xx(d.t)
  BY DEF Ready, Chipped, IsChip
<1>3. t.xtal = d.t.xtal /\ t.ok = ("r0b" \notin bad) /\ Leaves(All \ {"bw"}, d.t, t)
  BY <1>2, BandwidthHolds, SetBandwidthLeaves
<1> HIDE DEF t
<1>4. /\ u.kind = d.kind /\ u.freq = d.freq /\ u.direct = d.direct /\ u.corr = d.corr
      /\ u.t = t /\ u.ok = t.ok
  BY <1>2, PartsAre
<1>5. Chipped(u)
  <2>1. ChipKept(d.kind, All \ {"bw"}, d.t, t)
    BY <1>3, LeavesTrans DEF ChipKept, IsChip, Rafael, Leaves
  <2>2. Step(All \ {"bw"}, {}, d, u)
    BY <1>2, <2>1, TunerMoves
  <2> QED  BY <2>2, StepTrans
<1>6. Whole(u)
  BY <1>3, <1>4 DEF Whole, ChipWhole, Rafael
<1> HIDE DEF u
<1>7. /\ f.kind = u.kind /\ f.freq = u.freq /\ f.direct = u.direct /\ f.corr = u.corr
      /\ f.t = u.t /\ f.ok = ("ddc" \notin bad)
      /\ "ddc" \notin bad => f.ddc.freq = u.t.intFreq
  BY <1>5 DEF rtlsdr_set_if_freq, Chipped, Fine, DeviceFields
<1>8. Chipped(f) /\ Whole(f)
  <2>1. Chipped(f)
    BY <1>5, FreqMoves, StepTrans
  <2> HIDE DEF f
  <2>2. Whole(f)
    BY <1>6, <1>7 DEF Whole
  <2> QED  BY <2>1, <2>2
<1> HIDE DEF f
<1>9. /\ Chipped(v) /\ Whole(v) /\ v.kind = d.kind /\ v.freq = d.freq /\ v.direct = d.direct
      /\ bad = {} => v.ok /\ Shifted(v)
  BY <1>3, <1>4, <1>5, <1>6, <1>7, <1>8 DEF Shifted
<1> HIDE DEF v
<1>10. PICK khz \in Tunable : khz = v.freq
  BY <1>2, <1>9
<1>11. /\ Whole(g) /\ g.kind = v.kind
       /\ bad = {} => OnFreq(g)
       /\ g.freq # 0 /\ g.direct = v.direct /\ Shifted(v) => Shifted(g)
  BY <1>9, <1>10, CentreWhole
<1> HIDE DEF g
<1> QED  BY <1>1, <1>9, <1>11 DEF Steered, ShiftRight

\* The bandwidth of the other tuners is that of their filter.
LEMMA TunerBandwidthWhole ==
    ASSUME NEW d, NEW bw \in Nat, NEW bad, Ready(d), d.repeater, Whole(d),
           NEW e, e = tuner_set_bw(d, bw, bad)
    PROVE  Steered(d, e, bad) /\ ShiftRight(d, e, bad)
<1>1. CASE Rafael(d.kind)
  <2>1. e = r820t_set_bw(d, bw, bad)
    BY <1>1 DEF tuner_set_bw, Rafael
  <2> QED  BY <1>1, <2>1, BandwidthWhole
<1>2. CASE ~Rafael(d.kind)
  <2>1. Chipped(d) /\ d.kind \in {"E4000", "FC0012", "FC0013", "FC2580"}
    BY <1>2 DEF Ready, Chipped, Fine, Kinds, Rafael
  <2>2. Core(d, e)
    <3>1. CASE d.kind = "E4000"
      <4>1. PICK u : e = WithTuner(d, u)
        BY <1>2, <3>1 DEF tuner_set_bw
      <4>2. ChipSame(d.kind, d.t, u)
        BY <3>1 DEF ChipSame, Rafael
      <4> QED  BY <2>1, <4>1, <4>2, CoreTuner
    <3>2. CASE d.kind = "FC2580"
      <4> DEFINE u == K!fc2580_SetBandwidthMode(d.t, bad)
      <4>1. e = WithTuner(d, u)
        BY <1>2, <3>2 DEF tuner_set_bw
      <4>2. IsFcChip(d.t) => IsFcChip(u) /\ FciSame(d.t, u)
        BY FciFilter
      <4> HIDE DEF u
      <4>3. ChipSame(d.kind, d.t, u)
        BY <3>2, <4>2 DEF ChipSame, Rafael
      <4> QED  BY <2>1, <4>1, <4>3, CoreTuner
    <3>3. CASE d.kind \in {"FC0012", "FC0013"}
      <4>1. e = [d EXCEPT !.ok = TRUE]
        BY <1>2, <3>3 DEF tuner_set_bw
      <4> QED  BY <2>1, <4>1, CoreFields
    <3> QED  BY <2>1, <3>1, <3>2, <3>3
  <2>3. Shifted(e)
    <3>1. e.kind = d.kind
      BY <2>2, CoreIs
    <3> QED  BY <1>2, <3>1 DEF Shifted
  <2> QED  BY <2>2, <2>3, CoreSteers DEF ShiftRight
<1> QED  BY <1>1, <1>2

\* rtlsdr_set_tuner_bandwidth does no more to them.
LEMMA SetBandwidthWhole ==
    ASSUME NEW d, NEW bw \in Nat, NEW bad, Ready(d), Whole(d),
           NEW e, e = rtlsdr_set_tuner_bandwidth(d, bw, bad)
    PROVE  Steered(d, e, bad) /\ ShiftRight(d, e, bad)
<1> DEFINE r == Repeater(d, TRUE)
           w == WantedBw([d EXCEPT !.bw = bw])
           u == tuner_set_bw(r, w, bad)
           x == IF u.ok THEN bw ELSE u.bw
           v == [u EXCEPT !.bw = x]
<1>1. e = Repeater(v, FALSE)
  BY DEF rtlsdr_set_tuner_bandwidth, Limited
<1>2. w \in Nat
  BY DEF WantedBw, Ready, Chipped, Fine, DeviceFields
<1>3. Chipped(d)
  BY DEF Ready
<1> HIDE DEF w
<1>4. Core(d, r) /\ Chipped(r) /\ Whole(r) /\ r.repeater
  BY <1>3, RepeaterWhole
<1> HIDE DEF r
<1>5. Ready(r)
  BY <1>4, CoreIs DEF Ready
<1>6. Steered(r, u, bad) /\ ShiftRight(r, u, bad) /\ Chipped(u) /\ u.bw \in Nat
  <2>1. Steered(r, u, bad) /\ ShiftRight(r, u, bad)
    BY <1>2, <1>4, <1>5, TunerBandwidthWhole
  <2>2. Outcome(Rest \ {"bw"}, {}, r, u, bad)
    BY <1>2, <1>4, <1>5, TunerBandwidthOutcome
  <2> HIDE DEF u
  <2>3. Chipped(u) /\ u.bw \in Nat
    BY <2>2 DEF Outcome, Ready, Chipped, Fine
  <2> QED  BY <2>1, <2>3
<1> HIDE DEF u
<1>7. x \in Nat
  BY <1>6
<1> HIDE DEF x
<1>8. Core(u, v) /\ Chipped(v)
  BY <1>6, <1>7, CoreFields, FieldMoves, StepTrans
<1> HIDE DEF v
<1>9. Core(v, e)
  BY <1>1, <1>8, RepeaterWhole
<1>10. Core(u, e)
  BY <1>8, <1>9, CoreTrans
<1>11. Steered(d, u, bad) /\ ShiftRight(d, u, bad)
  BY <1>4, <1>6, CoreThen
<1> QED  BY <1>10, <1>11, ThenCore

\* Nor does rtlsdr_set_sample_rate.
LEMMA SetRateWhole ==
    ASSUME NEW d, NEW khz \in Nat, NEW bad, Ready(d), Whole(d),
           NEW e, e = rtlsdr_set_sample_rate(d, khz, bad)
    PROVE  Steered(d, e, bad) /\ (bad = {} => ShiftKept(d, e))
<1> DEFINE f == [d EXCEPT !.rate = khz]
           r == Repeater(f, TRUE)
           w == WantedBw(f)
           u == tuner_set_bw(r, w, bad)
           p == Repeater(u, FALSE)
           x == IF "ratio" \in bad THEN p.ratio ELSE khz
           v == [p EXCEPT !.ratio = x]
           s == rtlsdr_set_sample_freq_correction(v, d.corr, bad)
           g == And(s, "ratio" \notin bad)
           n == [d EXCEPT !.ok = FALSE]
<1>1. e = IF ValidRate(khz) THEN g ELSE n
  BY DEF rtlsdr_set_sample_rate, Resampled
<1>2. Chipped(d)
  BY DEF Ready
<1>3. Core(d, n)
  BY <1>2, CoreFields
<1> HIDE DEF n
<1>4. Steered(d, n, bad) /\ ShiftKept(d, n)
  BY <1>3, CoreSteers
<1>5. Core(d, f) /\ Chipped(f) /\ f.rate = khz /\ f.bw = d.bw
  <2>1. f.rate = khz /\ f.bw = d.bw
    BY <1>2 DEF Chipped, Fine, DeviceFields
  <2> QED  BY <1>2, <2>1, CoreFields, FieldMoves, StepTrans
<1>6. w \in Nat
  BY <1>2, <1>5 DEF WantedBw, Chipped, Fine
<1> HIDE DEF f, w
<1>7. Core(f, r) /\ Chipped(r) /\ r.repeater
  BY <1>5, RepeaterWhole
<1> HIDE DEF r
<1>8. Core(d, r)
  BY <1>5, <1>7, CoreTrans
<1>9. Whole(r) /\ Ready(r)
  BY <1>7, <1>8, CoreIs, CoreKeeps DEF Ready
<1>10. Steered(r, u, bad) /\ ShiftRight(r, u, bad) /\ Chipped(u)
  <2>1. Steered(r, u, bad) /\ ShiftRight(r, u, bad)
    BY <1>6, <1>7, <1>9, TunerBandwidthWhole
  <2>2. Outcome(Rest \ {"bw"}, {}, r, u, bad)
    BY <1>6, <1>7, <1>9, TunerBandwidthOutcome
  <2> HIDE DEF u
  <2> QED  BY <2>1, <2>2 DEF Outcome, Ready
<1> HIDE DEF u
<1>11. Core(u, p) /\ Chipped(p)
  BY <1>10, RepeaterWhole
<1> HIDE DEF p, x
<1>12. Core(p, v) /\ Chipped(v)
  BY <1>11, CoreFields, RatioMoves, StepTrans
<1> HIDE DEF v
<1>13. Core(v, s) /\ Chipped(s)
  BY <1>12, ResamplerWhole
<1> HIDE DEF s
<1>14. Core(s, g)
  BY <1>13, AndWhole
<1> HIDE DEF g
<1>15. Core(u, g)
  BY <1>11, <1>12, <1>13, <1>14, CoreTrans
<1>16. Steered(d, u, bad) /\ ShiftRight(d, u, bad)
  BY <1>8, <1>10, CoreThen
<1>17. Steered(d, g, bad) /\ ShiftRight(d, g, bad)
  BY <1>15, <1>16, ThenCore
<1>18. bad = {} => ShiftKept(d, g)
  BY <1>17 DEF ShiftKept, ShiftRight
<1> QED  BY <1>1, <1>4, <1>17, <1>18

\* rtlsdr_set_freq_correction makes device and R82xx reckon with the new
\* correction and tunes again; a device that was not tuned has no frequency.
LEMMA CorrectionWhole ==
    ASSUME NEW d, NEW ppm \in Int, NEW bad, Ready(d), Whole(d),
           NEW e, e = rtlsdr_set_freq_correction(d, ppm, bad)
    PROVE  Steered(d, e, bad) /\ ShiftKept(d, e)
<1> DEFINE f == [d EXCEPT !.corr = ppm]
           u == rtlsdr_set_sample_freq_correction(f, ppm, bad)
           x == [u EXCEPT !.t.xtal = ppm]
           v == IF Rafael(d.kind) THEN x ELSE u
           c == rtlsdr_set_center_freq(v, d.freq, bad)
           g == And(c, v.ok)
           n == [d EXCEPT !.ok = FALSE]
<1>1. e = IF ppm = d.corr THEN n ELSE IF d.freq = 0 THEN v ELSE g
  BY DEF rtlsdr_set_freq_correction
<1>2. Chipped(d) /\ d.freq \in Tunable
  BY DEF Ready
<1>3. Core(d, n)
  BY <1>2, CoreFields
<1> HIDE DEF n
<1>4. Steered(d, n, bad) /\ ShiftKept(d, n)
  BY <1>3, CoreSteers
<1>5. /\ f.kind = d.kind /\ f.freq = d.freq /\ f.direct = d.direct /\ f.corr = ppm
      /\ f.ddc = d.ddc /\ f.t = d.t
  BY <1>2 DEF Chipped, Fine, DeviceFields
<1>6. Chipped(f)
  BY <1>2, CorrectionMoves, StepTrans
<1> HIDE DEF f
<1>7. Core(f, u) /\ Chipped(u) /\ u.t = f.t
  <2>1. u.t = f.t
    BY <1>6 DEF rtlsdr_set_sample_freq_correction, Chipped, Fine, DeviceFields
  <2> QED  BY <1>6, <2>1, ResamplerWhole
<1> HIDE DEF u
<1>8. /\ u.kind = d.kind /\ u.freq = d.freq /\ u.direct = d.direct /\ u.corr = ppm
      /\ u.ddc = d.ddc /\ u.t = d.t
  BY <1>5, <1>7, CoreIs
<1>9. Rafael(d.kind) => /\ x.kind = d.kind /\ x.freq = d.freq /\ x.direct = d.direct /\ x.corr = ppm
                        /\ x.ddc = d.ddc /\ x.t.xtal = ppm /\ x.t.intFreq = d.t.intFreq
  <2> SUFFICES ASSUME Rafael(d.kind)
               PROVE  /\ x.kind = d.kind /\ x.freq = d.freq /\ x.direct = d.direct /\ x.corr = ppm
                      /\ x.ddc = d.ddc /\ x.t.xtal = ppm /\ x.t.intFreq = d.t.intFreq
    OBVIOUS
  <2>1. x.t = [u.t EXCEPT !.xtal = ppm]
    BY <1>7 DEF Chipped, Fine, DeviceFields
  <2>2. x.kind = u.kind /\ x.freq = u.freq /\ x.direct = u.direct /\ x.corr = u.corr /\ x.ddc = u.ddc
    BY <1>7 DEF Chipped, Fine, DeviceFields
  <2> HIDE DEF x
  <2>3. IsR82xx(u.t)
    BY <1>7, <1>8 DEF Chipped, IsChip
  <2>4. x.t.xtal = ppm /\ x.t.intFreq = u.t.intFreq
    BY <2>1, <2>3 DEF IsR82xx
  <2> QED  BY <1>8, <2>2, <2>4
<1>10. Rafael(d.kind) => Chipped(x)
  BY <1>7, <1>8, XtalMoves, StepTrans
<1> HIDE DEF x
<1>11. /\ Chipped(v) /\ v.kind = d.kind /\ v.freq = d.freq /\ v.direct = d.direct /\ v.corr = ppm
       /\ v.ddc = d.ddc
       /\ Rafael(d.kind) => v.t.xtal = ppm /\ v.t.intFreq = d.t.intFreq
       /\ ~Rafael(d.kind) => v.t = d.t
  BY <1>7, <1>8, <1>9, <1>10
<1> HIDE DEF v
<1>12. Whole(v) /\ (Shifted(d) => Shifted(v))
  <2>1. ~(Rafael(d.kind) /\ d.kind = "FC2580")
    BY DEF Rafael
  <2> QED  BY <1>11, <2>1 DEF Whole, ChipWhole, Shifted
<1>13. d.freq = 0 => Steered(d, v, bad) /\ ShiftKept(d, v)
  BY <1>11, <1>12 DEF Steered, ShiftKept, OnFreq
<1>14. PICK khz \in Tunable : khz = d.freq
  BY <1>2
<1>15. /\ Whole(c) /\ c.kind = v.kind
       /\ bad = {} => OnFreq(c)
       /\ c.freq # 0 /\ c.direct = v.direct /\ Shifted(v) => Shifted(c)
  BY <1>11, <1>12, <1>14, CentreWhole
<1>16. Chipped(c)
  <2>1. khz \in Nat
    BY DEF Tunable
  <2> QED  BY <1>11, <1>14, <2>1, CentreMoves, StepTrans
<1> HIDE DEF c
<1>17. Steered(d, c, bad) /\ ShiftKept(d, c)
  BY <1>11, <1>12, <1>15 DEF Steered, ShiftKept
<1>18. Core(c, g)
  BY <1>16, AndWhole
<1> HIDE DEF g
<1>19. Steered(d, g, bad) /\ ShiftKept(d, g)
  BY <1>17, <1>18, ThenCore
<1> QED  BY <1>1, <1>4, <1>13, <1>19

\* verbose_ppm_set does so for any correction but 0.
LEMMA WarpWhole ==
    ASSUME NEW d, NEW ppm \in Int, NEW bad, Ready(d), Whole(d), NEW e, e = verbose_ppm_set(d, ppm, bad)
    PROVE  Steered(d, e, bad) /\ ShiftKept(d, e)
<1>1. CASE ppm = 0
  <2>1. e = [d EXCEPT !.ok = TRUE]
    BY <1>1 DEF verbose_ppm_set
  <2>2. Core(d, e)
    BY <2>1, CoreFields DEF Ready
  <2> QED  BY <2>2, CoreSteers
<1>2. CASE ppm # 0
  <2>1. e = rtlsdr_set_freq_correction(d, ppm, bad)
    BY <1>2 DEF verbose_ppm_set
  <2> QED  BY <2>1, CorrectionWhole
<1> QED  BY <1>1, <1>2

\* A tuner that has just been found reckons with no correction.
LEMMA NewDeviceWhole ==
    ASSUME NEW kind, NEW chip, kind = "FC2580" => IsFcChip(chip), NEW d, d = NewDevice(kind, chip)
    PROVE  Whole(d)
<1>1. /\ d.kind = kind /\ d.corr = 0
      /\ d.t = IF Rafael(kind) THEN [R!Unused EXCEPT !.chip = chip.chip] ELSE chip
  BY DEF NewDevice
<1>2. Rafael(kind) => d.t.xtal = 0
  BY <1>1 DEF R!Unused
<1> QED  BY <1>1, <1>2 DEF Whole, ChipWhole, Rafael

\* rtlsdr_open leaves the down-converter right if all was in reach.
LEMMA OpenWhole ==
    ASSUME NEW kind \in Kinds, NEW chip, IsChip(kind, chip), NEW bad, NEW e, e = rtlsdr_open(kind, chip, bad)
    PROVE  Whole(e) /\ e.freq = 0 /\ (bad = {} => Shifted(e))
<1> DEFINE n == NewDevice(kind, chip)
           d == Repeater(n, TRUE)
           f == rtlsdr_set_if_freq(d, R82xxIf, bad)
           m == SetMode(f, "lowIf", bad)
           u == IF Rafael(kind) THEN m ELSE d
           i == tuner_init(u, bad)
           r == Repeater(i, FALSE)
<1>1. e = [r EXCEPT !.ok = TRUE]
  BY DEF rtlsdr_open
<1>2. Chipped(n) /\ n.kind = kind
  BY NewDeviceReady DEF Ready
<1> HIDE DEF n
<1>3. Chipped(d) /\ d.kind = kind /\ d.repeater = TRUE
  BY <1>2, RepeaterWhole, CoreIs
<1> HIDE DEF d
<1>4. Chipped(f) /\ f.kind = kind /\ f.repeater = TRUE /\ (bad = {} => f.ddc.freq = 3570)
  <2>1. /\ f.kind = d.kind /\ f.repeater = d.repeater
        /\ "ddc" \notin bad => f.ddc.freq = 3570
    BY <1>3 DEF rtlsdr_set_if_freq, Chipped, Fine, DeviceFields, R82xxIf
  <2>2. Chipped(f)
    BY <1>3, FreqMoves, StepTrans
  <2> HIDE DEF f
  <2> QED  BY <1>3, <2>1, <2>2
<1> HIDE DEF f
<1>5. Chipped(m) /\ m.kind = kind /\ m.repeater = TRUE /\ (bad = {} => m.ddc.freq = 3570)
  <2>1. m.ddc = f.ddc
    BY <1>4 DEF SetMode, Chipped, Fine, DeviceFields
  <2>2. Chipped(m) /\ m.kind = f.kind /\ m.repeater = f.repeater
    BY <1>4, SetModeMoves, StepTrans
  <2> HIDE DEF m
  <2> QED  BY <1>4, <2>1, <2>2
<1> HIDE DEF m
<1>6. Chipped(u) /\ u.kind = kind /\ u.repeater = TRUE
  BY <1>3, <1>5
<1>6a. bad = {} /\ Rafael(kind) => u.ddc.freq = 3570
  BY <1>5
<1> HIDE DEF u
<1>7. /\ Whole(i) /\ i.kind = kind /\ i.ddc = u.ddc
      /\ bad = {} /\ Rafael(kind) => i.t.intFreq = 3570
  BY <1>6, <1>6a, InitWhole
<1>8. Chipped(i)
  <2>1. Step({}, {}, u, i)
    BY <1>6, InitMoves
  <2> HIDE DEF i
  <2> QED  BY <2>1, StepTrans
<1> HIDE DEF i
<1>9. Core(i, r) /\ Chipped(r)
  BY <1>8, RepeaterWhole
<1> HIDE DEF r
<1>10. Core(r, e)
  BY <1>1, <1>9, CoreFields
<1>11. Core(i, e)
  BY <1>9, <1>10, CoreTrans
<1>12. bad = {} => Shifted(i)
  BY <1>6, <1>6a, <1>7 DEF Shifted
<1>13. e.freq = 0
  BY OpenIs
<1> QED  BY <1>7, <1>11, <1>12, <1>13, CoreKeeps

\* A closed device is whole, as a new one.
LEMMA CloseWhole ==
    ASSUME NEW d, NEW bad, Chipped(d), Whole(d), NEW e, e = rtlsdr_close(d, bad)
    PROVE  Whole(e)
<1> DEFINE r == Repeater(d, TRUE)
           u == tuner_exit(r, bad)
           n == NewDevice(d.kind, u.t)
<1>1. e = [n EXCEPT !.deaf = u.deaf]
  BY DEF rtlsdr_close
<1>2. Core(d, r) /\ Whole(r) /\ Chipped(r) /\ r.repeater
  BY RepeaterWhole
<1> HIDE DEF r
<1>3. Core(r, u)
  <2>1. \A gain, manual, stage : Core(r, u)
    BY <1>2, TunerCore
  <2> QED  BY <2>1
<1>4. Chipped(u)
  BY <1>2, ExitMoves, StepTrans
<1> HIDE DEF u
<1>5. Whole(u) /\ u.kind = d.kind
  BY <1>2, <1>3, CoreKeeps, CoreIs
<1>6. d.kind = "FC2580" => IsFcChip(u.t)
  BY <1>5 DEF Whole, ChipWhole
<1>7. Whole(n)
  BY <1>6, NewDeviceWhole
<1>8. DOMAIN n = DeviceFields
  BY DEF NewDevice, DeviceFields
<1> HIDE DEF n
<1>9. e.kind = n.kind /\ e.corr = n.corr /\ e.t = n.t
  BY <1>1, <1>8 DEF DeviceFields
<1> QED  BY <1>7, <1>9 DEF Whole

\* The third part of the invariant: while a device is open, oscillator and
\* down-converter are right, each unless it is unsure or was reset.
Aligned(c) ==
    /\ Whole(c.dev)
    /\ c.isOpen /\ "freq" \notin c.unsure => OnFreq(c.dev)
    /\ c.isOpen /\ "bw" \notin c.unsure \cup c.reset => Shifted(c.dev)

\* A set function for x: what the driver's part of it must do for that.
Steers(x, d, u, bad) ==
    /\ Whole(u)
    /\ bad = {} \/ "freq" \notin Touches[x] => (OnFreq(d) => OnFreq(u))
    /\ bad = {} \/ "bw" \notin Touches[x] => ShiftKept(d, u)
    /\ x = "freq" /\ bad = {} => OnFreq(u)
    /\ x = "bw" => ShiftRight(d, u, bad)

\* The outcome of a call moves neither.
LEMMA RefusedAligned ==
    ASSUME NEW d, Fine(d), Whole(d)
    PROVE  /\ OnFreq(d) => OnFreq([d EXCEPT !.ok = FALSE])
           /\ Shifted(d) => Shifted([d EXCEPT !.ok = FALSE])
<1> DEFINE u == [d EXCEPT !.ok = FALSE]
<1>1. /\ u.kind = d.kind /\ u.freq = d.freq /\ u.corr = d.corr /\ u.direct = d.direct
      /\ u.ddc = d.ddc /\ u.t = d.t
  BY DEF Fine, DeviceFields
<1> HIDE DEF u
<1>2. Core(d, u)
  BY <1>1, CoreTrans DEF Core
<1>3. (OnFreq(d) => OnFreq(u)) /\ (Shifted(d) => Shifted(u))
  BY <1>2, CoreKeeps
<1> QED  BY <1>3 DEF u

\* Then the set function keeps it.
LEMMA ApplyAligned ==
    ASSUME NEW c, IsConfig(c), Aligned(c), NEW x \in Applicable, NEW value, NEW u, NEW bad,
           Steers(x, c.dev, u, bad), NEW e, e = Apply(c, x, value, u, bad)
    PROVE  Aligned(e)
<1>1. CASE ~c.isOpen
  <2>1. e.dev = c.dev /\ ~e.isOpen
    BY <1>1 DEF Apply, IsConfig
  <2> QED  BY <2>1 DEF Aligned
<1>2. CASE c.isOpen
  <2>1. /\ e.dev = u /\ e.unsure = StillUnsure(c, u, x, bad)
        /\ e.reset = StillReset(c, u, x, bad)
    BY <1>2 DEF Apply, IsConfig
  <2>2. ASSUME "freq" \notin e.unsure PROVE OnFreq(u)
    <3>1. CASE bad = {} /\ u.ok /\ x = "freq"
      BY <3>1 DEF Steers
    <3>2. CASE bad = {} /\ u.ok /\ x # "freq"
      <4>1. "freq" \notin c.unsure
        BY <2>1, <2>2, <3>2 DEF StillUnsure
      <4> QED  BY <1>2, <3>2, <4>1 DEF Aligned, Steers
    <3>3. CASE ~(bad = {} /\ u.ok)
      <4>1. "freq" \notin c.unsure /\ "freq" \notin Disturbs(x, c.dev, u)
        BY <2>1, <2>2, <3>3 DEF StillUnsure
      <4>2. OnFreq(c.dev) /\ Fine(c.dev) /\ Whole(c.dev)
        BY <1>2, <4>1 DEF Aligned, IsConfig
      <4>3. CASE u = [c.dev EXCEPT !.ok = FALSE]
        BY <4>2, <4>3, RefusedAligned
      <4>4. CASE u # [c.dev EXCEPT !.ok = FALSE]
        BY <4>1, <4>2, <4>4 DEF Disturbs, Steers
      <4> QED  BY <4>3, <4>4
    <3> QED  BY <3>1, <3>2, <3>3
  <2>3. ASSUME "bw" \notin e.unsure \cup e.reset PROVE Shifted(u)
    <3>0. u.direct = c.dev.direct /\ u.freq # 0
      BY <2>1, <2>3, WipedIsNoted, WipedIs
    <3>1. CASE bad = {} /\ u.ok /\ x = "bw"
      BY <3>0, <3>1 DEF Steers, ShiftRight
    <3>2. CASE bad = {} /\ u.ok /\ x # "bw"
      <4>1. "bw" \notin c.unsure \cup c.reset
        BY <2>1, <2>3, <3>2 DEF StillUnsure, StillReset
      <4> QED  BY <1>2, <3>0, <3>2, <4>1 DEF Aligned, Steers, ShiftKept
    <3>3. CASE ~(bad = {} /\ u.ok)
      <4>1. "bw" \notin c.unsure \cup c.reset /\ "bw" \notin Disturbs(x, c.dev, u)
        BY <2>1, <2>3, <3>3 DEF StillUnsure, StillReset
      <4>2. Shifted(c.dev) /\ Fine(c.dev) /\ Whole(c.dev)
        BY <1>2, <4>1 DEF Aligned, IsConfig
      <4>3. CASE u = [c.dev EXCEPT !.ok = FALSE]
        BY <4>2, <4>3, RefusedAligned
      <4>4. CASE u # [c.dev EXCEPT !.ok = FALSE]
        BY <3>0, <4>1, <4>2, <4>4 DEF Disturbs, Steers, ShiftKept
      <4> QED  BY <4>3, <4>4
    <3> QED  BY <3>1, <3>2, <3>3
  <2> QED  BY <2>1, <2>2, <2>3 DEF Aligned, Steers
<1> QED  BY <1>1, <1>2 DEF IsConfig

\* A call that may tune again does that, if it is one of those that touch the
\* frequency.
LEMMA SteeredSteers ==
    ASSUME NEW x \in {"rate", "bw", "warp"}, NEW d, NEW u, NEW bad, Steered(d, u, bad),
           x = "rate" => (bad = {} => ShiftKept(d, u)),
           x = "bw" => ShiftRight(d, u, bad),
           x = "warp" => ShiftKept(d, u)
    PROVE  Steers(x, d, u, bad)
<1>1. "freq" \in Touches[x] /\ (x # "warp" => "bw" \in Touches[x])
  BY TouchesAre
<1>2. x = "bw" /\ bad = {} => ShiftKept(d, u)
  BY DEF ShiftKept, ShiftRight
<1> QED  BY <1>1, <1>2 DEF Steers, Steered

\* So does a gain.
LEMMA CoreDoes ==
    ASSUME NEW x \in {"gain", "ifGain"}, NEW d, NEW u, NEW bad, Whole(d), Core(d, u)
    PROVE  Steers(x, d, u, bad)
<1>1. Whole(u) /\ (OnFreq(d) => OnFreq(u)) /\ (Shifted(d) => Shifted(u))
  BY CoreKeeps
<1> QED  BY <1>1 DEF Steers, ShiftKept

\* setReceiveFrequency keeps oscillator and down-converter right.
LEMMA FrequencyAligned ==
    ASSUME NEW c, NEW khz \in Nat, khz <= 1700000, NEW bad, Within(c), Aligned(c)
    PROVE  Aligned(setReceiveFrequency(c, khz, bad))
<1> DEFINE d == c.dev
           sum == khz + c.attr.rate \div 4
           u == rtlsdr_set_center_freq(d, sum, bad)
           e == setReceiveFrequency(c, khz, bad)
<1>1. IsConfig(c) /\ Chipped(d) /\ Whole(d)
  BY WithinIs DEF Aligned
<1>2. sum \in Tunable
  BY DEF Within, Bounded, Attributes, Tunable
<1>3. e = Apply(c, "freq", khz, u, bad)
  BY DEF setReceiveFrequency
<1> HIDE DEF sum, e
<1>4. /\ Whole(u) /\ (bad = {} => OnFreq(u)) /\ ShiftKept(d, u)
  BY <1>1, <1>2, CentreWhole DEF ShiftKept
<1>5. Steers("freq", d, u, bad)
  BY <1>4, TouchesAre DEF Steers
<1> HIDE DEF u
<1> QED  BY <1>1, <1>3, <1>5, ApplyAligned DEF Applicable, e

\* setReceiveSampleRate does.
LEMMA RateAligned ==
    ASSUME NEW c, NEW khz \in Nat, NEW bad, Within(c), Aligned(c)
    PROVE  Aligned(setReceiveSampleRate(c, khz, bad))
<1> DEFINE d == c.dev
           u == rtlsdr_set_sample_rate(d, khz, bad)
           e == setReceiveSampleRate(c, khz, bad)
<1>1. IsConfig(c) /\ Ready(d) /\ Whole(d)
  BY WithinIs DEF Aligned
<1>2. e = Apply(c, "rate", khz, u, bad)
  BY DEF setReceiveSampleRate
<1> HIDE DEF e
<1>3. Steered(d, u, bad) /\ (bad = {} => ShiftKept(d, u))
  BY <1>1, SetRateWhole
<1> HIDE DEF u
<1>4. Steers("rate", d, u, bad)
  BY <1>3, SteeredSteers
<1> QED  BY <1>1, <1>2, <1>4, ApplyAligned DEF Applicable, e

\* setReceiveBandwidth does.
LEMMA BandwidthAligned ==
    ASSUME NEW c, NEW khz \in Nat, NEW bad, Within(c), Aligned(c)
    PROVE  Aligned(setReceiveBandwidth(c, khz, bad))
<1> DEFINE d == c.dev
           u == rtlsdr_set_tuner_bandwidth(d, khz, bad)
           e == setReceiveBandwidth(c, khz, bad)
<1>1. IsConfig(c) /\ Ready(d) /\ Whole(d)
  BY WithinIs DEF Aligned
<1>2. e = Apply(c, "bw", khz, u, bad)
  BY DEF setReceiveBandwidth
<1> HIDE DEF e
<1>3. Steered(d, u, bad) /\ ShiftRight(d, u, bad)
  BY <1>1, SetBandwidthWhole
<1> HIDE DEF u
<1>4. Steers("bw", d, u, bad)
  BY <1>3, SteeredSteers
<1> QED  BY <1>1, <1>2, <1>4, ApplyAligned DEF Applicable, e

\* setReceiveWarpInPartsPerMillion does.
LEMMA WarpAligned ==
    ASSUME NEW c, NEW ppm \in Int, NEW bad, Within(c), Aligned(c)
    PROVE  Aligned(setReceiveWarpInPartsPerMillion(c, ppm, bad))
<1> DEFINE d == c.dev
           u == verbose_ppm_set(d, ppm, bad)
           e == setReceiveWarpInPartsPerMillion(c, ppm, bad)
<1>1. IsConfig(c) /\ Ready(d) /\ Whole(d)
  BY WithinIs DEF Aligned
<1>2. e = Apply(c, "warp", ppm, u, bad)
  BY DEF setReceiveWarpInPartsPerMillion
<1> HIDE DEF e
<1>3. Steered(d, u, bad) /\ ShiftKept(d, u)
  BY <1>1, WarpWhole
<1> HIDE DEF u
<1>4. Steers("warp", d, u, bad)
  BY <1>3, SteeredSteers
<1> QED  BY <1>1, <1>2, <1>4, ApplyAligned DEF Applicable, e

\* setReceiveGainInDb does.
LEMMA GainAligned ==
    ASSUME NEW c, NEW gain \in Nat, NEW bad, Within(c), Aligned(c)
    PROVE  Aligned(setReceiveGainInDb(c, gain, bad))
<1> DEFINE d == c.dev
           u == Gained(d, gain, bad)
           e == setReceiveGainInDb(c, gain, bad)
<1>1. IsConfig(c) /\ Chipped(d) /\ Whole(d)
  BY WithinIs DEF Aligned
<1>2. e = Apply(c, "gain", gain, u, bad)
  BY DEF setReceiveGainInDb, Gained
<1> HIDE DEF e
<1>3. Core(d, u)
  BY <1>1, GainCore
<1> HIDE DEF u
<1>4. Steers("gain", d, u, bad)
  BY <1>1, <1>3, CoreDoes
<1> QED  BY <1>1, <1>2, <1>4, ApplyAligned DEF Applicable, e

\* Noting an outcome or the squelch's copy of the IF gain has no part in it.
LEMMA NotesAligned ==
    ASSUME NEW c, IsConfig(c), Aligned(c), NEW v, NEW a
    PROVE  Aligned([c EXCEPT !.success = v]) /\ Aligned([c EXCEPT !.attr = a])
BY DEF Aligned, IsConfig

\* setReceiveIfGainInDb does.
LEMMA IfGainAligned ==
    ASSUME NEW c, NEW stage, NEW gain \in Nat, NEW bad, Within(c), Aligned(c)
    PROVE  Aligned(setReceiveIfGainInDb(c, stage, gain, bad))
<1> DEFINE d == c.dev
           u == rtlsdr_set_tuner_if_gain(d, stage, 10 * gain, bad)
           n == Apply(c, "ifGain", gain, u, bad)
           e == setReceiveIfGainInDb(c, stage, gain, bad)
<1>1. IsConfig(c) /\ Chipped(d) /\ Whole(d)
  BY WithinIs DEF Aligned
<1>2. e = [n EXCEPT !.attr.adjustable = IF n.success THEN gain ELSE @]
  BY DEF setReceiveIfGainInDb
<1> HIDE DEF e
<1>3. Core(d, u)
  BY <1>1, IfGainCore
<1> HIDE DEF u
<1>4. Steers("ifGain", d, u, bad)
  BY <1>1, <1>3, CoreDoes
<1>5. Aligned(n)
  BY <1>1, <1>4, ApplyAligned DEF Applicable
<1>6. e.dev = n.dev /\ e.isOpen = n.isOpen /\ e.unsure = n.unsure /\ e.reset = n.reset
  <2>1. DOMAIN n = {"attr", "dev", "isOpen", "enabled", "success", "tunedAt", "unsure", "reset"}
    BY <1>1 DEF Apply, IsConfig
  <2> HIDE DEF n
  <2> QED  BY <1>2, <2>1
<1> HIDE DEF n
<1> QED  BY <1>5, <1>6 DEF Aligned, e

\* Applying what is noted keeps oscillator and down-converter right.
LEMMA AttributeAligned ==
    ASSUME NEW c, NEW x \in Applicable, NEW bad, Within(c), Aligned(c)
    PROVE  Aligned(setAttribute(c, x, bad))
<1>1. /\ c.attr.freq \in Nat /\ c.attr.rate \in Nat /\ c.attr.bw \in Nat
      /\ c.attr.ifGain \in Nat /\ c.attr.gain \in Nat /\ c.attr.warp \in Int
      /\ c.attr.freq <= 1700000
  BY DEF Within, Bounded, Attributes
<1>2. CASE x = "freq"
  <2>1. setAttribute(c, x, bad) = setReceiveFrequency(c, c.attr.freq, bad)
    BY <1>2 DEF setAttribute
  <2> QED  BY <1>1, <2>1, FrequencyAligned
<1>3. CASE x = "rate"
  <2>1. setAttribute(c, x, bad) = setReceiveSampleRate(c, c.attr.rate, bad)
    BY <1>3 DEF setAttribute
  <2> QED  BY <1>1, <2>1, RateAligned
<1>4. CASE x = "bw"
  <2>1. setAttribute(c, x, bad) = setReceiveBandwidth(c, c.attr.bw, bad)
    BY <1>4 DEF setAttribute
  <2> QED  BY <1>1, <2>1, BandwidthAligned
<1>5. CASE x = "gain"
  <2>1. setAttribute(c, x, bad) = setReceiveGainInDb(c, c.attr.gain, bad)
    BY <1>5 DEF setAttribute
  <2> QED  BY <1>1, <2>1, GainAligned
<1>6. CASE x = "ifGain"
  <2>1. setAttribute(c, x, bad) = setReceiveIfGainInDb(c, 0, c.attr.ifGain, bad)
    BY <1>6 DEF setAttribute
  <2> QED  BY <1>1, <2>1, IfGainAligned
<1>7. CASE x = "warp"
  <2>1. setAttribute(c, x, bad) = setReceiveWarpInPartsPerMillion(c, c.attr.warp, bad)
    BY <1>7 DEF setAttribute
  <2> QED  BY <1>1, <2>1, WarpAligned
<1> QED  BY <1>2, <1>3, <1>4, <1>5, <1>6, <1>7 DEF Applicable

\* So does applying it after another.
LEMMA AlsoAligned ==
    ASSUME NEW c, NEW x \in Applicable, NEW bad, Within(c), Aligned(c),
           NEW e, e = AlsoApplied(c, x, bad)
    PROVE  Within(e) /\ Aligned(e)
<1> DEFINE n == setAttribute(c, x, bad)
           v == n.success /\ c.success
<1>1. e = [n EXCEPT !.success = v]
  BY DEF AlsoApplied, With
<1>2. Aligned(n)
  BY AttributeAligned
<1>3. IsConfig(n)
  BY AttributeMoved DEF Moved, Within
<1>4. Within(e)
  BY AlsoMoved DEF Moved
<1> HIDE DEF n, v
<1>5. Aligned([n EXCEPT !.success = v])
  BY <1>2, <1>3, NotesAligned
<1> QED  BY <1>1, <1>4, <1>5

\* After a start's six set functions they are.
LEMMA AllAppliedAligned ==
    ASSUME NEW c, NEW bad, Within(c), Aligned(c)
    PROVE  Aligned(AllApplied(c, bad)) /\ Within(AllApplied(c, bad))
<1> DEFINE c1 == setAttribute(c, "freq", bad)
           c2 == AlsoApplied(c1, "rate", bad)
           c3 == AlsoApplied(c2, "bw", bad)
           c4 == AlsoApplied(c3, "ifGain", bad)
           c5 == AlsoApplied(c4, "gain", bad)
           c6 == AlsoApplied(c5, "warp", bad)
<1>0. {"freq", "rate", "bw", "ifGain", "gain", "warp"} \subseteq Applicable
  BY DEF Applicable
<1>1. Within(c1) /\ Aligned(c1)
  <2>1. Within(c1)
    BY <1>0, AttributeMoved DEF Moved
  <2> QED  BY <1>0, <2>1, AttributeAligned
<1> HIDE DEF c1
<1>2. Within(c2) /\ Aligned(c2)  BY <1>0, <1>1, AlsoAligned
<1> HIDE DEF c2
<1>3. Within(c3) /\ Aligned(c3)  BY <1>0, <1>2, AlsoAligned
<1> HIDE DEF c3
<1>4. Within(c4) /\ Aligned(c4)  BY <1>0, <1>3, AlsoAligned
<1> HIDE DEF c4
<1>5. Within(c5) /\ Aligned(c5)  BY <1>0, <1>4, AlsoAligned
<1> HIDE DEF c5
<1>6. Within(c6) /\ Aligned(c6)  BY <1>0, <1>5, AlsoAligned
<1>7. c6 = AllApplied(c, bad)
  BY AllAppliedIs DEF c1, c2, c3, c4, c5
<1> QED  BY <1>6, <1>7

\* A device just opened is not tuned, and its intermediate frequency is set;
\* after a fault everything is unsure.
LEMMA OpenedAligned ==
    ASSUME NEW c, NEW bad, Within(c), Aligned(c), ~c.isOpen, NEW n, n = Opened(c, bad)
    PROVE  Aligned(n)
<1>1. IsConfig(c) /\ Chipped(c.dev)
  BY DEF Within, Ready
<1>2. CASE ~GivesDevice(bad)
  BY <1>2 DEF Opened
<1>3. CASE GivesDevice(bad)
  <2> DEFINE d == rtlsdr_open(c.dev.kind, c.dev.t, bad)
             unsure == IF bad = {} THEN {} ELSE Settings
  <2>1. n = [c EXCEPT !.dev = d, !.isOpen = TRUE, !.unsure = unsure, !.reset = {}]
    BY <1>3 DEF Opened
  <2>2. c.dev.kind \in Kinds /\ IsChip(c.dev.kind, c.dev.t)
    BY <1>1 DEF Chipped, Fine
  <2>3. Whole(d) /\ d.freq = 0 /\ (bad = {} => Shifted(d))
    BY <2>2, OpenWhole
  <2>4. bad # {} => unsure = Settings
    OBVIOUS
  <2> HIDE DEF d, unsure
  <2>5. n.dev = d /\ n.unsure = unsure
    BY <1>1, <2>1 DEF IsConfig
  <2>6. OnFreq(d)
    BY <2>3 DEF OnFreq
  <2>7. "bw" \in Settings
    BY DEF Settings
  <2> QED  BY <2>3, <2>4, <2>5, <2>6, <2>7 DEF Aligned
<1> QED  BY <1>2, <1>3

\* Without a device there is nothing to be right.
LEMMA ClosedAligned ==
    ASSUME NEW c, NEW bad, Within(c), Aligned(c), NEW on \in BOOLEAN,
           NEW e, e = [c EXCEPT !.dev = ClosedDev(c, bad), !.isOpen = FALSE, !.enabled = on]
    PROVE  Aligned(e)
<1> DEFINE d == ClosedDev(c, bad)
<1>1. IsConfig(c) /\ Chipped(c.dev) /\ Whole(c.dev)
  BY DEF Within, Ready, Aligned
<1>2. Whole(d)
  BY <1>1, CloseWhole DEF ClosedDev
<1>3. e = [c EXCEPT !.dev = d, !.isOpen = FALSE, !.enabled = on]
  BY <1>1 DEF IsConfig
<1> HIDE DEF d
<1>4. e.dev = d /\ ~e.isOpen
  BY <1>1, <1>3 DEF IsConfig
<1> QED  BY <1>2, <1>4 DEF Aligned

\* stopReceiver keeps it.
LEMMA StopAligned ==
    ASSUME NEW c, NEW bad, Within(c), Aligned(c)
    PROVE  Aligned(stopReceiver(c, bad))
<1>1. CASE ~c.enabled
  BY <1>1 DEF stopReceiver
<1>2. CASE c.enabled
  <2>1. PICK on \in BOOLEAN : on = FALSE
    OBVIOUS
  <2> DEFINE e == stopReceiver(c, bad)
  <2>0. IsConfig(c)
    BY DEF Within
  <2>2. e = [c EXCEPT !.dev = ClosedDev(c, bad), !.isOpen = FALSE, !.enabled = on]
    BY <1>2, <2>0, <2>1 DEF stopReceiver, ClosedDev, IsConfig
  <2> HIDE DEF e
  <2>3. Aligned(e)
    BY <2>2, ClosedAligned
  <2> QED  BY <2>3 DEF e
<1> QED  BY <1>1, <1>2

\* startReceiver keeps it, whether it had a device to open, opened it, or
\* closed it again.
LEMMA StartAligned ==
    ASSUME NEW c, NEW bad, Sound(c), Aligned(c)
    PROVE  Aligned(startReceiver(c, bad))
<1> DEFINE e == startReceiver(c, bad)
<1>0. Within(c) /\ IsConfig(c)
  BY DEF Sound, Within
<1>1. CASE c.enabled
  <2>1. e = [c EXCEPT !.success = TRUE]
    BY <1>1 DEF startReceiver
  <2> HIDE DEF e
  <2>2. Aligned(e)
    BY <1>0, <2>1, NotesAligned
  <2> QED  BY <2>2 DEF e
<1>2. CASE ~c.enabled /\ (verbose_device_search(bad) < 0 \/ OpenError(bad) # 0)
  <2>1. e = [c EXCEPT !.success = FALSE]
    BY <1>2 DEF startReceiver
  <2> HIDE DEF e
  <2>2. Aligned(e)
    BY <1>0, <2>1, NotesAligned
  <2> QED  BY <2>2 DEF e
<1>3. CASE ~c.enabled /\ ~(verbose_device_search(bad) < 0 \/ OpenError(bad) # 0)
  <2> DEFINE n == Opened(c, bad)
             a == AllApplied(n, bad)
  <2>1. e = Started(a, bad)
    BY <1>3 DEF startReceiver
  <2>2. ~c.isOpen
    BY <1>3 DEF Sound
  <2>3. Within(n)
    BY <1>0, <2>2, OpenedSound
  <2>4. Aligned(n)
    BY <1>0, <2>2, OpenedAligned
  <2> HIDE DEF n
  <2>5. Within(a) /\ Aligned(a)
    BY <2>3, <2>4, AllAppliedAligned
  <2> HIDE DEF a, e
  <2>6. IsConfig(a)
    BY <2>5 DEF Within
  <2>7. CASE a.success
    <3>1. e = [a EXCEPT !.enabled = TRUE]
      BY <2>1, <2>7 DEF Started
    <3>2. e.dev = a.dev /\ e.isOpen = a.isOpen /\ e.unsure = a.unsure /\ e.reset = a.reset
      BY <2>6, <3>1 DEF IsConfig
    <3>3. Aligned(e)
      BY <2>5, <3>2 DEF Aligned
    <3> QED  BY <3>3 DEF e
  <2>8. CASE ~a.success
    <3>1. e = [a EXCEPT !.dev = IF a.isOpen THEN rtlsdr_close(@, bad) ELSE @, !.isOpen = FALSE]
      BY <2>1, <2>8 DEF Started
    <3>2. PICK on \in BOOLEAN : on = a.enabled
      BY <2>6 DEF IsConfig
    <3>3. e = [a EXCEPT !.dev = ClosedDev(a, bad), !.isOpen = FALSE, !.enabled = on]
      BY <2>6, <3>1, <3>2 DEF IsConfig, ClosedDev
    <3>4. Aligned(e)
      BY <2>5, <3>3, ClosedAligned
    <3> QED  BY <3>4 DEF e
  <2> QED  BY <2>7, <2>8
<1> QED  BY <1>1, <1>2, <1>3

\* Nor does clearing a tuner's outcome change what it is set to.
LEMMA OutcomeSame ==
    ASSUME NEW kind, NEW t, IsChip(kind, t), NEW u, u = [t EXCEPT !.ok = TRUE]
    PROVE  ChipSame(kind, t, u)
<1>1. Rafael(kind) => Held(t, u)
  BY DEF IsChip, IsR82xx, Held, Clocked
<1>2. kind = "FC0012" => FitipowerSame(t, u)
  BY DEF IsChip, F!fc0012_regs, FitipowerSame
<1>3. kind = "FC0013" => FitipowerSame(t, u)
  BY DEF IsChip, F!fc0013_regs, FitipowerSame
<1>4. IsFcChip(t) => IsFcChip(u) /\ FciSame(t, u)
  BY DEF IsFcChip, FciSame, K!fc2580_regs
<1> QED  BY <1>1, <1>2, <1>3, <1>4 DEF ChipSame

\* The end of a call keeps it.
LEMMA SettledAligned ==
    ASSUME NEW c, Within(c), Aligned(c)
    PROVE  Aligned(Settled(c))
<1> DEFINE d == c.dev
           t == [d.t EXCEPT !.ok = TRUE]
           u == [d EXCEPT !.ok = TRUE, !.t = t]
           e == Settled(c)
<1>1. IsConfig(c) /\ Fine(d) /\ IsChip(d.kind, d.t) /\ Whole(d)
  BY DEF Within, Ready, Chipped, Aligned
<1>2. e = [c EXCEPT !.success = TRUE, !.dev = u]
  BY <1>1 DEF Settled, IsConfig, Fine, DeviceFields
<1>3. ChipSame(d.kind, d.t, t)
  BY <1>1, OutcomeSame
<1> HIDE DEF t, e
<1>4. Core(d, u)
  BY <1>1, <1>3 DEF Core, Fine, DeviceFields
<1> HIDE DEF u
<1>5. Whole(u) /\ (OnFreq(d) => OnFreq(u)) /\ (Shifted(d) => Shifted(u))
  BY <1>1, <1>4, CoreKeeps
<1>6. e.dev = u /\ e.isOpen = c.isOpen /\ e.unsure = c.unsure /\ e.reset = c.reset
  BY <1>1, <1>2 DEF IsConfig
<1>7. Aligned(e)
  BY <1>5, <1>6 DEF Aligned
<1> QED  BY <1>7 DEF e

(****************************************************************************)
(* The third invariant, and what follows from it.                           *)
(****************************************************************************)

\* The third invariant: oscillator and down-converter are right.
AlignedInv == Aligned(config)

\* It holds at the start, where no device is open.
LEMMA AlignedInit == Init => AlignedInv
<1> SUFFICES ASSUME Init PROVE AlignedInv
  OBVIOUS
<1>1. PICK kind \in Dongles : config = setupReceiver(kind)
  BY DEF Init
<1> DEFINE t == FreshChip(kind)
           d == NewDevice(kind, t)
<1>2. kind = "FC2580" => IsFcChip(t)
  BY DEF FreshChip, Rafael, IsFcChip
<1> HIDE DEF t
<1>3. Whole(d)
  BY <1>2, NewDeviceWhole
<1>4. config.dev = d /\ ~config.isOpen
  BY <1>1 DEF setupReceiver, t
<1> HIDE DEF d
<1> QED  BY <1>3, <1>4 DEF AlignedInv, Aligned

\* Every step keeps it.
LEMMA AlignedNext == ConfigInv /\ SoundInv /\ AlignedInv /\ [Next]_vars => AlignedInv'
<1> SUFFICES ASSUME ConfigInv, SoundInv, AlignedInv, [Next]_vars PROVE AlignedInv'
  OBVIOUS
<1>0. Sound(config) /\ Within(config) /\ Aligned(config)
  BY DEF SoundInv, Sound, AlignedInv
<1>00. ASSUME NEW e, Within(e), Aligned(e), config' = Settled(e) PROVE AlignedInv'
  <2>1. Aligned(config')
    BY <1>00, SettledAligned
  <2> QED  BY <2>1 DEF AlignedInv
<1>1. CASE cmdSetRxFrequency
  <2>1. PICK khz \in Frequencies, bad \in Faults[config.dev.kind] :
          /\ khz <= 1700000
          /\ config' = Settled(setReceiveFrequency(config, khz, bad))
    BY <1>1 DEF cmdSetRxFrequency, Called
  <2>2. khz \in Nat
    BY ConfigAssumption
  <2> DEFINE e == setReceiveFrequency(config, khz, bad)
  <2>3. Aligned(e)
    BY <1>0, <2>1, <2>2, FrequencyAligned
  <2>4. Within(e)
    BY <1>0, <2>1, <2>2, FrequencyMoved DEF Moved
  <2> QED  BY <1>00, <2>1, <2>3, <2>4
<1>2. CASE cmdSetRxSampleRate
  <2>1. PICK khz \in Rates, bad \in Faults[config.dev.kind] :
          /\ ValidRate(khz)
          /\ config' = Settled(setReceiveSampleRate(config, khz, bad))
    BY <1>2 DEF cmdSetRxSampleRate, Called
  <2>2. khz \in Nat /\ khz <= 3200
    <3>1. khz \in Nat
      BY <2>1, ConfigAssumption
    <3>2. khz <= 3200
      BY <2>1, <3>1 DEF ValidRate
    <3> QED  BY <3>1, <3>2
  <2> DEFINE e == setReceiveSampleRate(config, khz, bad)
  <2>3. Aligned(e)
    BY <1>0, <2>2, RateAligned
  <2>4. Within(e)
    BY <1>0, <2>2, RateMoved DEF Moved
  <2> QED  BY <1>00, <2>1, <2>3, <2>4
<1>3. CASE cmdSetRxBandwidth
  <2>1. PICK khz \in Bandwidths, bad \in Faults[config.dev.kind] :
          config' = Settled(setReceiveBandwidth(config, khz, bad))
    BY <1>3 DEF cmdSetRxBandwidth, Called
  <2>2. khz \in Nat
    BY ConfigAssumption
  <2> DEFINE e == setReceiveBandwidth(config, khz, bad)
  <2>3. Aligned(e)
    BY <1>0, <2>2, BandwidthAligned
  <2>4. Within(e)
    BY <1>0, <2>2, BandwidthMoved DEF Moved
  <2> QED  BY <1>00, <2>1, <2>3, <2>4
<1>4. CASE cmdSetRxGain
  <2>1. PICK gain \in Gains \cup {AutoGain}, bad \in Faults[config.dev.kind] :
          config' = Settled(setReceiveGainInDb(config, gain, bad))
    BY <1>4 DEF cmdSetRxGain, Called
  <2>2. gain \in Nat
    BY AutoIsNat, ConfigAssumption
  <2> DEFINE e == setReceiveGainInDb(config, gain, bad)
  <2>3. Aligned(e)
    BY <1>0, <2>2, GainAligned
  <2>4. Within(e)
    BY <1>0, <2>2, GainMoved DEF Moved
  <2> QED  BY <1>00, <2>1, <2>3, <2>4
<1>5. CASE cmdSetRxIfGain
  <2>1. PICK gain \in IfGains, bad \in Faults[config.dev.kind] :
          config' = Settled(setReceiveIfGainInDb(config, 0, gain, bad))
    BY <1>5 DEF cmdSetRxIfGain, Called
  <2>2. gain \in Nat
    BY ConfigAssumption
  <2> DEFINE e == setReceiveIfGainInDb(config, 0, gain, bad)
  <2>3. Aligned(e)
    BY <1>0, <2>2, IfGainAligned
  <2>4. Within(e)
    BY <1>0, <2>2, IfGainMoved DEF Moved
  <2> QED  BY <1>00, <2>1, <2>3, <2>4
<1>6. CASE cmdSetRxWarp
  <2>1. PICK ppm \in Warps, bad \in Faults[config.dev.kind] :
          config' = Settled(setReceiveWarpInPartsPerMillion(config, ppm, bad))
    BY <1>6 DEF cmdSetRxWarp, Called
  <2>2. ppm \in Int
    BY ConfigAssumption
  <2> DEFINE e == setReceiveWarpInPartsPerMillion(config, ppm, bad)
  <2>3. Aligned(e)
    BY <1>0, <2>2, WarpAligned
  <2>4. Within(e)
    BY <1>0, <2>2, WarpMoved DEF Moved
  <2> QED  BY <1>00, <2>1, <2>3, <2>4
<1>7. CASE cmdStartReceiver
  <2>1. PICK bad \in Faults[config.dev.kind] : config' = Settled(startReceiver(config, bad))
    BY <1>7 DEF cmdStartReceiver, Called
  <2> DEFINE e == startReceiver(config, bad)
  <2>3. Aligned(e)
    BY <1>0, StartAligned
  <2>4. Within(e)
    BY <1>0, StartAnswers DEF Answers, Sound
  <2> QED  BY <1>00, <2>1, <2>3, <2>4
<1>8. CASE cmdStopReceiver
  <2>1. PICK bad \in Faults[config.dev.kind] : config' = Settled(stopReceiver(config, bad))
    BY <1>8 DEF cmdStopReceiver, Called
  <2> DEFINE e == stopReceiver(config, bad)
  <2>3. Aligned(e)
    BY <1>0, StopAligned
  <2>4. Within(e)
    BY <1>0, StopAnswers DEF Answers, Sound
  <2> QED  BY <1>00, <2>1, <2>3, <2>4
<1>9. CASE cmdSelectV4BlogRadio \/ cmdSelectNormalRadio \/ UNCHANGED vars
  <2>1. UNCHANGED config
    BY <1>9 DEF cmdSelectV4BlogRadio, cmdSelectNormalRadio, vars
  <2> QED  BY <2>1 DEF AlignedInv
<1> QED  BY <1>1, <1>2, <1>3, <1>4, <1>5, <1>6, <1>7, <1>8, <1>9 DEF Next

\* The third invariant holds in every reachable state.
THEOREM AlwaysAligned == Spec => []AlignedInv
BY AlignedInit, AlignedNext, AlwaysSound, TypeInvariant, PTL DEF Spec

\* For every tuner a receiver starts with (all but the E4000), every frequency
\* up to 1.7 GHz, every correction and whatever failed before: a device that
\* is open and sure of frequency and bandwidth has its oscillator (to 2 kHz,
\* for an FC0012 where its product fits 32 bits), tracking filter and digital
\* down-converter where the wanted frequency comes out at zero.
THEOREM OscillatorCentred == Spec => []Centred
<1>1. AlignedInv => Centred
  <2> SUFFICES ASSUME AlignedInv, config.isOpen, Sure("freq"), Sure("bw"), Dev.freq # 0
               PROVE  Centred
    BY DEF Centred
  <2>1. OnFreq(Dev) /\ Shifted(Dev)
    BY DEF AlignedInv, Aligned, Sure, Dev
  <2>2. CASE Dev.direct # 0
    BY <2>1, <2>2 DEF OnFreq, Centred
  <2>3. CASE Dev.direct = 0 /\ Rafael(Dev.kind)
    <3> DEFINE lo == Dev.t.intFreq + Dev.freq
                     + (IF Dev.kind = "V4" /\ Dev.freq < 28800 THEN 28800 ELSE 0)
    <3>1. OnRafael(Dev) /\ Dev.ddc.freq = Dev.t.intFreq
      BY <2>1, <2>3 DEF OnFreq, Shifted
    <3>2. LoFor(Dev.t, Dev.freq, Dev.kind = "V4") = lo
      BY DEF LoFor
    <3>3. /\ Dev.t.hasLock => /\ Off(R!LoOf(Dev.t.chip.r14), lo) <= 2
                              /\ Dev.t.chip.r14.corr = Dev.corr
          /\ Dev.t.chip.r1b.tf = R!RangeOf(lo)
      <4> HIDE DEF lo
      <4> QED  BY <3>1, <3>2 DEF OnRafael, OnLo
    <3>4. RafaelCentred
      BY <3>1, <3>3 DEF RafaelCentred
    <3> QED  BY <2>3, <3>4 DEF Centred, Rafael
  <2>4. CASE Dev.direct = 0 /\ Dev.kind \in {"FC0012", "FC0013"}
    <3>1. ~Rafael(Dev.kind)
      BY <2>4 DEF Rafael
    <3>2. OnVco(Dev.t, Dev.freq, Dev.corr)
      BY <2>1, <2>4 DEF OnFreq
    <3>3. FitipowerCentred
      BY <3>2 DEF OnVco, FitipowerCentred
    <3> QED  BY <2>4, <3>1, <3>3 DEF Centred
  <2>5. CASE Dev.direct = 0 /\ Dev.kind = "FC2580"
    <3>1. ~Rafael(Dev.kind)
      BY <2>5 DEF Rafael
    <3> QED  BY <2>1, <2>5, <3>1 DEF OnFreq, Centred
  <2>6. CASE /\ Dev.direct = 0 /\ ~Rafael(Dev.kind)
             /\ Dev.kind \notin {"FC0012", "FC0013", "FC2580"}
    BY <2>6 DEF Centred
  <2> QED  BY <2>2, <2>3, <2>4, <2>5, <2>6
<1> QED  BY <1>1, AlwaysAligned, PTL
=============================================================================
