---------------------------- MODULE RadioConfig ----------------------------
(***************************************************************************)
(* The receiver's settings: what the user has asked for (the receive        *)
(* attributes of Radio, src/radioDiags/src_diags/Radio.cc) and what the     *)
(* driver and the dongle make of it (module Rtlsdr), under the commands of  *)
(* diagUi.cc.  A set function on a stopped receiver only notes the          *)
(* attribute; on a running one it notes it when the driver reports success; *)
(* a start applies them all.                                                *)
(*                                                                          *)
(* Radio's lock makes each set function, start and stop one step.  In each  *)
(* the bus may be unable to reach some registers (Faults).                  *)
(***************************************************************************)
EXTENDS Rtlsdr, FiniteSets

CONSTANTS Dongles,         \* kinds of tuner the program may meet
          Frequencies,     \* what the user types, in kHz
          Rates, Bandwidths, Gains, IfGains, Warps,
          Faults,          \* by tuner: sets of register groups a call may find out of reach
          MaxFaults,       \* bound: how many calls of a behaviour do
          MaxCalls         \* bound: how many calls a behaviour has

AutoGain == 99999          \* RADIO_RECEIVE_AUTO_GAIN

Settings == {"freq", "rate", "bw", "gain", "ifGain", "warp", "input"}

ASSUME ConfigAssumption ==
    /\ Dongles \subseteq Kinds
    /\ Frequencies \cup Rates \cup Bandwidths \cup Gains \cup IfGains \subseteq Nat
    /\ Warps \subseteq Int
    /\ \A kind \in Dongles : {} \in Faults[kind]
    /\ MaxFaults \in Nat /\ MaxCalls \in Nat

(* One variable holds Radio and its device:                                 *)
(*   attr     the attributes, with the copy of the IF gain the squelch uses *)
(*   dev      the device, isOpen whether devicePtr is one                   *)
(*   enabled  receiveEnabled                                                *)
(*   success  the outcome of a call, while it lasts                         *)
(*   tunedAt  history: the sample rate at the last successful tuning        *)
(*   unsure   history: settings a call that met a fault or was refused may  *)
(*            have left half done, and those of the tuner while no frequency*)
(*            is tuned                                                      *)
(*   reset    history: settings that going to direct sampling or back has   *)
(*            put to sleep or initialised since they were applied           *)
VARIABLES config, v4BlogRadio, calls, faults

vars == <<config, v4BlogRadio, calls, faults>>
----------------------------------------------------------------------------
(* Radio's set functions.                                                   *)

\* Which settings a call reaches down to.
Touches == [freq |-> {"freq", "input"}, rate |-> {"rate", "bw", "freq", "warp", "input"},
            bw |-> {"bw", "freq", "input"}, gain |-> {"gain"}, ifGain |-> {"ifGain"},
            warp |-> {"warp", "freq", "input"}]

\* A call that is refused before it does anything disturbs no other setting.
Disturbs(setting, old, new) ==
    IF new = [old EXCEPT !.ok = FALSE] THEN {setting} ELSE Touches[setting]

\* What the tuner's standby and initialisation overwrite.
TunerSettings == {"bw", "gain", "ifGain", "input"}

\* A tuning that fails may initialise the tuner.
StillUnsure(c, u, setting, bad) ==
    (IF bad = {} /\ u.ok THEN c.unsure \ {setting}
     ELSE c.unsure \cup Disturbs(setting, c.dev, u))
    \cup (IF u.freq = 0 THEN TunerSettings ELSE {})

\* So does going to direct sampling and back, and nobody applies the settings
\* again.
StillReset(c, u, setting, bad) ==
    (IF bad = {} /\ u.ok THEN c.reset \ {setting} ELSE c.reset)
    \cup (IF u.direct = c.dev.direct THEN {} ELSE TunerSettings)

\* The shape of all six: without a device the attribute is noted, with one
\* the driver is asked first (u is the device after that).
Apply(c, setting, value, u, bad) ==
    IF ~c.isOpen THEN [c EXCEPT !.attr[setting] = value, !.success = TRUE]
    ELSE [c EXCEPT !.dev = u, !.success = u.ok,
                   !.attr[setting] = IF u.ok THEN value ELSE @,
                   !.tunedAt = IF u.ok /\ setting = "freq" THEN c.attr.rate ELSE @,
                   !.unsure = StillUnsure(c, u, setting, bad),
                   !.reset = StillReset(c, u, setting, bad)]

\* The tuner is set a quarter of the sample rate above the frequency.
setReceiveFrequency(c, khz, bad) ==
    Apply(c, "freq", khz, rtlsdr_set_center_freq(c.dev, khz + c.attr.rate \div 4, bad), bad)

setReceiveSampleRate(c, khz, bad) ==
    Apply(c, "rate", khz, rtlsdr_set_sample_rate(c.dev, khz, bad), bad)

setReceiveBandwidth(c, khz, bad) ==
    Apply(c, "bw", khz, rtlsdr_set_tuner_bandwidth(c.dev, khz, bad), bad)

setReceiveGainInDb(c, gain, bad) ==
    LET n == nearest_gain(c.dev, 10 * gain, bad)
    IN  Apply(c, "gain", gain, IF gain = AutoGain THEN verbose_auto_gain(c.dev, bad)
                               ELSE verbose_gain_set(n.dev, n.gain, bad), bad)

setReceiveIfGainInDb(c, stage, gain, bad) ==
    LET u == Apply(c, "ifGain", gain, rtlsdr_set_tuner_if_gain(c.dev, stage, 10 * gain, bad), bad)
    IN  [u EXCEPT !.attr.adjustable = IF u.success THEN gain ELSE @]

setReceiveWarpInPartsPerMillion(c, ppm, bad) ==
    Apply(c, "warp", ppm, verbose_ppm_set(c.dev, ppm, bad), bad)
----------------------------------------------------------------------------
(* Start and stop.                                                          *)

\* A fresh device knows nothing.
Opened(c, bad) ==
    IF ~GivesDevice(bad) THEN c
    ELSE [c EXCEPT !.dev = rtlsdr_open(c.dev.kind, c.dev.t, bad), !.isOpen = TRUE,
                   !.unsure = IF bad = {} THEN {} ELSE Settings, !.reset = {}]

\* The set functions a start calls, with what is noted; each is called also
\* after one has failed.
With(c, success) == [c EXCEPT !.success = @ /\ success]
RateApplied(c, bad) == With(setReceiveSampleRate(c, c.attr.rate, bad), c.success)
BandwidthApplied(c, bad) == With(setReceiveBandwidth(c, c.attr.bw, bad), c.success)
IfGainApplied(c, bad) == With(setReceiveIfGainInDb(c, 0, c.attr.ifGain, bad), c.success)
GainApplied(c, bad) == With(setReceiveGainInDb(c, c.attr.gain, bad), c.success)
WarpApplied(c, bad) == With(setReceiveWarpInPartsPerMillion(c, c.attr.warp, bad), c.success)

AllButWarpApplied(c, bad) ==
    GainApplied(IfGainApplied(BandwidthApplied(RateApplied(
      setReceiveFrequency(c, c.attr.freq, bad), bad), bad), bad), bad)

\* Faulty variant: the correction is left to the next command.
AllAppliedWithoutWarp(c, bad) == AllButWarpApplied(c, bad)

AllApplied(c, bad) == WarpApplied(AllButWarpApplied(c, bad), bad)

\* Any failure closes the device again.
Started(c, bad) ==
    IF c.success THEN [c EXCEPT !.enabled = TRUE]
    ELSE [c EXCEPT !.dev = IF c.isOpen THEN rtlsdr_close(@, bad) ELSE @, !.isOpen = FALSE]

\* When rtlsdr_open has given no device and no error, the set functions only
\* note their attributes and the receiver counts as started.
startReceiver(c, bad) ==
    IF c.enabled THEN [c EXCEPT !.success = TRUE]
    ELSE IF verbose_device_search(bad) < 0 \/ OpenError(bad) # 0 THEN [c EXCEPT !.success = FALSE]
    ELSE Started(AllApplied(Opened(c, bad), bad), bad)

stopReceiver(c, bad) ==
    IF ~c.enabled THEN c
    ELSE [c EXCEPT !.dev = IF c.isOpen THEN rtlsdr_close(@, bad) ELSE @,
                   !.isOpen = FALSE, !.enabled = FALSE]

\* Radio's constructor and setupReceiver; radioApp sets frequency and rate.
setupReceiver(kind) ==
    [attr |-> [freq |-> 100000, rate |-> 256, bw |-> 0, gain |-> AutoGain, ifGain |-> 24,
               adjustable |-> 24, warp |-> 0],
     dev |-> NewDevice(kind, FreshChip(kind)), isOpen |-> FALSE, enabled |-> FALSE, success |-> TRUE,
     tunedAt |-> 256, unsure |-> {}, reset |-> {}]

Init == /\ \E kind \in Dongles : config = setupReceiver(kind)
        /\ v4BlogRadio = FALSE
        /\ calls = 0 /\ faults = 0
----------------------------------------------------------------------------
(* The commands.                                                            *)

\* Nobody keeps the outcome of a call.
Settled(c) == [c EXCEPT !.success = TRUE, !.dev.ok = TRUE, !.dev.t.ok = TRUE]

\* A call in which the bus misbehaves counts as a fault.
Called(Call(_)) ==
    \E bad \in Faults[config.dev.kind] :
      /\ calls < MaxCalls /\ calls' = calls + 1
      /\ bad # {} => faults < MaxFaults
      /\ faults' = IF bad = {} THEN faults ELSE faults + 1
      /\ config' = Settled(Call(bad))
      /\ UNCHANGED v4BlogRadio

LowestFrequency == IF v4BlogRadio THEN 100 ELSE 24000

cmdSetRxFrequency ==
    \E khz \in Frequencies :
      /\ khz >= LowestFrequency /\ khz <= 1700000
      /\ Called(LAMBDA bad : setReceiveFrequency(config, khz, bad))

cmdSetRxSampleRate ==
    \E khz \in Rates :
      /\ ValidRate(khz)
      /\ Called(LAMBDA bad : setReceiveSampleRate(config, khz, bad))

cmdSetRxBandwidth ==
    \E khz \in Bandwidths : Called(LAMBDA bad : setReceiveBandwidth(config, khz, bad))

cmdSetRxGain ==
    \E gain \in Gains \cup {AutoGain} :
      /\ gain <= 50 \/ gain = AutoGain
      /\ Called(LAMBDA bad : setReceiveGainInDb(config, gain, bad))

cmdSetRxIfGain ==
    \E gain \in IfGains :
      /\ gain <= 46
      /\ Called(LAMBDA bad : setReceiveIfGainInDb(config, 0, gain, bad))

cmdSetRxWarp ==
    \E ppm \in Warps : Called(LAMBDA bad : setReceiveWarpInPartsPerMillion(config, ppm, bad))

cmdStartReceiver == Called(LAMBDA bad : startReceiver(config, bad))
cmdStopReceiver == Called(LAMBDA bad : stopReceiver(config, bad))

cmdSelectV4BlogRadio == v4BlogRadio' = TRUE /\ UNCHANGED <<config, calls, faults>>
cmdSelectNormalRadio == v4BlogRadio' = FALSE /\ UNCHANGED <<config, calls, faults>>

Next == \/ cmdSetRxFrequency \/ cmdSetRxSampleRate \/ cmdSetRxBandwidth
        \/ cmdSetRxGain \/ cmdSetRxIfGain \/ cmdSetRxWarp
        \/ cmdStartReceiver \/ cmdStopReceiver
        \/ cmdSelectV4BlogRadio \/ cmdSelectNormalRadio

Spec == Init /\ [][Next]_vars
----------------------------------------------------------------------------
(* Properties.                                                              *)

Dev == config.dev
Attr == config.attr
Sure(setting) == setting \notin config.unsure \cup config.reset

\* What the tuner's registers make of the correction, gain and bandwidth.
GainInEffect ==
    LET g == NearestOf(rtlsdr_get_tuner_gains(Dev.kind), 10 * Attr.gain)
    IN  CASE Rafael(Dev.kind) ->
               LET auto == Attr.gain = AutoGain IN
               /\ Dev.t.chip.r05.auto = auto /\ Dev.t.chip.r07.auto = auto
               /\ ~auto => /\ Dev.t.chip.r05.lna = R!GainIndices(g).lna
                           /\ Dev.t.chip.r07.mix = R!GainIndices(g).mix
          [] Dev.kind = "FC0013" ->
               /\ Dev.t.manual = (Attr.gain # AutoGain)
               /\ Dev.t.manual => Dev.t.lna = F!fc0013_set_lna_gain(Dev.t, g, {}).lna
          [] Dev.kind = "FC0012" ->
               Attr.gain # AutoGain => Dev.t.lna = F!fc0012_set_gain(Dev.t, g, {}).lna
          [] OTHER -> TRUE

BandwidthInEffect ==
    /\ Dev.bw = Attr.bw
    /\ Rafael(Dev.kind) /\ Dev.direct = 0
         => Dev.t.chip.r0b.width = R!FilterOf(WantedBw(Dev)).reg

\* What the resampler makes of the 14 bits, to 1/16 ppm; more than 488 ppm
\* do not fit.
ResamplerCorrects(ppm) ==
    LET offset == IF Dev.sro >= 8192 THEN Dev.sro - 16384 ELSE Dev.sro
    IN  ppm \in -488..488 => Off(16 * ppm, -offset) <= 1 + Off(0, ppm)

InEffect(setting) ==
    CASE setting = "freq" -> Dev.freq = Attr.freq + config.tunedAt \div 4
      [] setting = "rate" -> Dev.rate = Attr.rate /\ Dev.ratio = Attr.rate
      [] setting = "bw" -> BandwidthInEffect
      [] setting = "gain" -> GainInEffect
      [] setting = "ifGain" -> Rafael(Dev.kind) => Dev.t.chip.r0c.vga = R!VgaIndex(10 * Attr.ifGain)
      [] setting = "warp" -> Attr.warp # 0 => Dev.corr = Attr.warp /\ ResamplerCorrects(Attr.warp)
      [] setting = "input" -> Dev.kind = "V4" /\ Dev.t.hasLock =>
                                LET band == R!BandOf(Dev.freq) IN
                                /\ Dev.t.chip.r06.cable2 = (band = "hf")
                                /\ Dev.t.chip.r05.cable1 = (band = "vhf")
                                /\ Dev.t.chip.r05.air = (band = "uhf")

\* The types of Radio's part; the device is a record whose driver's part is
\* made of numbers and whose registers other invariants speak of.
TypeOK ==
    /\ Attr \in [freq : Nat, rate : Nat, bw : Nat, gain : Nat, ifGain : Nat, adjustable : Nat,
                 warp : Int]
    /\ {config.isOpen, config.enabled, config.success} \subseteq BOOLEAN
    /\ config.isOpen => config.enabled
    /\ config.unsure \subseteq Settings
    /\ config.reset \subseteq IF Dev.kind = "R820T" THEN TunerSettings ELSE {}
    /\ Dev.kind \in Kinds /\ Dev.direct \in {0, 2}
    /\ Dev.freq \in Nat /\ Dev.rate \in Nat /\ Dev.bw \in Nat /\ Dev.corr \in Int
    /\ v4BlogRadio \in BOOLEAN /\ calls \in 0..MaxCalls /\ faults \in 0..MaxFaults

\* While the receiver runs, what the user set is what the dongle's registers
\* hold: frequency, rate, bandwidth, gain, IF gain, correction and antenna
\* input, however set functions, starts and stops follow one another and
\* whatever failed before.  Three exceptions are the code's.  A setting a
\* failed call has touched (unsure) is right again once it is applied with
\* success, by a start without a fault at the latest.  Bandwidth, gain and IF gain of
\* an R820T are lost, with no fault at all, when a tuning crosses 24 MHz
\* (reset): the driver initialises the tuner or puts it to sleep and nobody
\* applies them again until they are set or the receiver is started anew.
\* And a new rate does not tune again: the tuner stays a quarter of the rate
\* at the last tuning (tunedAt) above the frequency.  (A correction of 0 is
\* not passed on by verbose_ppm_set.)
AttributesApplied ==
    config.isOpen => \A s \in Settings : Sure(s) => InEffect(s)

\* Where the oscillator of each tuner is.
RafaelCentred ==
    LET lo == Dev.t.intFreq + Dev.freq
              + (IF Dev.kind = "V4" /\ Dev.freq < 28800 THEN 28800 ELSE 0)
    IN  /\ Dev.ddc.freq = Dev.t.intFreq
        /\ Dev.t.hasLock => /\ Off(R!LoOf(Dev.t.chip.r14), lo) <= 2
                            /\ Dev.t.chip.r14.corr = Dev.corr
        /\ Dev.t.chip.r1b.tf = R!RangeOf(lo)

FitipowerCentred ==
    /\ F!InReach(Dev.freq, Dev.t.multi) => Off(F!LoOf(Dev.t), Dev.freq) <= 2
    /\ Dev.t.corr = Dev.corr

\* The tuner's oscillator, its tracking filter and the digital
\* down-converter belong together, whichever of frequency, bandwidth, rate
\* and correction was set last: the wanted frequency comes out at zero.  (An
\* R82xx that does not lock reports success; so does an FC0012 whose
\* oscillator would be beyond 32 bits, above 1073 MHz; and the correction is
\* that of the last tuning.)
Centred ==
    config.isOpen /\ Sure("freq") /\ Sure("bw") /\ Dev.freq # 0 =>
      IF Dev.direct # 0 THEN Dev.ddc = [freq |-> Dev.freq, corr |-> Dev.corr]
      ELSE CASE Rafael(Dev.kind) -> RafaelCentred
             [] Dev.kind \in {"FC0012", "FC0013"} -> FitipowerCentred
             [] Dev.kind = "FC2580" -> Off(K!LoOf(Dev.t), Dev.freq) <= 2
             [] OTHER -> TRUE

\* No call goes to the tuner while the I2C repeater between demodulator and
\* tuner is off, although some calls leave it on and some turn it off, and
\* tuning, bandwidth and direct sampling call each other.
TunerIsReached == ~Dev.deaf

\* An R820T samples the antenna directly exactly below 24 MHz, with tuner
\* and demodulator in the mode that belongs to it.
DirectBelow24MHz ==
    config.isOpen /\ Dev.kind = "R820T" /\ Dev.freq # 0 /\ faults = 0 =>
      /\ (Dev.direct = 2) = (Dev.freq < 24000)
      /\ Dev.mode = IF Dev.direct = 2 THEN "direct" ELSE "lowIf"
      /\ Dev.t.chip.r06.awake = (Dev.direct = 0)
=============================================================================
