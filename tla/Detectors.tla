------------------------------ MODULE Detectors ------------------------------
(***************************************************************************)
(* What the demodulators compute: the filters they are built of, with the   *)
(* coefficients of the source, the detectors between them, and the values   *)
(* they hand on as 16-bit PCM.  How many samples each step takes and keeps  *)
(* is in Demodulators.                                                      *)
(*                                                                          *)
(* Frequencies are in units of 100 Hz and angles are parts of a turn: at    *)
(* 64000 S/s a turn is 640 and at 256000 S/s 2560, so that a deviation of   *)
(* d advances the angle by d per sample.  At these units the source's       *)
(* floats are fractions of small whole numbers.                             *)
(***************************************************************************)
EXTENDS Filters

Reversed(h) == [k \in DOMAIN h |-> h[Len(h) + 1 - k]]
Negatives(h) == [k \in DOMAIN h |-> -h[k]]

\* Linear phase: the second half of the coefficients mirrors the first.
Mirrored(h) == h \o Reversed(h)

Decimator4(half) == Design("Decimator_int16", Mirrored(half), <<>>, 4)
Decimator2(half) == Design("Decimator_int16", Mirrored(half), <<>>, 2)
----------------------------------------------------------------------------
(* The filters, coefficients in ten-millionths.                             *)

AmDecimators ==
    <<Decimator4(<<242683, 766338, 1457589, 1959036>>),
      Decimator4(<<57496, 263853, 605301, 1074406, 1523486, 1804951>>),
      Decimator2(<<116487, 152694, -109804, -611915, -736143, 187617, 1988190, 3481364>>)>>

\* The same numbers.
SsbDecimators == AmDecimators

FmTunerDecimator ==
    Decimator4(<<41331, 54174, 76016, 115481, 151685, 203192, 251608, 311322, 366372, 427168,
                 480527, 533425, 575831, 611914, 635413, 648239>>)

AudioDecimator ==
    Decimator2(<<15969, -111080, -270501, -265610, -23190, 180618, 65495, -183409, -133345,
                 184489, 230891, -161248, -363745, 91343, 550219, 70312, -862280, -497761,
                 1793543, 4145808>>)

PostDemodDecimator == Decimator4(<<22977, 237042, 605386, 1127073, 1645167, 1971107>>)

FmPcmDecimators == <<PostDemodDecimator, AudioDecimator>>

WbFmPcmDecimators ==
    <<Decimator4(<<243699, 769537, 1463572, 1967096>>), PostDemodDecimator, AudioDecimator>>

PreDemodFilter ==
    Design("FirFilter_int16",
           Mirrored(<<-157211, -325959, 92996, 621217, -148595, -989456, 1182989, 4862333>>),
           <<>>, 1)

\* -1/16 and 1/16 are divisions of whole numbers: both are 0.
Differentiator == Design("FirFilter", <<0, 0, 1, 0, -1, 0, 0>>, <<>>, 1)

\* In hundredths.
DcRemoval == [Design("IirFilter", <<100, -100>>, <<-95>>, 1) EXCEPT !.scale = 100]

\* In ten-thousandths.
Deemphasis == [Design("IirFilter", <<254, 254>>, <<-9492>>, 1) EXCEPT !.scale = 10000]

DelayLine == Design("FirFilter_int16", [k \in 1..16 |-> IF k = 16 THEN 10000000 ELSE 0], <<>>, 1)

PhaseShifter ==
    LET half == <<-33953, 0, -58652, 0, -134385, 0, -281423, 0, -534836, 0, -980394, 0,
                  -1935638, 0, -6302204>>
    IN  Design("FirFilter_int16", half \o <<0>> \o Negatives(Reversed(half)), <<>>, 1)
----------------------------------------------------------------------------
(* A chain of decimators: a stage takes what the one before has.            *)

Pushed(stage, c, k) ==
    IF c.output = <<>> THEN c
    ELSE LET r == decimate(stage, c.filter[k], c.output[1])
         IN  [filter |-> [c.filter EXCEPT ![k] = r.filter], output |-> r.output]

Chain(stages, f, x) ==
    LET through[k \in 0..Len(stages)] ==
            IF k = 0 THEN [filter |-> f, output |-> <<x>>]
            ELSE Pushed(stages[k], through[k - 1], k)
    IN  through[Len(stages)]

\* What the filter before the wide band discriminator returns is stored in
\* the 8 bits it came from.
PreDemodulated(f, x) ==
    LET r == FirFilter(PreDemodFilter, f, x)
    IN  [filter |-> r.filter, output |-> <<((r.output[1] + 128) % 256) - 128>>]
----------------------------------------------------------------------------
(* The detectors.  What they return is 16 bits wide.                        *)

Larger(x, y) == IF x > y THEN x ELSE y
Smaller(x, y) == IF x > y THEN y ELSE x

\* x / y as a conversion from float to a whole number leaves it.
Quotient(x, y) == IF x < 0 THEN -((-x) \div y) ELSE x \div y

\* Gains are in tenths of the one a demodulator is made with: 300 in the AM
\* and SSB demodulators, the sampling rate by the radian in the others.
nominalGain == 10
Amplified(gain, y) == ToInt16(Quotient(30 * gain * y, 100))

setDemodulatorGain(f, gain) == [f EXCEPT !.gain = gain]

\* The estimated magnitude, less its mean.
AmDemodulate(f, iq) ==
    LET magnitude == Larger(Abs(iq[1]), Abs(iq[2])) + (Smaller(Abs(iq[1]), Abs(iq[2])) \div 2)
        r == IirFilter(DcRemoval, f.dc, 100 * magnitude)
    IN  [filter |-> [f EXCEPT !.dc = r.filter],
         output |-> <<Amplified(f.gain, r.output[1])>>]

\* The in-phase part, delayed, less or plus the quadrature part, turned.
SsbDemodulate(lsbDemodulationMode, f, iq) ==
    LET i == FirFilter(DelayLine, f.delayLine, iq[1])
        q == FirFilter(PhaseShifter, f.phaseShifter, iq[2])
        both == IF lsbDemodulationMode THEN i.output[1] - q.output[1]
                ELSE i.output[1] + q.output[1]
        r == IirFilter(DcRemoval, f.dc, 100 * both)
    IN  [filter |-> [f EXCEPT !.delayLine = i.filter, !.phaseShifter = q.filter, !.dc = r.filter],
         output |-> <<Amplified(f.gain, r.output[1])>>]

\* The angle of at most half a turn that delta comes to.
Wrapped(delta, turn) == IF 2 * delta > turn THEN delta - turn
                        ELSE IF 2 * delta < -turn THEN delta + turn ELSE delta

\* demodulatorResearch: 64000 / turn.
ResearchFmScaled(gain, delta) == delta * 10 * gain

\* radioDiags: the same, and 15000 Hz are the full scale.
FmScaled(program, gain, delta) ==
    IF program = "radioDiags" THEN Quotient(delta * gain * 32767, 1500)
    ELSE ResearchFmScaled(gain, delta)

FmDemodulate(program, f, theta) ==
    LET r == FirFilter(Differentiator, f.differentiator, theta)
    IN  [filter |-> [f EXCEPT !.differentiator = r.filter],
         output |-> <<ToInt16(FmScaled(program, f.gain, Wrapped(r.output[1], 640)))>>]

\* demodulatorResearch: 64000 / turn at four times that rate.
ResearchWbFmScaled(gain, delta) == Quotient(delta * 10 * gain, 4)

\* radioDiags: 256000 / turn, and 75000 Hz are the full scale.
WbFmScaled(program, gain, delta) ==
    IF program = "radioDiags" THEN Quotient(delta * gain * 32767, 7500)
    ELSE ResearchWbFmScaled(gain, delta)

WbFmDemodulate(program, f, theta) ==
    LET r == IirFilter(Deemphasis, f.deemphasis,
                       WbFmScaled(program, f.gain, Wrapped(theta - f.previousTheta, 2560)))
    IN  [filter |-> [f EXCEPT !.deemphasis = r.filter, !.previousTheta = theta],
         output |-> <<ToInt16(r.output[1])>>]
----------------------------------------------------------------------------
(* The programs: radioDiags, and demod of demodulatorResearch, which has    *)
(* the same filters and detectors but for the scales above.                 *)

\* Of demod's options the lower sideband falls through to the upper one.
LsbMode(d) == d.program = "radioDiags" /\ d.option = "Lsb"

(* A new detector, by its class, and one input after another.               *)

Detector(d) ==
    CASE d.class = "Chain" -> [k \in DOMAIN d.stages |-> resetFilterState(d.stages[k])]
      [] d.class = "PreDemod" -> resetFilterState(PreDemodFilter)
      [] d.class = "Am" -> [gain |-> nominalGain, dc |-> resetFilterState(DcRemoval)]
      [] d.class = "Ssb" -> [gain |-> nominalGain, delayLine |-> resetFilterState(DelayLine),
                             phaseShifter |-> resetFilterState(PhaseShifter),
                             dc |-> resetFilterState(DcRemoval)]
      [] d.class = "Fm" -> [gain |-> nominalGain,
                            differentiator |-> resetFilterState(Differentiator)]
      [] d.class = "WbFm" -> [gain |-> nominalGain, deemphasis |-> resetFilterState(Deemphasis),
                              previousTheta |-> 0]

\* The classes with a gain.
Adjustable == {"Am", "Ssb", "Fm", "WbFm"}

\* resetDemodulator: each filter is reset but the one for the deemphasis.  The
\* gain stays as it is set.
resetDemodulator(d, f) ==
    CASE d.class = "WbFm" -> [f EXCEPT !.previousTheta = 0]
      [] d.class \in Adjustable \ {"WbFm"} -> setDemodulatorGain(Detector(d), f.gain)
      [] OTHER -> Detector(d)

Detect(d, f, x) ==
    CASE d.class = "Chain" -> Chain(d.stages, f, x)
      [] d.class = "PreDemod" -> PreDemodulated(f, x)
      [] d.class = "Am" -> AmDemodulate(f, x)
      [] d.class = "Ssb" -> SsbDemodulate(LsbMode(d), f, x)
      [] d.class = "Fm" -> FmDemodulate(d.program, f, x)
      [] d.class = "WbFm" -> WbFmDemodulate(d.program, f, x)
=============================================================================
