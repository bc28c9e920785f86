----------------------------- MODULE FilterBench -----------------------------
(***************************************************************************)
(* The filters and detectors at work: one object, driven one sample after   *)
(* another, and reset at any time.  A filter (Designs) is fed any samples,  *)
(* a chain or a detector (Receptions) a steady signal, as long as it takes  *)
(* to settle.                                                               *)
(***************************************************************************)
EXTENDS Detectors

CONSTANTS Designs,         \* of filters: the arguments of a constructor
          Samples,         \* what they are fed
          MaxFed,          \* bound: samples between two resets
          Gains,           \* what the commands set, in tenths of the nominal gain
          Receptions       \* [class, signal, settled, duration, ...]: a detector and its signal

ASSUME FiltersAssumption ==
    /\ \A d \in Designs :
         /\ d.class \in Classes /\ d.factor \in Nat \ {0} /\ d.scale = 1
         /\ d.h \in Seq(Int) /\ Len(d.h) > 0
         /\ d.a \in Seq(Int) /\ d.class = "IirFilter" <=> Len(d.a) > 0
         /\ Interpolates(d.class) => Len(d.h) % d.factor = 0
         /\ Fixed(d.class) => \A k \in DOMAIN d.h : d.h[k] \in -10000000..9999999
    /\ Samples \subseteq Int16 /\ MaxFed \in Nat

ASSUME ReceptionsAssumption ==
    \A d \in Receptions :
      /\ d.class \in {"Chain", "PreDemod"} \cup Adjustable
      /\ Gains \subseteq Int
      /\ d.settled \in Nat /\ d.duration \in Nat

VARIABLES design,          \* the design of the object
          filter,          \* the object
          fed,             \* history: the samples since the last reset
          output           \* what the last call has returned: no sample, one or several

vars == <<design, filter, fed, output>>
----------------------------------------------------------------------------
Process(d, f, x) ==
    CASE d.class \in {"FirFilter", "FirFilter_int16"} -> FirFilter(d, f, x)
      [] d.class = "IirFilter" -> IirFilter(d, f, x)
      [] Decimates(d.class) -> decimate(d, f, x)
      [] Interpolates(d.class) -> interpolate(d, f, x)

\* A turned by n quarters.
Quarters(a, n) == CASE n % 4 = 0 -> <<a, 0>> [] n % 4 = 1 -> <<0, a>>
                    [] n % 4 = 2 -> <<-a, 0>> [] n % 4 = 3 -> <<0, -a>>

\* The angle n * d, from -turn/2 on.
Angle(d, n, turn) == (((n * d) + (turn \div 2)) % turn) - (turn \div 2)

\* A carrier, modulated with a quarter of the rate; a tone a quarter of the
\* rate above or below it; a carrier deviated by so much.
Signal(d, n) ==
    CASE d.class \in {"Chain", "PreDemod"} -> d.signal
      [] d.class = "Am" -> <<d.signal + Quarters(d.depth, n)[1], 0>>
      [] d.class = "Ssb" -> Quarters(d.signal, IF d.upper THEN n ELSE -n)
      [] d.class = "Fm" -> Angle(d.signal, n, 640)
      [] d.class = "WbFm" -> Angle(d.signal, n, 2560)
----------------------------------------------------------------------------
Init == /\ \/ design \in Designs /\ filter = resetFilterState(design)
           \/ design \in Receptions /\ filter = Detector(design)
        /\ fed = <<>> /\ output = <<>>

feed == /\ design \in Designs /\ Len(fed) < MaxFed
        /\ \E x \in Samples :
             LET r == Process(design, filter, x)
             IN  filter' = r.filter /\ output' = r.output /\ fed' = Append(fed, x)
        /\ UNCHANGED design

reset == /\ filter' = IF design \in Designs THEN resetFilterState(design)
                     ELSE resetDemodulator(design, filter)
         /\ fed' = <<>> /\ output' = <<>>
         /\ UNCHANGED design

receive == /\ design \in Receptions /\ Len(fed) < design.duration
           /\ LET x == Signal(design, Len(fed) + 1)
                  r == Detect(design, filter, x)
              IN  filter' = r.filter /\ output' = r.output /\ fed' = Append(fed, x)
           /\ UNCHANGED design

\* "set amdemodgain", "set fmdemodgain"...: any gain that is not negative
\* (bound: once, after the first sample).
Adjust(class) ==
    /\ design \in Receptions /\ design.class = class
    /\ Len(fed) = 1 /\ filter.gain = nominalGain
    /\ \E gain \in Gains :
         /\ gain >= 0
         /\ filter' = setDemodulatorGain(filter, gain)
    /\ UNCHANGED <<design, fed, output>>

cmdSetAmDemodGain == Adjust("Am")
cmdSetFmDemodGain == Adjust("Fm")
cmdSetWbFmDemodGain == Adjust("WbFm")
cmdSetSsbDemodGain == Adjust("Ssb")

Next == \/ feed \/ reset \/ receive
        \/ cmdSetAmDemodGain \/ cmdSetFmDemodGain \/ cmdSetWbFmDemodGain \/ cmdSetSsbDemodGain

Spec == Init /\ [][Next]_vars
----------------------------------------------------------------------------
(* Properties.                                                              *)

RingOK(ring, n) == ring.index \in 0..n - 1 /\ DOMAIN ring.cell = 0..n - 1

FilterOK ==
    /\ design.class \in Classes
    /\ RingOK(filter.ring, RingLength(design))
    /\ design.class = "IirFilter" => RingOK(filter.past, Len(design.a))
    /\ filter.bufferIndex \in 0..design.factor - 1

\* Sample n of the history; there was silence before the reset.
Sample(n) == IF n \in 1..Len(fed) THEN fed[n] ELSE 0

\* The sum of h[k] * in[k] as it is written in a textbook.
InnerProduct(h, in(_)) ==
    LET s[k \in 0..Len(h)] == IF k = 0 THEN 0 ELSE s[k - 1] + h[k] * in(k) IN s[Len(h)]

\* Whether a partial sum could have been clipped, to a quarter of a unit.
Loud(h, in(_)) == InnerProduct([k \in DOMAIN h |-> Abs(Scaled(h[k]))],
                               LAMBDA k : (Abs(in(k)) \div 4) + 1) >= 268000000

\* Coefficients in 1/65536.
Fine(h) == [k \in DOMAIN h |-> (512 * (h[k] \div 78125)) + ((512 * (h[k] % 78125)) \div 78125)]

\* y is the sum of the h[k] * in[k]: exactly in float, in 16 bits up to the
\* rounding of the result and of each coefficient, as long as nothing clips.
IsSum(class, y, h, in(_)) ==
    IF ~Fixed(class) THEN y = InnerProduct(h, in)
    ELSE ~Loud(h, in) =>
           Abs((65536 * y) - InnerProduct(Fine(h), in))
             <= 32768 + InnerProduct([k \in DOMAIN h |-> 2], LAMBDA k : Abs(in(k)))

\* A FIR filter convolves the samples since the last reset with its
\* coefficients, wherever its ring has wrapped; a decimator does so at every
\* M-th sample, and says at no other that it has one.
OutputConvolves ==
    LET n == Len(fed)
        due == n > 0 /\ (Decimates(design.class) => n % design.factor = 0)
    IN  design.class # "IirFilter" /\ ~Interpolates(design.class) =>
          /\ Len(output) = IF due THEN 1 ELSE 0
          /\ due => IsSum(design.class, output[1], design.h, LAMBDA k : Sample(n - k + 1))

\* An IIR filter with one feedback coefficient solves its difference
\* equation y(n) = h(0) x(n) + h(1) x(n-1) + ... - a y(n-1); an interpolator
\* filters the samples with L - 1 zeros put between them.
OutputRecursesOrInterpolates ==
    LET n == Len(fed)
        y[i \in 0..n] == IF i = 0 THEN 0
                         ELSE InnerProduct(design.h, LAMBDA k : Sample(i - k + 1))
                              - (design.a[1] * y[i - 1])
        stuffed(i) == IF (i - 1) % design.factor = 0
                      THEN Sample(1 + ((i - 1) \div design.factor)) ELSE 0
    IN  /\ Len(design.a) = 1 /\ n > 0 => output = <<y[n]>>
        /\ Interpolates(design.class) /\ n > 0 =>
             /\ Len(output) = design.factor
             /\ \A i \in 1..design.factor :
                  IsSum(design.class, output[i], design.h,
                        LAMBDA k : stuffed(((n - 1) * design.factor) + i - k + 1))

\* What a filter returns is what its definition says of the samples since the
\* last reset, wherever rings, commutator and polyphase table stand, and every
\* index stays in its array (the filterData, decimate and interpolate
\* functions of the filter classes).
OutputMatchesDefinition ==
    design \in Designs => FilterOK /\ OutputConvolves /\ OutputRecursesOrInterpolates

\* The number a has to be, with a share of it and a constant as tolerance.
Near(x, a, share, constant) == Abs(x - a) <= (Abs(a) \div share) + constant

\* A settled detector returns its signal: the chains of decimators keep the
\* level within a quarter; the AM detector drops the carrier and keeps its
\* modulation; the SSB detector hears the sideband its mode names and is deaf
\* for the other (but for the lower one in demod); the wide band discriminator
\* returns the deviation, wherever the angle crosses the branch cut; and all
\* by the gain last set, which is never negative and outlives a reset
\* (AmDemodulator.cc:434, WbFmDemodulator.cc:436, SsbDemodulator.cc:563).
\* Nothing is claimed of what the narrow band discriminator returns: two of
\* its six taps are left and its scale is not the one its comments give
\* (FmDemodulator.cc:437-471).
DetectorsFollowSignal ==
    LET n == Len(fed)
        d == design
        gain == filter.gain
        modulation == fed[n][1] - d.signal
        inPhase == Sample(n - 15)[1]
    IN  d \in Receptions /\ n >= d.settled /\ output # <<>> =>
        /\ d.class \in Adjustable => gain >= 0
        /\ CASE d.class \in {"Chain", "PreDemod"} -> Near(output[1], d.signal, 4, 1)
             [] d.class = "Am" -> Near(output[1], 30 * gain * modulation, 10, 120 * gain)
             [] d.class = "Ssb" ->
                  d.program = "radioDiags" \/ d.option = "Usb" =>
                    Near(Abs(output[1]), IF d.upper = (d.option = "Usb")
                                         THEN 60 * gain * Abs(inPhase) ELSE 0,
                         10, 120 * gain)
             [] d.class = "WbFm" -> Near(output[1], WbFmScaled(d.program, gain, d.signal), 1000, 25)
             [] d.class = "Fm" -> TRUE
=============================================================================
