------------------------------ MODULE Filters ------------------------------
(***************************************************************************)
(* The filters of the demodulators (src/radioDiags/Filters): FirFilter,      *)
(* IirFilter, Decimator and Interpolator, and FirFilter_int16,              *)
(* Decimator_int16 and Interpolator_int16, which work in 16 bits.  A method *)
(* is an operator that returns the object as it leaves it and what it hands *)
(* back.                                                                    *)
(*                                                                          *)
(* A design holds the arguments of a constructor: the class, the            *)
(* feed-forward coefficients h, the feedback coefficients a, the factor of  *)
(* a Decimator or an Interpolator.  The coefficients of the 16-bit classes  *)
(* are in ten-millionths, the last digit the source gives.  Samples and     *)
(* coefficients of the float classes are whole numbers, for which float     *)
(* arithmetic is exact; those of an IirFilter are in units of 1/scale.      *)
(***************************************************************************)
EXTENDS Integers, Sequences

Classes == {"FirFilter", "FirFilter_int16", "IirFilter", "Decimator", "Decimator_int16",
            "Interpolator", "Interpolator_int16"}
Fixed(class) == class \in {"FirFilter_int16", "Decimator_int16", "Interpolator_int16"}
Interpolates(class) == class \in {"Interpolator", "Interpolator_int16"}
Decimates(class) == class \in {"Decimator", "Decimator_int16"}

Design(class, h, a, factor) ==
    [class |-> class, h |-> h, a |-> a, factor |-> factor, scale |-> 1]

Int16 == -32768..32767
Abs(i) == IF i < 0 THEN -i ELSE i

\* A conversion to int16_t keeps the low 16 bits.
ToInt16(x) == ((x + 32768) % 65536) - 32768
----------------------------------------------------------------------------
(* The ring every filter keeps its past in.                                 *)

resetRing(n) == [cell |-> [i \in 0..n - 1 |-> 0], index |-> 0]

Advanced(index, n) == IF index + 1 = n THEN 0 ELSE index + 1
Store(ring, x) == [ring EXCEPT !.cell[ring.index] = x]
advancePipeline(ring, n) == [ring EXCEPT !.index = Advanced(@, n)]
shiftSampleIn(ring, x, n) == advancePipeline(Store(ring, x), n)

\* Faulty variant: the walk back through the ring does not wrap.
BackWithoutWrap(ring, k, n) == ring.cell[IF k > ring.index THEN 0 ELSE ring.index - k]

\* The cell k steps before the index; k < n.
Back(ring, k, n) == ring.cell[(ring.index - k) % n]
----------------------------------------------------------------------------
(* The convolution sum, in float and in 16 bits.                            *)

Convolved(h, ring) ==
    LET n == Len(h)
        y[k \in 0..n] == IF k = 0 THEN 0 ELSE y[k - 1] + h[k] * Back(ring, k - 1, n)
    IN  y[n]

Top == 1073741823          \* 0x3fffffff
Bottom == -1073741824      \* -0x40000000
Clip(accumulator) == IF accumulator > Top THEN Top
                     ELSE IF accumulator < Bottom THEN Bottom ELSE accumulator

\* Starts from the rounding constant, saturates after every tap and goes from
\* Q30 to Q15.
ConvolvedInt16(h, ring) ==
    LET n == Len(h)
        y[k \in 0..n] == IF k = 0 THEN 16384 ELSE Clip(y[k - 1] + h[k] * Back(ring, k - 1, n))
    IN  y[n] \div 32768

\* |c| * 32768, c in ten-millionths, rounded half away from zero.
Rounded(c) ==
    (256 * (Abs(c) \div 78125)) + (((512 * (Abs(c) % 78125)) + 78125) \div 156250)

\* Faulty variant: a coefficient of 1 becomes the largest fraction.
ScaledAndSaturated(c) ==
    IF c < 0 THEN -Rounded(c) ELSE IF Rounded(c) > 32767 THEN 32767 ELSE Rounded(c)

\* A coefficient as a 16-bit fraction.  The value 1 does not fit: it becomes -1.
Scaled(c) == ToInt16(IF c < 0 THEN -Rounded(c) ELSE Rounded(c))

\* What the constructors keep of the coefficients.
Coefficients(d) == IF Fixed(d.class) THEN [k \in DOMAIN d.h |-> Scaled(d.h[k])] ELSE d.h

\* Subfilter i has the taps i, i + L, i + 2L...
createPolyphaseCoefficients(h, factor) ==
    LET q == Len(h) \div factor
    IN  [i \in 0..factor - 1 |-> [j \in 1..q |-> h[i + ((j - 1) * factor) + 1]]]
----------------------------------------------------------------------------
(* The classes.  A method returns the object and what it hands back.        *)

\* The pipeline of an interpolator is as long as one subfilter.
RingLength(d) == IF Interpolates(d.class) THEN Len(d.h) \div d.factor ELSE Len(d.h)

resetFilterState(d) ==
    [ring |-> resetRing(RingLength(d)), past |-> resetRing(Len(d.a)),
     buffer |-> [i \in 0..d.factor - 1 |-> 0], bufferIndex |-> 0]

Sum(d, h, ring) == IF Fixed(d.class) THEN ConvolvedInt16(h, ring) ELSE Convolved(h, ring)

filterData(d, ring, x) ==
    LET stored == Store(ring, x)
    IN  [ring |-> advancePipeline(stored, Len(d.h)), y |-> Sum(d, Coefficients(d), stored)]

FirFilter(d, f, x) ==
    LET r == filterData(d, f.ring, x)
    IN  [filter |-> [f EXCEPT !.ring = r.ring], output |-> <<r.y>>]

\* The feedback sum starts at the ring's index, which is the oldest output:
\* with one coefficient that is the last.
filterRecursive(d, f) == Convolved(d.a, f.past)

IirFilter(d, f, x) ==
    LET r == filterData(d, f.ring, x)
        y == (r.y - filterRecursive(d, f)) \div d.scale
    IN  [filter |-> [f EXCEPT !.ring = r.ring, !.past = shiftSampleIn(@, y, Len(d.a))],
         output |-> <<y>>]

\* The samples are kept until there are enough of them; then all but the last
\* are shifted in, and the last is filtered.
decimate(d, f, x) ==
    LET stored == [f EXCEPT !.buffer[f.bufferIndex] = x, !.bufferIndex = @ + 1]
        ring[i \in 0..d.factor - 1] ==
            IF i = 0 THEN f.ring ELSE shiftSampleIn(ring[i - 1], stored.buffer[i - 1], Len(d.h))
        r == filterData(d, ring[d.factor - 1], stored.buffer[d.factor - 1])
    IN  IF stored.bufferIndex # d.factor THEN [filter |-> stored, output |-> <<>>]
        ELSE [filter |-> [stored EXCEPT !.ring = r.ring, !.bufferIndex = 0], output |-> <<r.y>>]

\* One output per subfilter, all from the same pipeline.
interpolate(d, f, x) ==
    LET stored == Store(f.ring, x)
        p == createPolyphaseCoefficients(Coefficients(d), d.factor)
    IN  [filter |-> [f EXCEPT !.ring = advancePipeline(stored, RingLength(d))],
         output |-> [i \in 1..d.factor |-> Sum(d, p[i - 1], stored)]]
=============================================================================
