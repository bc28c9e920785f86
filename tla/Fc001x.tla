------------------------------ MODULE Fc001x -------------------------------
(***************************************************************************)
(* The Fitipower tuners FC0012 and FC0013 as their drivers see them         *)
(* (src/radioDiags/src/tuner_fc0012.c and tuner_fc0013.c).                  *)
(*                                                                          *)
(* The drivers keep no state: a tuner t is what is in the chip's registers. *)
(* Frequencies are in kHz, gains in tenths of a dB.  `bad' names the groups *)
(* of registers whose accesses the bus loses in the handler at hand; "vco": *)
(* the calibration finds the oscillator at the end of its range.            *)
(***************************************************************************)
EXTENDS Integers, Sequences, SequencesExt

HalfXtal == 14400          \* half the 28.8 MHz crystal
Word32 == 4294967          \* f_vco is a product of 32 bits, in Hz

fc0012_regs == [multi |-> 0, am |-> 5, pm |-> 16, xin |-> 0, fast |-> FALSE, corr |-> 0,
                lna |-> 8, ok |-> TRUE]
fc0013_regs == [multi |-> 0, am |-> 9, pm |-> 22, xin |-> 0, fast |-> FALSE, corr |-> 0,
                lna |-> 16, track |-> 0, vhf |-> FALSE, uhf |-> TRUE, manual |-> FALSE,
                gain |-> 0, ok |-> TRUE]

\* Registers are written in turn; the first that fails ends the initialisation.
fc0012_init(t, bad) == IF bad = {} THEN fc0012_regs ELSE [t EXCEPT !.ok = FALSE]
fc0013_init(t, bad) == IF bad = {} THEN fc0013_regs ELSE [t EXCEPT !.ok = FALSE]
----------------------------------------------------------------------------
(* The PLL, which both drivers compute alike.                               *)

\* Below each frequency the factor between VCO and LO.
Multis == << <<37084, 96>>, <<55625, 64>>, <<74167, 48>>, <<111250, 32>>, <<148334, 24>>,
             <<222500, 16>>, <<296667, 12>>, <<445000, 8>>, <<593334, 6>> >>

MultiOf(table, above, khz) ==
    LET i == SelectInSeq(table, LAMBDA row : khz < row[1])
    IN  IF i = 0 THEN above ELSE table[i][2]

fc0012_multi(khz) == MultiOf(Multis, 4, khz)
fc0013_multi(khz) == MultiOf(Append(Multis, <<950000, 4>>), 2, khz)

Vco(khz, multi) == (khz * multi) % Word32

\* Cycles of the divider, rounded, as cycles to 8 (pm) and 9 (am); both are
\* bytes, and fewer than two cycles leave pm below zero.
Cycles(vco) == vco \div HalfXtal + (IF vco % HalfXtal >= HalfXtal \div 2 THEN 1 ELSE 0)
Combination(vco) ==
    LET borrow == Cycles(vco) % 8 < 2
        am == (Cycles(vco) % 8) + (IF borrow THEN 8 ELSE 0)
        pm == (Cycles(vco) \div 8 - (IF borrow THEN 1 ELSE 0)) % 256
    IN  IF pm > 31 THEN [am |-> (am + 8 * (pm - 31)) % 256, pm |-> 31]
                   ELSE [am |-> am, pm |-> pm]
ValidCombination(c) == c.am <= 15 /\ c.pm >= 11

\* What is left over, in 2^15ths of a cycle; above the middle it counts
\* backwards from the rounded-up number of cycles.
Xin(vco) == LET x == ((vco % HalfXtal) * 32768) \div HalfXtal
            IN  IF x >= 16384 THEN x + 32768 ELSE x

\* What the PLL makes of its registers.
LoOf(t) == LET fraction == IF t.xin >= 32768 THEN t.xin - 65536 ELSE t.xin
           IN  (HalfXtal * (t.am + 8 * t.pm) + (HalfXtal * fraction) \div 32768) \div t.multi

\* The frequencies a factor is for: the product fits 32 bits and makes two
\* cycles at least.
InReach(khz, multi) == khz * multi < Word32 /\ Cycles(khz * multi) >= 2

\* Divider, calibration, and the other oscillator if this one is at its end.
SetPll(t, khz, multi, corr, bad) ==
    LET vco == Vco(khz, multi)
        c   == Combination(vco)
    IN  IF ~ValidCombination(c) \/ "pll" \in bad THEN [t EXCEPT !.ok = FALSE]
        ELSE [t EXCEPT !.multi = multi, !.am = c.am, !.pm = c.pm, !.xin = Xin(vco),
                       !.fast = (vco >= 3060000) # ("vco" \in bad), !.corr = corr,
                       !.ok = "cal" \notin bad]

fc0012_set_params(t, khz, corr, bad) == SetPll(t, khz, fc0012_multi(khz), corr, bad)
----------------------------------------------------------------------------
(* FC0012: gain.                                                            *)

fc0012_set_gain(t, gain, bad) ==
    LET code == CASE gain = -99 -> 2 [] gain = -40 -> 0 [] gain = 71 -> 8
                  [] gain = 179 -> 23 [] OTHER -> 16
    IN  IF "gain" \in bad THEN [t EXCEPT !.ok = FALSE]
                          ELSE [t EXCEPT !.lna = code, !.ok = TRUE]
----------------------------------------------------------------------------
(* FC0013: tracking filter, band, PLL; gain and gain mode.                  *)

Tracks == <<177500, 184500, 191500, 198500, 205500, 219500, 299999>>

TrackOf(khz) == LET i == SelectInSeq(Tracks, LAMBDA limit : khz <= limit)
                IN  IF i = 0 THEN 7 ELSE 8 - i

fc0013_set_vhf_track(t, khz, bad) ==
    IF "track" \in bad THEN [t EXCEPT !.ok = FALSE]
    ELSE [t EXCEPT !.track = TrackOf(khz), !.ok = TRUE]

\* Register 0x14 holds the band beside the gain, which is kept.
SetBand(t, khz, bad) ==
    IF "filter" \in bad THEN [t EXCEPT !.ok = FALSE]
    ELSE [t EXCEPT !.vhf = khz < 300000, !.uhf = khz >= 300000, !.ok = TRUE]

fc0013_set_params(t, khz, corr, bad) ==
    LET u == fc0013_set_vhf_track(t, khz, bad)
        v == IF u.ok THEN SetBand(u, khz, bad) ELSE u
    IN  IF v.ok THEN SetPll(v, khz, fc0013_multi(khz), corr, bad) ELSE v

\* The IF gain is fixed whatever the mode.
fc0013_set_gain_mode(t, manual, bad) ==
    IF "gain" \in bad THEN [t EXCEPT !.ok = FALSE]
    ELSE [t EXCEPT !.manual = manual, !.gain = 10, !.ok = TRUE]

fc0013_lna_gains ==
    << <<-99, 2>>, <<-73, 3>>, <<-65, 5>>, <<-63, 4>>, <<-63, 0>>, <<-60, 7>>, <<-58, 1>>,
       <<-54, 6>>, <<58, 15>>, <<61, 14>>, <<63, 13>>, <<65, 12>>, <<67, 11>>, <<68, 10>>,
       <<70, 9>>, <<71, 8>>, <<179, 23>>, <<181, 22>>, <<182, 21>>, <<184, 20>>, <<186, 19>>,
       <<188, 18>>, <<191, 17>>, <<197, 16>> >>

\* The first entry that reaches the gain, or the last one.
LnaOf(gain) == LET i == SelectInSeq(fc0013_lna_gains, LAMBDA row : row[1] >= gain)
               IN  fc0013_lna_gains[IF i = 0 THEN Len(fc0013_lna_gains) ELSE i][2]

fc0013_set_lna_gain(t, gain, bad) ==
    IF "gain" \in bad THEN [t EXCEPT !.ok = FALSE]
    ELSE [t EXCEPT !.lna = LnaOf(gain), !.ok = TRUE]
=============================================================================
