-------------------------------- MODULE E4k --------------------------------
(***************************************************************************)
(* The Elonics E4000 tuner as its driver sees it                            *)
(* (src/radioDiags/src/tuner_e4k.c).  A tuner t is a record of the fields   *)
(* of the chip's registers, with the driver's own t.flo.  Frequencies are   *)
(* in kHz, gains in tenths of a dB except for the IF stages (dB).           *)
(* Most writes are not looked at: what the driver tests is the PLL's lock.  *)
(***************************************************************************)
EXTENDS Integers, Sequences, SequencesExt, FiniteSetsExt

Fosc == 28800

e4k_regs == [awake |-> TRUE, r |-> 2, synth7 |-> 0, z |-> 0, x |-> 0, corr |-> 0, flo |-> 0,
             band |-> "VHF2", bias |-> 3, rfFilter |-> 0, mix |-> 16, rc |-> 16, chan |-> 32,
             lna |-> 0, mixer |-> 4, manual |-> FALSE, stages |-> <<2, 1, 1, 1, 3, 3>>,
             ok |-> TRUE]

\* A masked write that the bus loses leaves the field as it was.
e4k_reg_set_mask(t, field, val, bad) ==
    [t EXCEPT ![field] = IF field \in bad THEN @ ELSE val, !.ok = field \notin bad]
----------------------------------------------------------------------------
(* Filters.                                                                 *)

rf_filt_center_uhf == <<360, 380, 405, 425, 450, 475, 505, 540,
                        575, 615, 670, 720, 760, 840, 890, 970>>
rf_filt_center_l == <<1300, 1320, 1360, 1410, 1445, 1460, 1490, 1530,
                      1560, 1590, 1640, 1660, 1680, 1700, 1720, 1750>>
mix_filter_bw == [i \in 1..8 |-> 27000]
                 \o <<4600, 4200, 3800, 3400, 3300, 2700, 2300, 1900>>
ifrc_filter_bw == <<21400, 21000, 17600, 14700, 12400, 10600, 9000, 7700,
                    6400, 5300, 4400, 3400, 2600, 1800, 1200, 1000>>
ifch_filter_bw == <<5500, 5300, 5000, 4800, 4600, 4400, 4300, 4100, 3900, 3800, 3700, 3600,
                    3400, 3300, 3200, 3100, 3000, 2950, 2900, 2800, 2750, 2700, 2600, 2550,
                    2500, 2450, 2400, 2300, 2280, 2240, 2200, 2150>>

Distance(a, b) == IF a > b THEN a - b ELSE b - a

\* The first of the closest.
closest_arr_idx(arr, value) ==
    SelectInSeq(arr, LAMBDA a : \A i \in DOMAIN arr : Distance(a, value) <= Distance(arr[i], value))

choose_rf_filter(band, khz) ==
    CASE band = "UHF" -> closest_arr_idx([i \in 1..16 |-> 1000 * rf_filt_center_uhf[i]], khz) - 1
      [] band = "L"   -> closest_arr_idx([i \in 1..16 |-> 1000 * rf_filt_center_l[i]], khz) - 1
      [] OTHER -> 0

e4k_rf_filter_set(t, bad) ==
    e4k_reg_set_mask(t, "rfFilter", choose_rf_filter(t.band, t.flo), bad)

find_if_bw(filter, bw) ==
    closest_arr_idx(CASE filter = "mix" -> mix_filter_bw [] filter = "rc" -> ifrc_filter_bw
                      [] filter = "chan" -> ifch_filter_bw, bw)

e4k_if_filter_bw_set(t, filter, bw, bad) ==
    e4k_reg_set_mask(t, filter, find_if_bw(filter, bw), bad)
----------------------------------------------------------------------------
(* Tuning.                                                                  *)

pll_vars == << <<72400, 15, 48>>, <<81200, 14, 40>>, <<108300, 13, 32>>, <<162500, 12, 24>>,
               <<216600, 11, 16>>, <<325000, 10, 12>>, <<350000, 9, 8>>, <<432000, 3, 8>>,
               <<667000, 2, 6>>, <<1200000, 1, 4>> >>

\* -EINVAL as an unsigned number of 32 bits, in kHz.
Einval == 4294967

compute_flo(z, x, r) == IF z = 0 /\ x = 0 THEN Einval
                        ELSE (Fosc * z + (Fosc * x) \div 65536) \div r

e4k_compute_pll_params(khz) ==
    LET i == SelectInSeq(pll_vars, LAMBDA row : khz < row[1])
        r == IF i = 0 THEN 2 ELSE pll_vars[i][3]
        z == (khz * r) \div Fosc
        x == ((khz * r - Fosc * z) * 65536) \div Fosc
    IN  [r |-> r, synth7 |-> IF i = 0 THEN 0 ELSE pll_vars[i][2], z |-> z, x |-> x,
         flo |-> compute_flo(z, x, r)]

BandOf(khz) == IF khz < 140000 THEN "VHF2" ELSE IF khz < 350000 THEN "VHF3"
               ELSE IF khz < 1135000 THEN "UHF" ELSE "L"

\* The field is cleared first; the driver notes the band only when the
\* register has taken it.
e4k_band_set(t, band, bad) ==
    LET u == [t EXCEPT !.bias = IF band = "L" THEN 0 ELSE 3]
    IN  e4k_reg_set_mask(u, "band", band, bad)

e4k_tune_params(t, p, corr, bad) ==
    LET u == [t EXCEPT !.flo = p.flo]
        v == IF "pll" \in bad THEN u
             ELSE [u EXCEPT !.r = p.r, !.synth7 = p.synth7, !.z = p.z, !.x = p.x, !.corr = corr]
    IN  e4k_rf_filter_set(e4k_band_set(v, BandOf(p.flo), bad), bad)

\* The VCO runs from 2.6 (less a tolerance) to 3.9 GHz, and outside that the
\* PLL does not lock; here, unlike with the R820T, that is an error.
Locks(p, bad) == p.z # 0 /\ p.flo * p.r \in 2590000..3900000 /\ bad \cap {"lock", "pll"} = {}

\* A frequency of 0 gets as far as the PLL, too: the error code of the
\* computation is taken for a frequency.
e4k_tune_freq(t, khz, corr, bad) ==
    LET p == e4k_compute_pll_params(khz)
    IN  [e4k_tune_params(t, p, corr, bad) EXCEPT !.ok = Locks(p, bad)]
----------------------------------------------------------------------------
(* Gain.                                                                    *)

lnagain == << <<-50, 0>>, <<-25, 1>>, <<0, 4>>, <<25, 5>>, <<50, 6>>, <<75, 7>>, <<100, 8>>,
              <<125, 9>>, <<150, 10>>, <<175, 11>>, <<200, 12>>, <<250, 13>>, <<300, 14>> >>

\* A gain the table does not have is refused.
e4k_set_lna_gain(t, gain, bad) ==
    LET i == SelectInSeq(lnagain, LAMBDA row : row[1] = gain)
    IN  IF i = 0 THEN [t EXCEPT !.ok = FALSE]
        ELSE [e4k_reg_set_mask(t, "lna", lnagain[i][2], bad) EXCEPT !.ok = TRUE]

e4k_mixer_gain_set(t, gain, bad) == e4k_reg_set_mask(t, "mixer", gain, bad)

e4k_enable_manual_gain(t, manual, bad) ==
    [e4k_reg_set_mask(t, "manual", manual, bad) EXCEPT !.ok = TRUE]

\* There are six stages, numbered from 1.
if_stage_gain == << <<-3, 6>>, <<0, 3, 6, 9>>, <<0, 3, 6, 9>>, <<0, 1, 2, 2>>,
                    <<3, 6, 9, 12, 15, 15, 15, 15>>, <<3, 6, 9, 12, 15, 15, 15, 15>> >>

find_stage_gain(stage, gain) ==
    IF stage \notin DOMAIN if_stage_gain THEN 0
    ELSE SelectInSeq(if_stage_gain[stage], LAMBDA g : g = gain)

e4k_if_gain_set(t, stage, gain, bad) ==
    LET i == find_stage_gain(stage, gain)
    IN  IF i = 0 THEN [t EXCEPT !.ok = FALSE]
        ELSE [t EXCEPT !.stages[stage] = IF "stages" \in bad THEN @ ELSE i,
                       !.ok = "stages" \notin bad]
----------------------------------------------------------------------------
e4k_standby(t, bad) == [e4k_reg_set_mask(t, "awake", FALSE, bad) EXCEPT !.ok = TRUE]

\* Reset, automatic gain, moderate IF gains, the narrowest filters; nothing
\* of it is tested.
e4k_init(t, bad) ==
    [f \in DOMAIN e4k_regs |-> IF f \in bad THEN t[f] ELSE e4k_regs[f]]
=============================================================================
