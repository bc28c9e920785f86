----------------------- MODULE MCAutomaticGainControl -----------------------
(* AutomaticGainControl with the amplifier of the R820T: its steps, summed up *)
(* until they reach the gain asked for (src/radioDiags/src/tuner_r82xx.c).    *)
EXTENDS AutomaticGainControl

Sums == <<26, 52, 82, 124, 159, 183, 196, 210, 242, 278, 312, 347, 384, 419, 455>>

MCVgaGain == [g \in Gains |->
  IF g * 10 > Sums[15] THEN Sums[15]
  ELSE CHOOSE s \in {Sums[i] : i \in 1 .. 15} :
         s >= g * 10 /\ \A i \in 1 .. 15 : Sums[i] >= g * 10 => s <= Sums[i]]

\* Levels the amplifier brings to the operating point, one between its widest
\* steps, one it cannot reach and one too strong for it.
MCLevels == {-430, -224, -700, -50}
MCDeadbands == {0, 2}
MCBlankingLimits == {0, 2}
MCOperatingPoints == {-20}
MCInitialOperatingPoint == -12
MCAlphas == {1}
MCUserGains == {10, 46}
=============================================================================
