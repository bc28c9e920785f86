---------------------------- MODULE MCSignalPath ----------------------------
(***************************************************************************)
(* A small instance of SignalPath for TLC: a weak tone and one twice as     *)
(* loud, without gain and with one at which the loud one overdrives the     *)
(* ADC; thresholds between the two and below both, one that is refused, and *)
(* a mode that is; a full block, a short one that leaves the decimators and *)
(* the mixer within a group, and a failed read.                             *)
(***************************************************************************)
EXTENDS SignalPath

MCAmplitudes == {1, 2}
MCGains == {0, 40}
MCThresholds == {-40, 11}
MCModes == {0, 1, 3, 4, 5, 6}
MCSizes == {0, 44, 32768}
=============================================================================
