------------------------------ MODULE MCRadio ------------------------------
(* Radio with two tuners (data consumer thread, frequency sweeper).         *)
EXTENDS Radio

CONSTANTS t1, t2

MCTuners == {t1, t2}
OneTuner == {t1}
MCReadSizes == {0, 2}
=============================================================================
