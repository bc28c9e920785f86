------------------------------ MODULE MCProgram ------------------------------
(***************************************************************************)
(* A small instance of Program for TLC: a sweep over two frequencies, one   *)
(* without frequencies, one refused, and one whose upper frequency and      *)
(* dwell time wrap.                                                         *)
(***************************************************************************)
EXTENDS Program

Sweep(frequency, stepSize, count, dwellTime) ==
    [frequency |-> frequency, stepSize |-> stepSize, count |-> count, dwellTime |-> dwellTime]

MCSweeps == {Sweep(24, 100, 2, 1), Sweep(1700, 0, 0, 0), Sweep(1701, 1, 2, 1),
             Sweep(24, 2036, 2, 4)}
=============================================================================
