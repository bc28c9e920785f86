-------------------------- MODULE FrequencySweeper --------------------------
(***************************************************************************)
(* FrequencySweeper: a thread that tunes the radio to one frequency after   *)
(* the other, for ever, until its destructor tells it to exit.              *)
(*                                                                          *)
(* The object is a record: its attributes, the variables i and outcome of   *)
(* its thread and pc, the place in sweepProcedure the thread is at.          *)
(* Frequencies are in MHz.                                                  *)
(***************************************************************************)
EXTENDS Integers

CONSTANTS Word64, Word32   \* what uint64_t and uint32_t wrap at

ASSUME WordAssumption == Word64 \in Nat \ {0} /\ Word32 \in Nat \ {0}

VARIABLES sweeper,         \* the object diagUi_frequencySweeperPtr points at
          receiveFrequency \* what Radio was tuned to last

NoSweeper == [start |-> 0, increment |-> 0, count |-> 0, dwell |-> 0,
              timeToExit |-> FALSE, i |-> 0, outcome |-> TRUE, pc |-> "none"]

Exists == sweeper.pc # "none"
Running == sweeper.pc \notin {"none", "ended"}

\* The constructor; the dwell time, in milliseconds, is converted by the thread.
NewSweeper(start, increment, count, dwell) ==
    [start |-> start, increment |-> increment, count |-> count,
     dwell |-> (1000 * dwell) % Word32, timeToExit |-> FALSE, i |-> 0, outcome |-> TRUE,
     pc |-> "first"]

\* The destructor's first half; the second is to wait for the thread.
ToldToExit == [sweeper EXCEPT !.timeToExit = TRUE]
----------------------------------------------------------------------------
(* sweepProcedure.                                                          *)

\* The offset is computed as a double, exact up to 2^53 and converted; the sum
\* wraps.
Frequency(i) == (sweeper.start + (i * sweeper.increment)) % Word64

\* Radio::setReceiveFrequency: a frequency the driver refuses, out of the tuner's
\* reach or because a transfer failed, leaves the radio where it is.
setReceiveFrequency(f, success) ==
    receiveFrequency' = IF success THEN f ELSE receiveFrequency

SelectFirst ==
    /\ sweeper.pc = "first"
    /\ \E success \in BOOLEAN :
         /\ setReceiveFrequency(sweeper.start, success)
         /\ sweeper' = [sweeper EXCEPT !.outcome = success, !.pc = "while"]

BeginSweep ==
    /\ sweeper.pc = "while" /\ ~sweeper.timeToExit
    /\ sweeper' = [sweeper EXCEPT !.pc = "for", !.i = 0, !.outcome = TRUE]
    /\ UNCHANGED receiveFrequency

\* timeToExit is an unprotected variable.  A sweep without frequencies is a
\* loop without effect, which an optimising compiler may leave out: then the
\* thread ends without being told to (g++ -O3 does so, -O0 does not).
EndSweeping ==
    /\ sweeper.pc = "while" /\ (sweeper.timeToExit \/ sweeper.count = 0)
    /\ sweeper' = [sweeper EXCEPT !.pc = "ended"]
    /\ UNCHANGED receiveFrequency

\* Faulty variant: the last frequency is left out.
MoreButOne == sweeper.i + 1 < sweeper.count

\* Faulty variant: one frequency too many.
MoreByOne == sweeper.i <= sweeper.count

More == sweeper.i < sweeper.count

NextFrequency ==
    /\ sweeper.pc = "for"
    /\ sweeper' = [sweeper EXCEPT !.pc = IF More /\ ~sweeper.timeToExit THEN "tune" ELSE "while",
                                 !.outcome = TRUE]  \* not looked at
    /\ UNCHANGED receiveFrequency

Tune ==
    /\ sweeper.pc = "tune"
    /\ \E success \in BOOLEAN :
         /\ setReceiveFrequency(Frequency(sweeper.i), success)
         /\ sweeper' = [sweeper EXCEPT !.i = @ + 1, !.outcome = success,
                                       !.pc = IF sweeper.dwell = 0 THEN "for" ELSE "dwell"]

Dwell ==
    /\ sweeper.pc = "dwell"
    /\ sweeper' = [sweeper EXCEPT !.pc = "for"]
    /\ UNCHANGED receiveFrequency

sweepProcedure == SelectFirst \/ BeginSweep \/ EndSweeping \/ NextFrequency \/ Tune \/ Dwell
=============================================================================
