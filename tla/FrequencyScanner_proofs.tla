----------------------- MODULE FrequencyScanner_proofs -----------------------
(***************************************************************************)
(* Proofs about FrequencyScanner, for any scans the command lets through.   *)
(***************************************************************************)
EXTENDS FrequencyScanner, SequenceTheorems, TLAPS

USE DEF parameters, uiVars, callbackVars, airVars, vars, UiOnly, CallbackOnly

(***************************************************************************)
(* Type correctness.                                                        *)
(***************************************************************************)

\* A tuned radio is on a frequency.
LEMMA TunedType ==
  ASSUME receiveFrequency \in Nat, NEW f \in Nat, setReceiveFrequency(f)
  PROVE  receiveFrequency' \in Nat
BY DEF setReceiveFrequency

\* The queue of blocks stays a bounded sequence of verdicts.
LEMMA BlocksType ==
  ASSUME TypeOK, squelch \/ readBlock
  PROVE  blocks' \in Seq(BOOLEAN) /\ Len(blocks') <= MaxBehind
<1>1. CASE squelch
  <2>1. blocks \in Seq(BOOLEAN) /\ blocks # <<>> /\ blocks' = Tail(blocks)
    BY <1>1 DEF squelch, TypeOK
  <2>2. Len(blocks) <= MaxBehind
    BY DEF TypeOK
  <2> HIDE DEF TypeOK
  <2>3. blocks' \in Seq(BOOLEAN) /\ Len(blocks') = Len(blocks) - 1
    BY <2>1, HeadTailProperties
  <2>4. Len(blocks) \in Nat
    BY <2>1, LenProperties
  <2> QED
    BY <2>2, <2>3, <2>4, BoundsAssumption
<1>2. CASE readBlock
  <2>1. PICK f \in {readFrequency, receiveFrequency} :
               blocks' = Append(blocks, f \in active)
    BY <1>2 DEF readBlock
  <2>2. (f \in active) \in BOOLEAN
    OBVIOUS
  <2>3. blocks \in Seq(BOOLEAN) /\ Len(blocks) < MaxBehind
    BY <1>2 DEF readBlock, TypeOK
  <2>4. blocks' \in Seq(BOOLEAN) /\ Len(blocks') = Len(blocks) + 1
    BY <2>1, <2>2, <2>3, AppendProperties
  <2>5. Len(blocks) \in Nat
    BY <2>3, LenProperties
  <2> QED
    BY <2>3, <2>4, <2>5, BoundsAssumption
<1> QED
  BY <1>1, <1>2

\* What the command makes of the scans it lets through.
LEMMA LetThrough ==
  ASSUME NEW s \in Scans, InReceiverRange(s)
  PROVE  /\ Upwards(s) \in [start : Nat, end : Nat, increment : Nat]
         /\ Upwards(s).start <= Upwards(s).end
BY ScansAssumption DEF InReceiverRange, Upwards

\* Every step keeps every variable in its type.
LEMMA TypeInductive == TypeOK /\ [Next]_vars => TypeOK'
<1> SUFFICES ASSUME TypeOK, [Next]_vars PROVE TypeOK'
  OBVIOUS
<1>a. asked.start \in Nat /\ asked.end \in Nat /\ asked.increment \in Nat
  BY DEF TypeOK
<1>1. CASE cmdSetFscanValues
  <2>1. PICK s \in Scans : InReceiverRange(s) /\ setScanParameters(Upwards(s))
    BY <1>1 DEF cmdSetFscanValues
  <2>2. /\ startFrequency' \in Nat
        /\ asked' \in [start : Nat, end : Nat, increment : Nat]
    BY <2>1, LetThrough DEF setScanParameters
  <2>3. overlap' \in BOOLEAN
    BY <2>1 DEF setScanParameters, Stepping
  <2> QED
    BY <2>1, <2>2, <2>3 DEF setScanParameters, TypeOK
<1>2. CASE setEnd \/ setIncrement
  BY <1>2, <1>a DEF setEnd, setIncrement, TypeOK
<1>3. CASE start
  BY <1>3 DEF start, TypeOK
<1>4. CASE tuneToEnd
  <2>1. receiveFrequency' \in Nat
    BY <1>4, TunedType DEF tuneToEnd, TypeOK
  <2> QED
    BY <1>4, <2>1 DEF tuneToEnd, TypeOK
<1>5. CASE scan \/ notify \/ stop \/ ignore
  BY <1>5 DEF scan, notify, stop, ignore, TypeOK
<1>6. CASE cmdSetRxFrequency
  <2>1. PICK f \in HandTuned : setRxFrequency(f)
    BY <1>6 DEF cmdSetRxFrequency
  <2>2. receiveFrequency' \in Nat
    BY <2>1, TunedType, FrequenciesAssumption DEF setRxFrequency, TypeOK
  <2> QED
    BY <2>1, <2>2 DEF setRxFrequency, TypeOK
<1>7. CASE squelch
  <2>1. Head(blocks) \in BOOLEAN
    BY <1>7, HeadTailProperties DEF squelch, TypeOK
  <2>2. signalAllowed' \in BOOLEAN /\ signalState' \in {"NoSignal", "Tracking"}
    BY <1>7, <2>1 DEF squelch
  <2>3. blocks' \in Seq(BOOLEAN) /\ Len(blocks') <= MaxBehind
    BY <1>7, BlocksType
  <2> QED
    BY <1>7, <2>2, <2>3 DEF squelch, TypeOK
<1>8. CASE testNotification \/ testScanning
  BY <1>8 DEF testNotification, testScanning, TypeOK
<1>9. CASE load \/ store \/ wrap
  <2>1. CASE load
    <3>1. step' \in Nat
      BY <2>1 DEF load, TypeOK
    <3> QED
      BY <2>1, <3>1 DEF load, TypeOK
  <2>2. CASE store \/ wrap
    BY <2>2 DEF store, wrap, TypeOK
  <2> QED
    BY <1>9, <2>1, <2>2
<1>10. CASE tune
  <2>1. receiveFrequency' \in Nat
    BY <1>10, TunedType DEF tune, TypeOK
  <2> QED
    BY <1>10, <2>1, FrequenciesAssumption DEF tune, TypeOK
<1>11. CASE transmit
  BY <1>11 DEF transmit, TypeOK
<1>12. CASE readBlock
  <2>1. blocks' \in Seq(BOOLEAN) /\ Len(blocks') <= MaxBehind
    BY <1>12, BlocksType
  <2> QED
    BY <1>12, <2>1 DEF readBlock, TypeOK
<1>13. CASE UNCHANGED vars
  BY <1>13 DEF TypeOK
<1> QED
  BY <1>1, <1>2, <1>3, <1>4, <1>5, <1>6, <1>7, <1>8, <1>9, <1>10, <1>11, <1>12,
     <1>13 DEF Next, UiSteps, CallbackSteps, cmdStartFscan, cmdStopFscan

\* The initial state has its type.
LEMMA InitType == Init => TypeOK
<1> SUFFICES ASSUME Init PROVE TypeOK
  OBVIOUS
<1>1. blocks \in Seq(BOOLEAN) /\ Len(blocks) <= MaxBehind
  BY BoundsAssumption DEF Init
<1> QED
  BY <1>1, FrequenciesAssumption DEF Init, TypeOK

\* The state of the scanner always has its type.
THEOREM TypeCorrect == Spec => []TypeOK
BY InitType, TypeInductive, PTL DEF Spec

(***************************************************************************)
(* The range of a scan.                                                     *)
(*                                                                          *)
(* Between setScanParameters and the end of start nothing but these two     *)
(* touches the current frequency, if no notification was under way when it  *)
(* began: none gets past isScanning then.  Afterwards the parameters are    *)
(* settled, and a notification moves the current frequency inside them,     *)
(* except between its store and its wrap.                                   *)
(***************************************************************************)
Setting == ui \in {"setEnd", "setIncrement"}

Reconfigured == Setting \/ newConfigurationAvailable

\* Where the user interface thread is tells what scannerState is.
UiPlaces ==
  /\ Reconfigured \/ ui \in {"tuneToEnd", "scan"} => scannerState = "Idle"
  /\ ui = "tuneToEnd" => newConfigurationAvailable
  /\ ui = "scan" => ~newConfigurationAvailable

Ordered ==
  /\ Setting => startFrequency = asked.start
  /\ ui = "setIncrement" => endFrequency = asked.end
  /\ ~Setting => startFrequency <= endFrequency
  /\ asked.start <= asked.end

NobodyStepping == /\ Reconfigured => ~Stepping
                  /\ ui = "tuneToEnd" => currentFrequency = endFrequency

Settled ==
  ~Reconfigured =>
    /\ callback # "wrap" => currentFrequency \in startFrequency .. endFrequency
    /\ callback = "store" => step >= startFrequency
    /\ callback = "wrap" => step = currentFrequency /\ step >= startFrequency

RangeInv == /\ TypeOK /\ UiPlaces /\ Ordered
            /\ ~overlap => NobodyStepping /\ Settled

\* The invariant holds at the start and is kept by every step.
LEMMA RangeInductive == RangeInv /\ [Next]_vars => RangeInv'
<1> SUFFICES ASSUME RangeInv, [Next]_vars
             PROVE  /\ UiPlaces' /\ Ordered'
                    /\ ~overlap' => NobodyStepping' /\ Settled'
  BY TypeInductive DEF RangeInv
<1> USE DEF RangeInv, UiPlaces, Ordered, NobodyStepping, Settled, Setting,
            Reconfigured, Stepping
<1>t. TypeOK /\ TypeOK'
  BY TypeInductive
<1>a. asked.start \in Nat /\ asked.end \in Nat
  BY <1>t DEF TypeOK
<1>n. /\ currentFrequency \in Nat /\ startFrequency \in Nat
      /\ endFrequency \in Nat /\ frequencyIncrement \in Nat /\ step \in Nat
  BY <1>t DEF TypeOK
<1> DEFINE Kept == /\ UiPlaces' /\ Ordered'
                   /\ ~overlap' => NobodyStepping' /\ Settled'
<1>1. CASE cmdSetFscanValues
  <2>1. PICK s \in Scans : InReceiverRange(s) /\ setScanParameters(Upwards(s))
    BY <1>1 DEF cmdSetFscanValues
  <2> QED
    BY <2>1, LetThrough DEF setScanParameters
<1>2. CASE setEnd
  BY <1>2, <1>a DEF setEnd
<1>3. CASE setIncrement
  BY <1>3, <1>a DEF setIncrement
<1>4. CASE start
  BY <1>4, <1>n DEF start
<1>5. CASE tuneToEnd
  BY <1>5, <1>n DEF tuneToEnd
<1>6. CASE scan
  BY <1>6 DEF scan
<1>7. CASE notify \/ stop \/ ignore
  BY <1>7 DEF notify, stop, ignore
<1>8. CASE cmdSetRxFrequency
  BY <1>8 DEF cmdSetRxFrequency, setRxFrequency
<1>9. CASE squelch \/ testNotification \/ testScanning
  <2>1. UNCHANGED <<uiVars, currentFrequency, step>>
    BY <1>9 DEF squelch, testNotification, testScanning
  <2>2. callback \notin {"load", "store", "wrap", "tune"}
    BY <1>9 DEF squelch, testNotification, testScanning
  <2>3. callback' \notin {"store", "wrap", "tune"}
    BY <1>9 DEF squelch, testNotification, testScanning
  <2>4. callback' = "load" => scannerState = "Scanning"
    BY <1>9 DEF squelch, testNotification, testScanning
  <2> QED
    BY <2>1, <2>2, <2>3, <2>4
<1>10. CASE load
  BY <1>10, <1>n DEF load
<1>11. CASE store
  BY <1>11, <1>n DEF store
<1>12. CASE wrap
  BY <1>12, <1>n DEF wrap
<1>13. CASE tune
  BY <1>13 DEF tune
<1>14. CASE transmit \/ readBlock \/ UNCHANGED vars
  BY <1>14 DEF transmit, readBlock
<1> QED
  BY <1>1, <1>2, <1>3, <1>4, <1>5, <1>6, <1>7, <1>8, <1>9, <1>10, <1>11, <1>12,
     <1>13, <1>14 DEF Next, UiSteps, CallbackSteps, cmdStartFscan, cmdStopFscan

\* A scan whose parameters were set while no notification was half way through
\* stays in the range it was given, whatever the threads do.
THEOREM ScanStaysInRange == Spec => []ScansInRange
<1>1. Init => RangeInv
  BY InitType, FrequenciesAssumption
     DEF Init, RangeInv, UiPlaces, Ordered, NobodyStepping, Settled, Setting,
         Reconfigured, Stepping
<1>2. RangeInv => ScansInRange
  BY DEF RangeInv, ScansInRange, UiPlaces, Settled, Reconfigured
<1> QED
  BY <1>1, <1>2, RangeInductive, PTL DEF Spec
=============================================================================
