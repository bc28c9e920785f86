-------------------- MODULE AutomaticGainControl_proofs --------------------
(***************************************************************************)
(* Proofs about AutomaticGainControl, for any amplifier, any signal, any    *)
(* number of blocks under way and any parameters the commands let through.  *)
(***************************************************************************)
EXTENDS AutomaticGainControl, SequenceTheorems, TLAPS

USE DEF settings, blanking, switches, filter, thread, air, history, vars,
        Command, UiGoes, CallbackGoes, Rest, Disturbance

(***************************************************************************)
(* Type correctness.                                                        *)
(***************************************************************************)

\* The squelch reports a level between the weakest signal and full scale.
LEMMA MeasuredType ==
  ASSUME NEW l \in Levels, NEW g \in Gains PROVE Measured(l, g) \in Signals
<1>1. l + VgaGain[g] \in Int /\ FullScaleInDb \in Nat
  BY DriverAssumption
<1>2. (l + VgaGain[g]) \div 10 \in Int
  BY <1>1
<1> QED
  BY <1>1, <1>2 DEF Measured, Signals

\* The ends of the filtered gain's range.
LEMMA FilterRange ==
  /\ MaxGain * Scale \in Nat
  /\ InitialGain * Scale \in FilteredGains
<1>1. MaxGain \in Nat /\ InitialGain \in Nat /\ InitialGain <= MaxGain /\ Scale \in Nat
  BY GainsAssumption, ScaleAssumption DEF Gains
<1>2. MaxGain * Scale \in Nat /\ InitialGain * Scale \in Nat
  BY <1>1
<1>3. InitialGain * Scale <= MaxGain * Scale
  BY <1>1
<1> QED
  BY <1>2, <1>3 DEF FilteredGains

\* Limiting and truncating give a gain, whatever the algorithm computed.
LEMMA LimitedType ==
  ASSUME NEW f \in Int
  PROVE  Limited(f) \in FilteredGains /\ Truncated(f) \subseteq Gains
BY FilterRange, GainsAssumption DEF Limited, Truncated, Gains, FilteredGains

\* The error is a whole number of decibels.
LEMMA ErrorType == TypeOK => Error \in Int
BY DriverAssumption DEF TypeOK, SettingsOK, AirOK, Block, Signals, Error, Deviation

\* Both algorithms compute a number.
LEMMA AlgorithmType ==
  TypeOK => runHarris \subseteq Int /\ runLowpass \subseteq Int
<1> SUFFICES ASSUME TypeOK PROVE runHarris \subseteq Int /\ runLowpass \subseteq Int
  OBVIOUS
<1>1. /\ alpha \in Int /\ filteredIfGain \in Int /\ ifGainInDb \in Int
      /\ Scale \in Nat \ {0}
  BY FilterRange, ScaleAssumption, GainsAssumption
  DEF TypeOK, SettingsOK, GainsOK, Gains, FilteredGains, Coefficients
<1>2. Error \in Int
  BY ErrorType
<1>3. alpha * Error \in Int
  BY <1>1, <1>2
<1>4. runHarris \subseteq Int
  BY <1>1, <1>3 DEF runHarris
<1>5. \A x \in Int : x \div Scale \in Int /\ -x \in Int
  BY <1>1
<1> DEFINE n == alpha * Scale * (ifGainInDb + Error) + (Scale - alpha) * filteredIfGain
<1>6. n \in Int
  <2>1. alpha * Scale \in Int /\ ifGainInDb + Error \in Int /\ Scale - alpha \in Int
    BY <1>1, <1>2
  <2>2. /\ alpha * Scale * (ifGainInDb + Error) \in Int
        /\ (Scale - alpha) * filteredIfGain \in Int
    BY <2>1, <1>1
  <2> QED
    BY <2>2
<1>7. runLowpass \subseteq Int
  <2>1. runLowpass = {n \div Scale, -((-n) \div Scale)}
    BY DEF runLowpass
  <2> HIDE DEF n
  <2> QED
    BY <1>5, <1>6, <2>1
<1> QED
  BY <1>4, <1>7

\* Blocks that are read, taken or overtaken by a new gain stay blocks, in bounds.
LEMMA ReadType ==
  ASSUME TypeOK, readBlock
  PROVE  blocks' \in Seq(Block) /\ begun' \in Block /\ Len(blocks') = Len(blocks) + 1
<1>1. Measured(level, receiveIfGainInDb) \in Signals
  BY MeasuredType DEF TypeOK, AirOK, GainsOK
<1>2. PICK s \in {begun.signal, Measured(level, receiveIfGainInDb)} :
         blocks' = Append(blocks, [signal |-> s, stale |-> begun.stale])
  BY DEF readBlock
<1>3. [signal |-> s, stale |-> begun.stale] \in Block
  BY <1>1, <1>2 DEF TypeOK, AirOK, Block
<1>4. begun' \in Block
  BY <1>1 DEF readBlock, Block
<1>5. blocks \in Seq(Block)
  BY DEF TypeOK, AirOK
<1> QED
  BY <1>2, <1>3, <1>4, <1>5, AppendProperties

LEMMA TakeType ==
  ASSUME TypeOK, takeBlock
  PROVE  /\ blocks' \in Seq(Block) /\ block' \in Block
         /\ Len(blocks') = Len(blocks) - 1 /\ Len(blocks) \in Nat
         /\ block' = blocks[1]
         /\ \A i \in 1 .. Len(blocks') : blocks'[i] = blocks[i + 1]
<1>1. blocks \in Seq(Block) /\ blocks # <<>> /\ blocks' = Tail(blocks)
      /\ block' = Head(blocks)
  BY DEF takeBlock, TypeOK, AirOK
<1> QED
  BY <1>1, HeadTailProperties, LenProperties

\* Where set changes the blocks under way, it marks them.
LEMMA SetType ==
  ASSUME TypeOK, set
  PROVE  /\ blocks' \in Seq(Block) /\ begun' \in Block /\ Len(blocks') = Len(blocks)
<1>1. CASE UNCHANGED <<begun, blocks>>
  BY <1>1 DEF TypeOK, AirOK
<1>2. CASE /\ begun' = Stale(begun)
           /\ blocks' = [i \in DOMAIN blocks |-> Stale(blocks[i])]
  <2>1. \A b \in Block : Stale(b) \in Block
    BY DEF Block, Stale
  <2>2. /\ blocks \in Seq(Block) /\ DOMAIN blocks = 1 .. Len(blocks)
        /\ Len(blocks) \in Nat /\ \A i \in 1 .. Len(blocks) : blocks[i] \in Block
    BY LenProperties, ElementOfSeq DEF TypeOK, AirOK
  <2>3. blocks' = [i \in 1 .. Len(blocks) |-> Stale(blocks[i])]
    BY <1>2, <2>2
  <2> DEFINE b(i) == Stale(blocks[i])
  <2>4. \A i \in 1 .. Len(blocks) : b(i) \in Block
    BY <2>1, <2>2
  <2>5. blocks' \in [1 .. Len(blocks) -> Block]
    BY <2>3, <2>4
  <2>6. blocks' \in Seq(Block) /\ Len(blocks') = Len(blocks)
    BY <2>2, <2>5
  <2> QED
    BY <1>2, <2>1, <2>6 DEF TypeOK, AirOK
<1> QED
  BY <1>1, <1>2 DEF set

\* What a step leaves alone keeps its type.
LEMMA Kept ==
  /\ SettingsOK /\ UNCHANGED settings => SettingsOK'
  /\ FlagsOK /\ UNCHANGED <<receiveGainWasAdjusted, switches, history>> => FlagsOK'
  /\ GainsOK /\ UNCHANGED <<filter, receiveIfGainInDb, gainError>> => GainsOK'
  /\ CountersOK /\ UNCHANGED <<blankingCounter, counted, disturbances>> => CountersOK'
  /\ PlacesOK /\ UNCHANGED <<ui, callback>> => PlacesOK'
  /\ AirOK /\ UNCHANGED <<air, block>> => AirOK'
BY DEF SettingsOK, FlagsOK, GainsOK, CountersOK, PlacesOK, AirOK

\* A command is counted, and leaves the gains of the AGC and the blocks alone.
LEMMA CommandType ==
  ASSUME TypeOK, NEW next \in {"idle", "reset", "resetAndEnable", "ignore"},
         Command(next)
  PROVE  /\ disturbances' \in 0 .. MaxDisturbances
         /\ PlacesOK' /\ AirOK' /\ ifGainInDb' \in Gains
         /\ filteredIfGain' \in FilteredGains /\ gainError' \in Int
         /\ counted' \in 0 .. 10
<1>1. disturbances' \in 0 .. MaxDisturbances
  BY BoundsAssumption DEF TypeOK, CountersOK
<1>2. PlacesOK'
  BY DEF TypeOK, PlacesOK
<1> QED
  BY <1>1, <1>2, Kept DEF TypeOK, GainsOK, CountersOK

\* Every step keeps every variable in its type.
LEMMA TypeInductive == TypeOK /\ [Next]_vars => TypeOK'
<1> SUFFICES ASSUME TypeOK, [Next]_vars PROVE TypeOK'
  OBVIOUS
<1>1. ASSUME NEW t \in Types, setType(t) PROVE TypeOK'
  BY <1>1, CommandType, Kept DEF setType, TypeOK, SettingsOK, CountersOK, GainsOK
<1>2. ASSUME NEW d \in Deadbands, setDeadband(d) PROVE TypeOK'
  BY <1>2, CommandType, Kept, ParametersAssumption
  DEF setDeadband, TypeOK, SettingsOK, CountersOK, GainsOK
<1>3. ASSUME NEW o \in OperatingPoints, setOperatingPoint(o) PROVE TypeOK'
  BY <1>3, CommandType, Kept, ParametersAssumption
  DEF setOperatingPoint, TypeOK, SettingsOK, CountersOK, GainsOK
<1>4. ASSUME NEW a \in Alphas, setAgcFilterCoefficient(a) PROVE TypeOK'
  BY <1>4, CommandType, Kept, ParametersAssumption
  DEF setAgcFilterCoefficient, TypeOK, SettingsOK, CountersOK, GainsOK
<1>5. ASSUME NEW b \in BlankingLimits, setBlankingLimit(b) PROVE TypeOK'
  <2>1. SettingsOK'
    BY <1>5, ParametersAssumption DEF setBlankingLimit, TypeOK, SettingsOK
  <2>2. FlagsOK'
    BY <1>5 DEF setBlankingLimit, TypeOK, FlagsOK
  <2> QED
    BY <1>5, <2>1, <2>2, CommandType
    DEF setBlankingLimit, TypeOK, CountersOK, GainsOK
<1>6. ASSUME NEW g \in UserGains, setReceiveIfGainInDb(g) PROVE TypeOK'
  <2>1. FlagsOK'
    BY <1>6 DEF setReceiveIfGainInDb, TypeOK, FlagsOK
  <2> QED
    BY <1>6, <2>1, CommandType, Kept, GainsAssumption
    DEF setReceiveIfGainInDb, TypeOK, CountersOK, GainsOK
<1>7. CASE enable
  BY <1>7, CommandType, Kept DEF enable, TypeOK, CountersOK, GainsOK
<1>8. CASE disable
  <2>1. FlagsOK'
    BY <1>8 DEF disable, TypeOK, FlagsOK
  <2> QED
    BY <1>8, <2>1, CommandType, Kept DEF disable, TypeOK, CountersOK, GainsOK
<1>9. CASE UiSteps
  <2>1. FlagsOK'
    BY <1>9 DEF UiSteps, resetBlankingSystem, resetFlag, switchOn, notify, ignore,
                TypeOK, FlagsOK
  <2>2. PlacesOK'
    BY <1>9 DEF UiSteps, resetBlankingSystem, resetFlag, switchOn, notify, ignore,
                TypeOK, PlacesOK
  <2>3. CountersOK'
    BY <1>9 DEF UiSteps, resetBlankingSystem, resetFlag, switchOn, notify, ignore,
                TypeOK, CountersOK
  <2> QED
    BY <1>9, <2>1, <2>2, <2>3, Kept
    DEF UiSteps, resetBlankingSystem, resetFlag, switchOn, notify, ignore, TypeOK
<1>10. CASE CallbackSteps
  <2>1. PlacesOK'
    BY <1>10 DEF CallbackSteps, takeBlock, testNotification, testEnabled, sync,
                 blank, count, run, set, mark, TypeOK, PlacesOK
  <2>2. CASE takeBlock
    <3>1. /\ blocks' \in Seq(Block) /\ block' \in Block
          /\ Len(blocks') = Len(blocks) - 1 /\ Len(blocks) \in Nat
      BY <2>2, TakeType
    <3>2. AirOK'
      BY <2>2, <3>1, BoundsAssumption DEF takeBlock, TypeOK, AirOK
    <3> QED
      BY <2>2, <2>1, <3>2, Kept DEF takeBlock, TypeOK
  <2>3. CASE testNotification \/ testEnabled
    BY <2>3, <2>1, Kept DEF testNotification, testEnabled, TypeOK
  <2>4. CASE sync
    <3>1. GainsOK'
      BY <2>4 DEF sync, TypeOK, GainsOK
    <3> QED
      BY <2>4, <2>1, <3>1, Kept DEF sync, TypeOK
  <2>5. CASE blank
    <3>1. receiveGainWasAdjusted' \in BOOLEAN
      BY <2>5 DEF blank, TypeOK, FlagsOK
    <3>2. FlagsOK'
      BY <2>5, <3>1 DEF blank, TypeOK, FlagsOK
    <3>3. CountersOK'
      <4>1. CASE StillBlanked /\ counted' = blankingCounter + 1
        <5>1. blankingCounter < blankingLimit
          BY <4>1 DEF StillBlanked
        <5>2. counted' \in 0 .. 10
          BY <4>1, <5>1 DEF TypeOK, SettingsOK, CountersOK
        <5>3. blankingCounter' \in {blankingCounter, 0} /\ disturbances' = disturbances
          BY <2>5 DEF blank
        <5> QED
          BY <5>2, <5>3 DEF TypeOK, CountersOK
      <4>2. CASE counted' = counted
        BY <2>5, <4>2 DEF blank, TypeOK, CountersOK
      <4> QED
        BY <2>5, <4>1, <4>2 DEF blank
    <3> QED
      BY <2>5, <2>1, <3>2, <3>3, Kept DEF blank, TypeOK
  <2>6. CASE count
    BY <2>6, <2>1, Kept DEF count, TypeOK, CountersOK
  <2>7. CASE run
    <3>1. PICK f \in IF agcType = "Harris" THEN runHarris ELSE runLowpass :
            filteredIfGain' = Limited(f) /\ ifGainInDb' \in Truncated(f)
      BY <2>7 DEF run
    <3>2. f \in Int
      BY <3>1, AlgorithmType
    <3>3. filteredIfGain' \in FilteredGains /\ ifGainInDb' \in Gains
      BY <3>1, <3>2, LimitedType
    <3>4. gainError' \in Int
      BY <2>7, ErrorType DEF run
    <3>5. GainsOK'
      BY <2>7, <3>3, <3>4 DEF run, TypeOK, GainsOK
    <3> QED
      BY <2>7, <2>1, <3>5, Kept DEF run, TypeOK
  <2>8. CASE set
    <3>1. /\ blocks' \in Seq(Block) /\ begun' \in Block /\ Len(blocks') = Len(blocks)
      BY <2>8, SetType
    <3>2. AirOK'
      BY <2>8, <3>1 DEF set, TypeOK, AirOK
    <3>3. GainsOK' /\ inStep' \in BOOLEAN
      BY <2>8 DEF set, TypeOK, GainsOK, FlagsOK
    <3>4. CountersOK'
      BY <2>8, BoundsAssumption DEF set, TypeOK, CountersOK
    <3>5. forgiven' \in BOOLEAN
      BY <2>8 DEF set
    <3>6. FlagsOK'
      BY <2>8, <3>3, <3>5 DEF set, TypeOK, FlagsOK
    <3> QED
      BY <2>8, <2>1, <3>2, <3>3, <3>4, <3>6, Kept DEF set, TypeOK
  <2>9. CASE mark
    <3>1. FlagsOK' /\ GainsOK'
      BY <2>9 DEF mark, TypeOK, FlagsOK, GainsOK
    <3> QED
      BY <2>9, <2>1, <3>1, Kept DEF mark, TypeOK
  <2> QED
    BY <1>10, <2>2, <2>3, <2>4, <2>5, <2>6, <2>7, <2>8, <2>9 DEF CallbackSteps
<1>11. CASE transmit
  <2>1. AirOK'
    BY <1>11 DEF transmit, TypeOK, AirOK
  <2>2. CountersOK' /\ PlacesOK'
    BY <1>11, BoundsAssumption DEF transmit, TypeOK, CountersOK, PlacesOK
  <2> QED
    BY <1>11, <2>1, <2>2, Kept DEF transmit, TypeOK
<1>12. CASE readBlock
  <2>1. /\ blocks' \in Seq(Block) /\ begun' \in Block /\ Len(blocks') = Len(blocks) + 1
    BY <1>12, ReadType
  <2>2. Len(blocks) \in Nat
    BY LenProperties DEF TypeOK, AirOK
  <2>3. Len(blocks') <= MaxBehind
    BY <1>12, <2>1, <2>2, BoundsAssumption DEF readBlock
  <2>4. AirOK'
    BY <1>12, <2>1, <2>3 DEF readBlock, TypeOK, AirOK
  <2> QED
    BY <1>12, <2>4, Kept DEF readBlock, TypeOK
<1>13. CASE UNCHANGED vars
  BY <1>13, Kept DEF TypeOK
<1> QED
  BY <1>1, <1>2, <1>3, <1>4, <1>5, <1>6, <1>7, <1>8, <1>9, <1>10, <1>11, <1>12,
     <1>13
  DEF Next, cmdSetAgcType, cmdSetAgcDeadband, cmdSetAgcBlank, cmdSetAgcLevel,
          cmdSetAgcAlpha, cmdSetRxIfGain, cmdEnableAgc, cmdDisableAgc

\* The initial state has its type.
LEMMA InitType == Init => TypeOK
<1> SUFFICES ASSUME Init PROVE TypeOK
  OBVIOUS
<1>1. Measured(level, InitialGain) \in Signals
  BY MeasuredType, GainsAssumption DEF Init
<1>2. block \in Block /\ begun \in Block
  BY <1>1 DEF Init, Block
<1>3. blocks \in Seq(Block) /\ Len(blocks) <= MaxBehind
  BY BoundsAssumption DEF Init
<1>4. filteredIfGain \in FilteredGains
  BY FilterRange DEF Init
<1>5. disturbances \in 0 .. MaxDisturbances /\ agcType \in Types
  BY BoundsAssumption DEF Init, Types
<1>6. /\ deadbandInDb \in 0 .. 10 /\ blankingLimit \in 0 .. 10
      /\ operatingPointInDbFs \in Int /\ alpha \in Coefficients
  BY ParametersAssumption DEF Init
<1>7. SettingsOK /\ CountersOK
  BY <1>5, <1>6 DEF Init, SettingsOK, CountersOK
<1>8. FlagsOK /\ PlacesOK
  BY DEF Init, FlagsOK, PlacesOK
<1>9. GainsOK /\ AirOK
  BY <1>2, <1>3, <1>4, GainsAssumption DEF Init, GainsOK, AirOK
<1> QED
  BY <1>7, <1>8, <1>9 DEF TypeOK

\* The state of the AGC always has its type: the gain it asks for is one the
\* command would let through, whatever the signal, the algorithm and the
\* parameters.
THEOREM TypeCorrect == Spec => []TypeOK
BY InitType, TypeInductive, PTL DEF Spec

(***************************************************************************)
(* Blanking.                                                                *)
(*                                                                          *)
(* The blocks read with the gain of before are at the head of the line of   *)
(* blocks that still come to the AGC.  Remaining is the number of blocks it *)
(* is going to ignore, and none of them stands behind that.                 *)
(***************************************************************************)
\* The callback has a block that it may still ignore.
Holding == callback \in {"notify", "check", "sync", "blank"}

\* The place in line of the i-th block that waits; the one being read is next.
Place(i) == IF Holding THEN i + 1 ELSE i

Counter == IF callback = "count" THEN counted ELSE blankingCounter

\* Blanking is on, or the callback is about to switch it on.
Blanking == callback = "mark" \/ receiveGainWasAdjusted

Remaining == IF Blanking THEN blankingLimit - Counter ELSE 0

StaleCovered ==
  /\ \A i \in 1 .. Len(blocks) : blocks[i].stale => Place(i) <= Remaining
  /\ begun.stale => Place(Len(blocks) + 1) <= Remaining
  /\ block.stale /\ Holding => 1 <= Remaining
  /\ block.stale => callback \notin {"run", "set"}

BlankingInv ==
  /\ Len(blocks) + (IF callback = "dequeue" THEN 0 ELSE 1) <= MaxBehind
  /\ callback \in {"run", "set"} => ~receiveGainWasAdjusted
  /\ callback = "count" => forgiven \/ receiveGainWasAdjusted
  /\ forgiven \/ blankingLimit < MaxBehind \/ StaleCovered

blankingVars == <<blankingLimit, blanking, forgiven, callback, block, counted, begun,
                  blocks>>

\* Whatever does not touch the blanking and the blocks keeps the invariant.
LEMMA BlankingKept ==
  BlankingInv /\ UNCHANGED blankingVars => BlankingInv'
BY DEF blankingVars, BlankingInv, StaleCovered, Place, Holding, Remaining, Blanking,
       Counter

\* What the user does to the blanking is forgiven.
LEMMA BlankingForgiven ==
  ASSUME BlankingInv, forgiven', UNCHANGED <<thread, blocks>>,
         receiveGainWasAdjusted' => receiveGainWasAdjusted
  PROVE  BlankingInv'
BY DEF BlankingInv

\* The numbers in the invariant are numbers.
LEMMA BlankingNumbers ==
  TypeOK => /\ Len(blocks) \in Nat /\ blankingLimit \in Nat
            /\ blankingCounter \in Nat /\ counted \in Nat
            /\ blocks \in Seq(Block)
BY LenProperties DEF TypeOK, AirOK, SettingsOK, CountersOK

\* As long as the callback holds no new block and blanks as many as before, what was
\* covered is covered.
LEMMA StaleStaysCovered ==
  ASSUME TypeOK, StaleCovered, UNCHANGED <<begun, blocks, block>>,
         Remaining \in Int, Remaining' \in Int,
         \/ Holding' = Holding /\ Remaining' = Remaining
         \/ ~Holding' /\ Holding /\ Remaining' >= Remaining - 1
         \/ ~Holding' /\ ~Holding /\ Remaining' >= Remaining,
         callback' \in {"run", "set"} => ~block.stale
  PROVE  StaleCovered'
BY BlankingNumbers DEF StaleCovered, Place

\* Every step keeps the stale blocks covered.
LEMMA BlankingInductive ==
  TypeOK /\ TypeOK' /\ BlankingInv /\ [Next]_vars => BlankingInv'
<1> SUFFICES ASSUME TypeOK, TypeOK', BlankingInv, [Next]_vars PROVE BlankingInv'
  OBVIOUS
<1>n. /\ Len(blocks) \in Nat /\ blankingLimit \in Nat
      /\ blankingCounter \in Nat /\ counted \in Nat /\ MaxBehind \in Nat
  BY BlankingNumbers, BoundsAssumption
<1>n2. /\ Len(blocks') \in Nat /\ blankingLimit' \in Nat
       /\ blankingCounter' \in Nat /\ counted' \in Nat
  BY LenProperties DEF TypeOK, AirOK, SettingsOK, CountersOK
<1>r. Remaining \in Int /\ Remaining' \in Int
  BY <1>n, <1>n2 DEF Remaining, Counter
<1>1. CASE \/ \E t \in Types : setType(t)
           \/ \E d \in Deadbands : setDeadband(d)
           \/ \E o \in OperatingPoints : setOperatingPoint(o)
           \/ \E a \in Alphas : setAgcFilterCoefficient(a)
           \/ \E g \in UserGains : setReceiveIfGainInDb(g)
           \/ enable \/ disable \/ switchOn \/ notify \/ ignore
           \/ transmit \/ UNCHANGED vars
  <2>1. UNCHANGED blankingVars
    BY <1>1 DEF setType, setDeadband, setOperatingPoint, setAgcFilterCoefficient,
       setReceiveIfGainInDb, enable, disable, switchOn, notify, ignore, transmit,
       blankingVars
  <2> QED
    BY <2>1, BlankingKept
<1>2. CASE \/ \E b \in BlankingLimits : setBlankingLimit(b)
           \/ resetBlankingSystem \/ resetFlag
  <2>1. /\ forgiven' = TRUE /\ UNCHANGED <<thread, blocks>>
        /\ receiveGainWasAdjusted' => receiveGainWasAdjusted
    BY <1>2 DEF setBlankingLimit, resetBlankingSystem, resetFlag
  <2> QED
    BY <2>1, BlankingForgiven
<1>3. CASE takeBlock
  <2>1. /\ Len(blocks') = Len(blocks) - 1 /\ block' = blocks[1]
        /\ \A i \in 1 .. Len(blocks') : blocks'[i] = blocks[i + 1]
    BY <1>3, TakeType
  <2>2. ASSUME StaleCovered PROVE StaleCovered'
    <3>1. Holding' /\ ~Holding /\ callback' = "notify" /\ begun' = begun
      BY <1>3 DEF takeBlock, Holding
    <3>2. Remaining' = Remaining
      BY <1>3 DEF takeBlock, Remaining, Counter, Blanking
    <3> QED
      BY <1>n, <1>n2, <1>r, <2>1, <2>2, <3>1, <3>2 DEF StaleCovered, Place
  <2> QED
    BY <1>3, <1>n, <2>1, <2>2 DEF takeBlock, BlankingInv
<1>4. CASE testNotification \/ testEnabled \/ sync
  <2>1. /\ callback' \in {"dequeue", "check", "sync", "blank"} /\ Holding
        /\ UNCHANGED <<begun, blocks, block, blanking, blankingLimit, forgiven, counted>>
        /\ callback # "dequeue"
    BY <1>4 DEF testNotification, testEnabled, sync, Holding
  <2>2. Remaining' = Remaining
    BY <2>1 DEF Remaining, Counter, Blanking, Holding
  <2>3. Holding' \/ ~Holding'
    OBVIOUS
  <2>4. ASSUME StaleCovered PROVE StaleCovered'
    BY <1>r, <2>1, <2>2, <2>3, <2>4, <1>n DEF StaleCovered, Place, Holding
  <2> QED
    BY <1>n, <2>1, <2>4 DEF BlankingInv
<1>5. CASE blank
  <2>1. /\ UNCHANGED <<begun, blocks, block, blankingLimit, forgiven>>
        /\ callback = "blank" /\ Holding /\ ~Holding'
        /\ callback' \in {"count", "run"}
    BY <1>5 DEF blank, Holding
  <2>2. CASE callback' = "count"
    <3>1. /\ receiveGainWasAdjusted /\ receiveGainWasAdjusted'
          /\ counted' = blankingCounter + 1
      BY <1>5, <2>2 DEF blank, StillBlanked
    <3>2. Remaining' = Remaining - 1
      BY <1>n, <2>1, <2>2, <3>1 DEF Remaining, Counter, Blanking
    <3>3. ASSUME StaleCovered PROVE StaleCovered'
      BY <1>r, <2>1, <2>2, <3>2, <3>3, StaleStaysCovered
    <3> QED
      BY <2>1, <2>2, <3>1, <3>3 DEF BlankingInv
  <2>3. CASE callback' = "run"
    <3>1. ~receiveGainWasAdjusted'
      BY <1>5, <2>3 DEF blank
    <3>2. Remaining' = 0 /\ Remaining <= 0
      <4>1. Remaining' = 0
        BY <2>3, <3>1 DEF Remaining, Blanking
      <4>2. CASE ~receiveGainWasAdjusted
        <5>1. ~Blanking
          BY <2>1, <4>2 DEF Blanking
        <5> QED
          BY <4>1, <5>1 DEF Remaining
      <4>3. CASE ~StillBlanked /\ receiveGainWasAdjusted
        <5>1. blankingCounter >= blankingLimit /\ Counter = blankingCounter
          <6>1. ~(blankingCounter < blankingLimit)
            BY <4>3 DEF StillBlanked
          <6>2. Counter = blankingCounter
            BY <2>1 DEF Counter
          <6> QED
            BY <1>n, <6>1, <6>2
        <5> QED
          BY <1>n, <4>1, <5>1 DEF Remaining
      <4> QED
        BY <1>5, <2>3, <4>1, <4>2, <4>3 DEF blank
    <3>3. ASSUME StaleCovered PROVE StaleCovered'
      <4>1. ~block.stale
        BY <1>r, <2>1, <3>2, <3>3 DEF StaleCovered
      <4> QED
        <5>1. Remaining' >= Remaining - 1
          BY <1>n, <3>2 DEF Remaining, Counter
        <5> QED
          BY <1>r, <2>1, <3>3, <4>1, <5>1, StaleStaysCovered
    <3> QED
      BY <2>1, <2>3, <3>1, <3>3 DEF BlankingInv
  <2> QED
    BY <2>1, <2>2, <2>3
<1>6. CASE count
  <2>1. /\ UNCHANGED <<begun, blocks, block, blankingLimit, forgiven,
                       receiveGainWasAdjusted>>
        /\ callback = "count" /\ callback' = "dequeue" /\ blankingCounter' = counted
        /\ ~Holding /\ ~Holding'
    BY <1>6 DEF count, Holding
  <2>2. Remaining' = Remaining
    BY <2>1 DEF Remaining, Counter, Blanking
  <2>3. ASSUME StaleCovered PROVE StaleCovered'
    BY <1>r, <2>1, <2>2, <2>3, StaleStaysCovered
  <2> QED
    BY <1>n, <2>1, <2>3 DEF BlankingInv
<1>7. CASE run
  <2>1. /\ UNCHANGED <<begun, blocks, block, blanking, counted, blankingLimit, forgiven>>
        /\ callback = "run" /\ callback' \in {"dequeue", "set"} /\ ~Holding /\ ~Holding'
    BY <1>7 DEF run, Holding
  <2>2. ~receiveGainWasAdjusted
    BY <2>1 DEF BlankingInv
  <2>3. Remaining = 0 /\ Remaining' = 0
    BY <2>1, <2>2 DEF Remaining, Blanking
  <2>4. ASSUME StaleCovered PROVE StaleCovered'
    <3>1. ~block.stale
      BY <2>1, <2>4 DEF StaleCovered
    <3> QED
      BY <2>1, <2>3, <2>4, <3>1, StaleStaysCovered
  <2> QED
    BY <1>n, <2>1, <2>2, <2>4 DEF BlankingInv
<1>8. CASE set
  <2>1. /\ callback = "set" /\ callback' = "mark" /\ ~Holding'
        /\ blankingCounter' = blankingCounter /\ blankingLimit' = blankingLimit
        /\ forgiven' = (blankingCounter # 0)
    BY <1>8 DEF set, Holding
  <2>2. Len(blocks') = Len(blocks) /\ Len(blocks) + 1 <= MaxBehind
    BY <1>8, <2>1, SetType DEF BlankingInv
  <2>3. ASSUME ~forgiven', blankingLimit' >= MaxBehind PROVE StaleCovered'
    <3>1. Remaining' >= MaxBehind
      <4>1. blankingCounter' = 0 /\ blankingLimit' = blankingLimit
        BY <2>1, <2>3
      <4>2. Blanking' /\ Counter' = blankingCounter'
        BY <2>1 DEF Blanking, Counter
      <4>3. Remaining' = blankingLimit' - blankingCounter'
        BY <4>2 DEF Remaining
      <4> QED
        BY <1>n, <1>n2, <2>3, <4>1, <4>3
    <3> QED
      BY <1>n, <1>n2, <1>r, <2>1, <2>2, <3>1 DEF StaleCovered, Place
  <2> QED
    BY <1>n, <1>n2, <2>1, <2>2, <2>3 DEF BlankingInv
<1>9. CASE mark
  <2>1. /\ UNCHANGED <<begun, blocks, block, blankingLimit, blankingCounter, forgiven>>
        /\ callback = "mark" /\ callback' = "dequeue" /\ receiveGainWasAdjusted'
        /\ ~Holding /\ ~Holding'
    BY <1>9 DEF mark, Holding
  <2>2. Remaining' = Remaining
    BY <2>1 DEF Remaining, Counter, Blanking
  <2>3. ASSUME StaleCovered PROVE StaleCovered'
    BY <1>r, <2>1, <2>2, <2>3, StaleStaysCovered
  <2> QED
    BY <1>n, <2>1, <2>3 DEF BlankingInv
<1>10. CASE readBlock
  <2>1. PICK x \in {begun.signal, Measured(level, receiveIfGainInDb)} :
          blocks' = Append(blocks, [signal |-> x, stale |-> begun.stale])
    BY <1>10 DEF readBlock
  <2>2. /\ ~begun'.stale
        /\ UNCHANGED <<callback, block, blanking, counted, blankingLimit, forgiven>>
    BY <1>10 DEF readBlock
  <2>3. Len(blocks') = Len(blocks) + 1
    BY <1>10, ReadType
  <2>4. Len(blocks) + (IF callback = "dequeue" THEN 0 ELSE 1) < MaxBehind
    BY <1>10 DEF readBlock
  <2>5. /\ \A i \in 1 .. Len(blocks) : blocks'[i] = blocks[i]
        /\ blocks'[Len(blocks) + 1].stale = begun.stale
    <3> DEFINE b == [signal |-> x, stale |-> begun.stale]
    <3>1. blocks \in Seq(Block) /\ b \in [signal : {x}, stale : {begun.stale}]
      BY BlankingNumbers
    <3>2. blocks'[Len(blocks) + 1] = b /\ \A i \in 1 .. Len(blocks) : blocks'[i] = blocks[i]
      BY <2>1, <3>1
    <3> QED
      BY <3>2
  <2>6. Remaining' = Remaining /\ Holding' = Holding
    BY <2>2 DEF Remaining, Counter, Blanking, Holding
  <2>7. ASSUME StaleCovered PROVE StaleCovered'
    <3>1. \A i \in 1 .. Len(blocks') : blocks'[i].stale => Place(i)' <= Remaining'
      BY <1>n, <1>r, <2>2, <2>3, <2>5, <2>6, <2>7 DEF StaleCovered, Place
    <3> QED
      BY <2>2, <2>6, <2>7, <3>1 DEF StaleCovered
  <2> QED
    BY <1>n, <2>2, <2>3, <2>4, <2>7 DEF BlankingInv
<1> QED
  BY <1>1, <1>2, <1>3, <1>4, <1>5, <1>6, <1>7, <1>8, <1>9, <1>10
  DEF Next, UiSteps, CallbackSteps, cmdSetAgcType, cmdSetAgcDeadband, cmdSetAgcBlank,
          cmdSetAgcLevel, cmdSetAgcAlpha, cmdSetRxIfGain, cmdEnableAgc, cmdDisableAgc

\* At first nothing is stale.
LEMMA InitBlanking == Init => BlankingInv
BY BoundsAssumption DEF Init, BlankingInv, StaleCovered, Holding

\* When blankingLimit covers the blocks under way, no error is corrected twice, for
\* any number of blocks under way and any limit the command lets through.
THEOREM NoErrorCorrectedTwice == Spec => NoDoubleCorrection
<1>1. TypeOK /\ BlankingInv
      => [callback = "run" /\ callback' = "set"
            => ~block.stale \/ forgiven \/ blankingLimit < MaxBehind]_vars
  BY DEF BlankingInv, StaleCovered
<1> QED
  BY <1>1, InitType, InitBlanking, TypeInductive, BlankingInductive, PTL
  DEF Spec, NoDoubleCorrection

(***************************************************************************)
(* The direction of the steps.                                              *)
(***************************************************************************)

\* The filtered gain belongs to this gain: truncated, exactly or by a float that
\* lies just below, it gives this one.
Between(f, gain) == gain * Scale <= f /\ f <= (gain + 1) * Scale

\* A product grows with its factor.
LEMMA ProductGrows ==
  ASSUME NEW a \in Int, NEW b \in Int, NEW c \in Nat, a <= b
  PROVE  a * c <= b * c
<1>1. b - a \in Nat
  OBVIOUS
<1>2. (b - a) * c \in Nat
  BY <1>1
<1>3. (b - a) * c = b * c - a * c
  OBVIOUS
<1> QED
  BY <1>2, <1>3

\* A quotient, rounded down or up, stays on its side of a bound.
LEMMA QuotientBounds ==
  ASSUME NEW n \in Int, NEW m \in Int, NEW s \in Nat \ {0}
  PROVE  /\ n \div s \in Int /\ -((-n) \div s) \in Int
         /\ m * s <= n => m <= n \div s /\ m <= -((-n) \div s)
         /\ n <= m * s => n \div s <= m /\ -((-n) \div s) <= m
<1>1. ASSUME NEW x \in Int
      PROVE  x \div s \in Int /\ s * (x \div s) <= x /\ x < s * (x \div s + 1)
  OBVIOUS
<1>2. ASSUME NEW x \in Int, NEW y \in Int
      PROVE  /\ y * s <= x => y <= x \div s
             /\ x <= y * s => x \div s <= y
  <2> DEFINE q == x \div s
  <2>1. q \in Int /\ s * q <= x /\ x < s * (q + 1)
    BY <1>1
  <2> HIDE DEF q
  <2>2. ASSUME y * s <= x, q + 1 <= y PROVE FALSE
    <3>1. (q + 1) * s <= y * s
      BY <2>1, <2>2, ProductGrows
    <3> QED
      BY <2>1, <2>2, <3>1
  <2>3. ASSUME x <= y * s, y + 1 <= q PROVE FALSE
    <3>1. (y + 1) * s <= q * s
      BY <2>1, <2>3, ProductGrows
    <3>2. (y + 1) * s = y * s + s
      OBVIOUS
    <3> QED
      BY <2>1, <2>3, <3>1, <3>2
  <2> QED
    BY <2>1, <2>2, <2>3 DEF q
<1>3. (-m) * s = -(m * s)
  OBVIOUS
<1>4. (-n) \div s \in Int /\ n \div s \in Int
  BY <1>1
<1>5. /\ -(m * s) <= -n => -m <= (-n) \div s
      /\ -n <= -(m * s) => (-n) \div s <= -m
  BY <1>2, <1>3
<1> QED
  BY <1>2, <1>4, <1>5

\* Limited, the filtered gain belongs to the truncated one; one that is above a
\* gain is truncated to no less, one below the next gain to no more.
LEMMA TruncatedIs ==
  ASSUME NEW f \in Int, NEW new \in Truncated(f), NEW gain \in Gains
  PROVE  /\ Between(Limited(f), new)
         /\ f > gain * Scale => new >= gain
         /\ f < (gain + 1) * Scale => new <= gain
         /\ Between(f, gain) => Between(Limited(f), gain)
<1>1. /\ Scale \in Nat \ {0} /\ MaxGain \in Nat /\ gain \in Nat /\ gain <= MaxGain
      /\ new \in Nat /\ new <= MaxGain
  BY LimitedType, GainsAssumption, ScaleAssumption DEF Gains
<1>2. /\ MaxGain * Scale \in Nat /\ gain * Scale \in Nat /\ new * Scale \in Nat
      /\ (gain + 1) * Scale = gain * Scale + Scale
      /\ (new + 1) * Scale = new * Scale + Scale
      /\ (MaxGain + 1) * Scale = MaxGain * Scale + Scale
  BY <1>1
<1>3. gain * Scale <= MaxGain * Scale
  BY <1>1, ProductGrows
<1>4. /\ gain + 1 <= new => (gain + 1) * Scale <= new * Scale
      /\ new + 1 <= gain => (new + 1) * Scale <= gain * Scale
      /\ MaxGain <= gain => MaxGain = gain
  BY <1>1, ProductGrows
<1>5. CASE f > MaxGain * Scale
  <2>1. new = MaxGain /\ Limited(f) = MaxGain * Scale
    BY <1>5 DEF Truncated, Limited
  <2>2. f < (gain + 1) * Scale => new <= gain
    <3>1. SUFFICES ASSUME gain + 1 <= MaxGain, f < (gain + 1) * Scale PROVE FALSE
      BY <1>1, <2>1
    <3>2. (gain + 1) * Scale <= MaxGain * Scale
      BY <1>4, <2>1, <3>1
    <3> QED
      BY <1>1, <1>2, <1>5, <3>1, <3>2
  <2>3. Between(MaxGain * Scale, MaxGain)
    BY <1>1, <1>2 DEF Between
  <2>4. Between(f, gain) => Between(MaxGain * Scale, gain)
    BY <1>1, <1>2, <1>3, <1>5 DEF Between
  <2> QED
    BY <1>1, <2>1, <2>2, <2>3, <2>4
<1>6. CASE f <= 0
  <2>1. new = 0
    BY <1>2, <1>6 DEF Truncated
  <2>2. Limited(f) = 0
    BY <1>2, <1>6 DEF Limited
  <2>3. Between(0, 0)
    BY <1>1 DEF Between
  <2>4. Between(f, gain) => Between(0, gain)
    BY <1>1, <1>2, <1>6 DEF Between
  <2> QED
    BY <1>1, <1>2, <1>6, <2>1, <2>2, <2>3, <2>4
<1>7. CASE 0 < f /\ f <= MaxGain * Scale
  <2>1. new * Scale <= f /\ f <= (new + 1) * Scale
    BY <1>2, <1>7 DEF Truncated
  <2>2. Limited(f) = f
    BY <1>2, <1>7 DEF Limited
  <2>3. f > gain * Scale => new >= gain
    <3>1. SUFFICES ASSUME new + 1 <= gain, f > gain * Scale PROVE FALSE
      BY <1>1
    <3> QED
      BY <1>1, <1>2, <1>4, <2>1, <3>1
  <2>4. f < (gain + 1) * Scale => new <= gain
    <3>1. SUFFICES ASSUME gain + 1 <= new, f < (gain + 1) * Scale PROVE FALSE
      BY <1>1
    <3> QED
      BY <1>1, <1>2, <1>4, <2>1, <3>1
  <2> QED
    BY <2>1, <2>2, <2>3, <2>4 DEF Between
<1> QED
  BY <1>2, <1>5, <1>6, <1>7

\* Both algorithms go the way of the error from a gain that the filtered one
\* belongs to, and without an error the two still belong together.
LEMMA AlgorithmMoves ==
  ASSUME TypeOK, NEW gain \in Gains, Between(filteredIfGain, gain),
         agcType # "Harris" => ifGainInDb = gain,
         NEW f \in IF agcType = "Harris" THEN runHarris ELSE runLowpass
  PROVE  /\ f \in Int
         /\ Error > 0 => f > gain * Scale
         /\ Error < 0 => f < (gain + 1) * Scale
         /\ Error = 0 => Between(f, gain)
<1> DEFINE low == gain * Scale
           high == (gain + 1) * Scale
<1>1. /\ alpha \in Nat \ {0} /\ Scale \in Nat \ {0} /\ Scale - alpha \in Nat
      /\ filteredIfGain \in Int /\ gain \in Nat /\ Error \in Int
  BY FilterRange, ScaleAssumption, GainsAssumption, ErrorType
  DEF TypeOK, SettingsOK, GainsOK, Gains, FilteredGains, Coefficients
<1>2. low \in Int /\ high = low + Scale /\ low <= filteredIfGain /\ filteredIfGain <= high
  BY <1>1 DEF Between
<1>3. f \in Int
  BY AlgorithmType
<1> DEFINE e == Error
           step == alpha * e
<1>4. e \in Int
  BY <1>1
<1> HIDE DEF e
<1>5. step \in Int /\ (e = 0 => step = 0) /\ (e > 0 => step > 0) /\ (e < 0 => step < 0)
  <2>1. (e >= 1 => 1 * alpha <= e * alpha) /\ (e <= -1 => e * alpha <= -1 * alpha)
    BY <1>1, <1>4, ProductGrows
  <2>2. step = e * alpha /\ (-1) * alpha = -alpha
    BY <1>1, <1>4
  <2> QED
    BY <1>1, <1>4, <2>1, <2>2
<1>6. CASE agcType = "Harris"
  <2>1. f = filteredIfGain + step
    BY <1>6 DEF runHarris, e
  <2> HIDE DEF step, low, high
  <2>2. /\ e > 0 => f > low
        /\ e < 0 => f < high
        /\ e = 0 => low <= f /\ f <= high
    BY <1>1, <1>2, <1>4, <1>5, <2>1
  <2> QED
    BY <1>3, <2>2 DEF e, low, high, Between
<1>7. CASE agcType # "Harris"
  <2> DEFINE n == alpha * Scale * (gain + e) + (Scale - alpha) * filteredIfGain
  <2>1. f \in {n \div Scale, -((-n) \div Scale)}
    BY <1>7 DEF runLowpass, e
  <2>2. n = Scale * (alpha * gain + step) + (Scale - alpha) * filteredIfGain
    <3>1. alpha * Scale * (gain + e) = Scale * (alpha * gain + alpha * e)
      BY <1>1, <1>4
    <3> QED
      BY <3>1
  <2>3. /\ low * (Scale - alpha) <= filteredIfGain * (Scale - alpha)
        /\ filteredIfGain * (Scale - alpha) <= high * (Scale - alpha)
    BY <1>1, <1>2, ProductGrows
  <2>4. n >= (low + step) * Scale
    <3>1. low * (Scale - alpha) = Scale * (gain * Scale) - Scale * (alpha * gain)
      BY <1>1
    <3>2. (low + step) * Scale = Scale * (gain * Scale) + Scale * step
      BY <1>1, <1>5
    <3>3. Scale * (alpha * gain + step) = Scale * (alpha * gain) + Scale * step
      BY <1>1, <1>5
    <3>4. (Scale - alpha) * filteredIfGain = filteredIfGain * (Scale - alpha)
      BY <1>1
    <3> DEFINE A == Scale * (alpha * gain)
               B == Scale * step
               C == Scale * (gain * Scale)
               D == filteredIfGain * (Scale - alpha)
    <3>5. A \in Int /\ B \in Int /\ C \in Int /\ D \in Int
      BY <1>1, <1>5
    <3>6. n = A + B + D /\ C - A <= D /\ (low + step) * Scale = C + B
      BY <2>2, <2>3, <3>1, <3>2, <3>3, <3>4
    <3> HIDE DEF A, B, C, D, n
    <3> QED
      BY <3>5, <3>6
  <2>5. n <= (high - alpha + step) * Scale
    <3>1. high * (Scale - alpha) = Scale * (gain * Scale) + Scale * Scale - Scale * (alpha * gain)
                                   - Scale * alpha
      BY <1>1
    <3>2. (high - alpha + step) * Scale = Scale * (gain * Scale) + Scale * Scale - Scale * alpha
                                          + Scale * step
      BY <1>1, <1>5
    <3>3. Scale * (alpha * gain + step) = Scale * (alpha * gain) + Scale * step
      BY <1>1, <1>5
    <3>4. (Scale - alpha) * filteredIfGain = filteredIfGain * (Scale - alpha)
      BY <1>1
    <3> DEFINE A == Scale * (alpha * gain)
               B == Scale * step
               C == Scale * (gain * Scale)
               D == filteredIfGain * (Scale - alpha)
               F == Scale * Scale
               H == Scale * alpha
    <3>5. A \in Int /\ B \in Int /\ C \in Int /\ D \in Int /\ F \in Int /\ H \in Int
      BY <1>1, <1>5
    <3>6. n = A + B + D /\ D <= C + F - A - H /\ (high - alpha + step) * Scale = C + F - H + B
      BY <2>2, <2>3, <3>1, <3>2, <3>3, <3>4
    <3> HIDE DEF A, B, C, D, F, H, n
    <3> QED
      BY <3>5, <3>6
  <2>6. n \in Int /\ low + step \in Int /\ high - alpha + step \in Int
    BY <1>1, <1>2, <1>4, <1>5
  <2> HIDE DEF n, step, low, high
  <2>7. low + step <= f /\ f <= high - alpha + step
    <3> DEFINE a == low + step
               b == high - alpha + step
    <3>1. /\ n \in Int /\ a \in Int /\ b \in Int /\ Scale \in Nat \ {0}
          /\ a * Scale <= n /\ n <= b * Scale
      BY <1>1, <2>4, <2>5, <2>6
    <3> HIDE DEF a, b
    <3>2. /\ a <= n \div Scale /\ a <= -((-n) \div Scale)
          /\ n \div Scale <= b /\ -((-n) \div Scale) <= b
      BY <3>1, QuotientBounds
    <3>3. a <= f /\ f <= b
      BY <2>1, <3>2
    <3> QED
      BY <3>3 DEF a, b
  <2>8. /\ e > 0 => f > low
        /\ e < 0 => f < high
        /\ e = 0 => low <= f /\ f <= high
    BY <1>1, <1>2, <1>3, <1>4, <1>5, <2>7
  <2> QED
    BY <1>3, <2>8 DEF e, low, high, Between
<1> QED
  BY <1>6, <1>7

\* As long as the radio's gain is the one the AGC set, the filtered gain belongs
\* to it; the AGC's own gain is the same when run begins; and between run and set
\* it has gone the way of the error, if at all.
GainInv ==
  /\ inStep /\ callback # "set" => Between(filteredIfGain, receiveIfGainInDb)
  /\ inStep /\ callback \in {"blank", "run"} => ifGainInDb = receiveIfGainInDb
  /\ callback = "set" => gainError # 0 /\ Between(filteredIfGain, ifGainInDb)
  /\ inStep /\ callback = "set" =>
       /\ gainError > 0 => ifGainInDb >= receiveIfGainInDb
       /\ gainError < 0 => ifGainInDb <= receiveIfGainInDb

\* Running the algorithm keeps the two gains together.
LEMMA RunMoves ==
  ASSUME TypeOK, GainInv, run PROVE GainInv'
<1>1. PICK f \in IF agcType = "Harris" THEN runHarris ELSE runLowpass :
        filteredIfGain' = Limited(f) /\ ifGainInDb' \in Truncated(f)
  BY DEF run
<1>2. /\ callback = "run" /\ callback' = (IF Error = 0 THEN "dequeue" ELSE "set")
      /\ gainError' = Error /\ UNCHANGED <<receiveIfGainInDb, inStep>>
  BY DEF run
<1>3. f \in Int /\ Error \in Int /\ receiveIfGainInDb \in Gains
  BY <1>1, AlgorithmType, ErrorType DEF TypeOK, GainsOK
<1>4. Between(filteredIfGain', ifGainInDb')
  BY <1>1, <1>3, TruncatedIs
<1>5. ifGainInDb' \in Gains
  BY <1>1, <1>3, LimitedType
<1>6. ASSUME inStep
      PROVE  /\ Error = 0 => Between(filteredIfGain', receiveIfGainInDb)
             /\ Error > 0 => ifGainInDb' >= receiveIfGainInDb
             /\ Error < 0 => ifGainInDb' <= receiveIfGainInDb
  <2>1. Between(filteredIfGain, receiveIfGainInDb) /\ ifGainInDb = receiveIfGainInDb
    BY <1>2, <1>6 DEF GainInv
  <2>2. /\ Error > 0 => f > receiveIfGainInDb * Scale
        /\ Error < 0 => f < (receiveIfGainInDb + 1) * Scale
        /\ Error = 0 => Between(f, receiveIfGainInDb)
    BY <1>1, <1>3, <2>1, AlgorithmMoves
  <2> QED
    BY <1>1, <1>3, <2>2, TruncatedIs
<1> QED
  BY <1>2, <1>3, <1>4, <1>6 DEF GainInv

\* Every step keeps the two gains together.
LEMMA GainInductive == TypeOK /\ GainInv /\ [Next]_vars => GainInv'
<1> SUFFICES ASSUME TypeOK, GainInv, [Next]_vars PROVE GainInv'
  OBVIOUS
<1>1. CASE run
  BY <1>1, RunMoves
<1>2. CASE set
  BY <1>2 DEF set, GainInv
<1>3. CASE sync
  BY <1>3 DEF sync, GainInv
<1>4. CASE takeBlock \/ testNotification \/ testEnabled \/ count \/ mark
  BY <1>4 DEF takeBlock, testNotification, testEnabled, count, mark, GainInv
<1>5. CASE blank
  BY <1>5 DEF blank, GainInv
<1>6. ASSUME NEW g \in UserGains, setReceiveIfGainInDb(g) PROVE GainInv'
  BY <1>6 DEF setReceiveIfGainInDb, GainInv
<1>7. CASE UNCHANGED <<filter, receiveIfGainInDb, callback, gainError, inStep>>
  BY <1>7 DEF GainInv
<1>8. ASSUME ~CallbackSteps, ~cmdSetRxIfGain
      PROVE  UNCHANGED <<filter, receiveIfGainInDb, callback, gainError, inStep>>
  BY <1>8 DEF Next, UiSteps, cmdSetAgcType, cmdSetAgcDeadband, cmdSetAgcBlank, cmdSetAgcLevel,
     cmdSetAgcAlpha, cmdEnableAgc, cmdDisableAgc, setType, setDeadband, setBlankingLimit,
     setOperatingPoint, setAgcFilterCoefficient, enable, disable, resetBlankingSystem, resetFlag,
     switchOn, notify, ignore, transmit, readBlock
<1> QED
  BY <1>1, <1>2, <1>3, <1>4, <1>5, <1>6, <1>7, <1>8 DEF CallbackSteps, cmdSetRxIfGain

\* At first the filtered gain is the radio's.
LEMMA InitGain == Init => GainInv
<1> SUFFICES ASSUME Init PROVE GainInv
  OBVIOUS
<1>1. /\ filteredIfGain = InitialGain * Scale /\ receiveIfGainInDb = InitialGain
      /\ callback = "dequeue"
  BY DEF Init
<1>2. Between(InitialGain * Scale, InitialGain)
  BY GainsAssumption, ScaleAssumption DEF Between, Gains
<1> QED
  BY <1>1, <1>2 DEF GainInv

\* As long as the radio's gain is the one the AGC last set, the AGC turns it up
\* when the signal is too weak and down when it is too strong: for any amplifier,
\* either algorithm, any coefficient, and the gain truncated in floats.
THEOREM StepsTheRightWay == Spec => StepsTowardsOperatingPoint
<1>1. TypeOK /\ GainInv /\ [Next]_vars
      => [AdjustsGain /\ inStep
            => (receiveIfGainInDb' > receiveIfGainInDb <=> gainError > 0)]_vars
  <2> SUFFICES ASSUME TypeOK, GainInv, [Next]_vars, AdjustsGain, inStep
               PROVE  receiveIfGainInDb' > receiveIfGainInDb <=> gainError > 0
    OBVIOUS
  <2>1. set
    BY DEF AdjustsGain, Next, UiSteps, CallbackSteps, cmdSetAgcType, cmdSetAgcDeadband,
       cmdSetAgcBlank, cmdSetAgcLevel, cmdSetAgcAlpha, cmdSetRxIfGain, cmdEnableAgc, cmdDisableAgc,
       setType, setDeadband, setBlankingLimit, setOperatingPoint, setAgcFilterCoefficient,
       setReceiveIfGainInDb, enable, disable, resetBlankingSystem, resetFlag, switchOn, notify,
       ignore, transmit, readBlock, takeBlock, testNotification, testEnabled, sync, blank, count,
       run, mark
  <2>2. receiveIfGainInDb' = ifGainInDb /\ ifGainInDb # receiveIfGainInDb
    BY <2>1 DEF set, AdjustsGain
  <2>3. ifGainInDb \in Int /\ receiveIfGainInDb \in Int /\ gainError \in Int
    BY GainsAssumption DEF TypeOK, GainsOK, Gains
  <2>4. /\ gainError # 0
        /\ gainError > 0 => ifGainInDb >= receiveIfGainInDb
        /\ gainError < 0 => ifGainInDb <= receiveIfGainInDb
    BY DEF GainInv, AdjustsGain
  <2> QED
    BY <2>2, <2>3, <2>4
<1> QED
  BY <1>1, InitType, InitGain, TypeInductive, GainInductive, PTL
  DEF Spec, StepsTowardsOperatingPoint
=============================================================================
