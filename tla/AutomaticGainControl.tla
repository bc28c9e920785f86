------------------------ MODULE AutomaticGainControl ------------------------
(***************************************************************************)
(* The automatic gain control of the IF amplifier                           *)
(* (src/radioDiags/src_diags/AutomaticGainControl.cc).                      *)
(*                                                                          *)
(* The loop is closed through the pipeline: the data consumer thread judges *)
(* a block of samples, sets the gain, and goes on to blocks that were read, *)
(* in part or as a whole, with the gain of before.  Blanking ignores some   *)
(* of them.  The user sets parameters, switches the AGC and sets the gain   *)
(* himself, with no lock towards the AGC.                                   *)
(*                                                                          *)
(* Levels and gains are whole decibels, the tuner's amplifier and the level *)
(* at the antenna tenths of a decibel.  The filtered gain is a float in the *)
(* program: here it counts in 1/Scale dB, and a float that falls on a whole *)
(* number may truncate to it or to the number below.  The receiver runs     *)
(* throughout.                                                              *)
(***************************************************************************)
EXTENDS Integers, Sequences

CONSTANTS MaxGain,           \* MAX_ADJUSTIBLE_GAIN
          VgaGain,           \* what the tuner makes of a gain asked for
          FullScaleInDb,     \* decibels between magnitude 1 and full scale
          InitialGain,       \* 24 dB
          Scale,             \* grid of the filtered gain
          Levels,            \* signal levels at the antenna
          Deadbands, BlankingLimits, OperatingPoints, Alphas, UserGains,
                             \* what the user may ask for
          InitialDeadband, InitialBlankingLimit, InitialOperatingPoint,
          InitialAlpha,      \* what they are before he does
          MaxBehind,         \* bound on the blocks read and not yet judged
          MaxDisturbances    \* bound on commands, changes of the signal and
                             \* refused settings

Gains == 0 .. MaxGain
FilteredGains == 0 .. MaxGain * Scale
Coefficients == 1 .. Scale - 1
Types == {"Lowpass", "Harris"}

ASSUME GainsAssumption ==
  MaxGain \in Nat /\ InitialGain \in Gains /\ UserGains \subseteq Gains
ASSUME DriverAssumption ==
  VgaGain \in [Gains -> Int] /\ Levels \subseteq Int /\ FullScaleInDb \in Nat
ASSUME ScaleAssumption == Scale \in Nat \ {0}
ASSUME ParametersAssumption ==
  /\ Deadbands \subseteq Nat /\ InitialDeadband \in 0 .. 10
  /\ BlankingLimits \subseteq Nat /\ InitialBlankingLimit \in 0 .. 10
  /\ OperatingPoints \subseteq Int /\ InitialOperatingPoint \in Int
  /\ Alphas \subseteq Coefficients /\ InitialAlpha \in Coefficients
ASSUME BoundsAssumption == MaxBehind \in Nat /\ MaxDisturbances \in Nat

VARIABLES agcType, deadbandInDb, operatingPointInDbFs, alpha, blankingLimit,
          blankingCounter, receiveGainWasAdjusted,
          enabled,
          notificationEnabled,  \* IqDataProcessor's switch for the AGC
          ifGainInDb,           \* the AGC's idea of the gain
          filteredIfGain,       \* filteredIfGainInDb, in 1/Scale dB
          receiveIfGainInDb,    \* the radio's gain
          ui,                   \* where the user interface thread is
          callback,             \* where the data consumer thread is
          block,                \* the block it judges
          counted,              \* the blankingCounter it has added one to
          gainError,            \* what it found
          level,                \* the signal at the antenna
          begun,                \* the block being read
          blocks,               \* blocks read and not yet judged
          inStep,               \* history: nobody but the AGC has set the gain
                                \* since it last did, and it was not refused
          forgiven,             \* history: since the AGC last set the gain
                                \* somebody reset the blanking, or then the
                                \* counter was not at zero
          disturbances

settings == <<agcType, deadbandInDb, operatingPointInDbFs, alpha, blankingLimit>>
blanking == <<blankingCounter, receiveGainWasAdjusted>>
switches == <<enabled, notificationEnabled>>
filter == <<ifGainInDb, filteredIfGain>>
thread == <<callback, block, counted, gainError>>
air == <<level, begun, blocks>>
history == <<inStep, forgiven>>
vars == <<settings, blanking, switches, filter, receiveIfGainInDb, ui, thread,
          air, history, disturbances>>

\* Squelch and DbfsCalculator: a block's level referred to full scale, for a
\* signal at the antenna and a gain setting.
Measured(l, g) == LET dbFs == (l + VgaGain[g]) \div 10 IN
                  IF dbFs > 0 THEN 0
                  ELSE IF dbFs < -FullScaleInDb THEN -FullScaleInDb ELSE dbFs

Init == /\ agcType = "Harris"
        /\ deadbandInDb = InitialDeadband
        /\ operatingPointInDbFs = InitialOperatingPoint
        /\ alpha = InitialAlpha
        /\ blankingLimit = InitialBlankingLimit
        /\ blankingCounter = 0
        /\ receiveGainWasAdjusted = FALSE
        /\ enabled = FALSE
        /\ notificationEnabled = FALSE
        /\ ifGainInDb = InitialGain
        /\ filteredIfGain = InitialGain * Scale
        /\ receiveIfGainInDb = InitialGain
        /\ ui = "idle"
        /\ callback = "dequeue"
        /\ level \in Levels
        /\ block = [signal |-> Measured(level, InitialGain), stale |-> FALSE]
        /\ begun = block
        /\ counted = 0
        /\ gainError = 0
        /\ blocks = <<>>
        /\ inStep = TRUE
        /\ forgiven = FALSE
        /\ disturbances = 0
----------------------------------------------------------------------------
(* The user interface thread.                                               *)

Disturbance == /\ disturbances < MaxDisturbances
               /\ disturbances' = disturbances + 1

Command(next) == /\ ui = "idle" /\ ui' = next
                 /\ Disturbance
                 /\ UNCHANGED <<filter, thread, air>>

setType(type) ==
  /\ Command("idle")
  /\ agcType' = type
  /\ UNCHANGED <<deadbandInDb, operatingPointInDbFs, alpha, blankingLimit,
                 blanking, switches, receiveIfGainInDb, history>>

setDeadband(deadband) ==
  /\ Command("idle") /\ deadband <= 10
  /\ deadbandInDb' = deadband
  /\ UNCHANGED <<agcType, operatingPointInDbFs, alpha, blankingLimit, blanking,
                 switches, receiveIfGainInDb, history>>

setOperatingPoint(operatingPoint) ==
  /\ Command("idle")
  /\ operatingPointInDbFs' = operatingPoint
  /\ UNCHANGED <<agcType, deadbandInDb, alpha, blankingLimit, blanking, switches,
                 receiveIfGainInDb, history>>

setAgcFilterCoefficient(coefficient) ==
  /\ Command("idle")
  /\ alpha' = coefficient
  /\ UNCHANGED <<agcType, deadbandInDb, operatingPointInDbFs, blankingLimit,
                 blanking, switches, receiveIfGainInDb, history>>

setBlankingLimit(limit) ==
  /\ Command("reset") /\ limit <= 10
  /\ blankingLimit' = limit
  /\ forgiven' = TRUE
  /\ UNCHANGED <<agcType, deadbandInDb, operatingPointInDbFs, alpha, blanking,
                 switches, receiveIfGainInDb, inStep>>

\* The user sets the gain, whatever the AGC does.
setReceiveIfGainInDb(gain) ==
  /\ Command("idle")
  /\ receiveIfGainInDb' = gain
  /\ inStep' = FALSE
  /\ UNCHANGED <<settings, blanking, switches, forgiven>>

UiGoes(from, to) == /\ ui = from /\ ui' = to
                    /\ UNCHANGED <<settings, filter, receiveIfGainInDb, thread,
                                   air, disturbances>>

\* enable and disable: the AGC's switch, and IqDataProcessor's.
enable == /\ Command("resetAndEnable") /\ ~enabled
          /\ UNCHANGED <<settings, blanking, switches, receiveIfGainInDb, history>>

\* Two stores, with the callback in between.
resetBlankingSystem == /\ \/ UiGoes("reset", "resetFlag")
                          \/ UiGoes("resetAndEnable", "resetFlagAndEnable")
                       /\ blankingCounter' = 0
                       /\ forgiven' = TRUE
                       /\ UNCHANGED <<receiveGainWasAdjusted, switches, inStep>>

resetFlag == /\ \/ UiGoes("resetFlag", "idle")
                \/ UiGoes("resetFlagAndEnable", "enable")
             /\ receiveGainWasAdjusted' = FALSE
             /\ forgiven' = TRUE
             /\ UNCHANGED <<blankingCounter, switches, inStep>>

switchOn == /\ UiGoes("enable", "notify")
            /\ enabled' = TRUE
            /\ UNCHANGED <<blanking, notificationEnabled, history>>

notify == /\ UiGoes("notify", "idle")
          /\ notificationEnabled' = TRUE
          /\ UNCHANGED <<blanking, enabled, history>>

disable == /\ Command("ignore") /\ enabled
           /\ enabled' = FALSE
           /\ UNCHANGED <<settings, blanking, notificationEnabled,
                          receiveIfGainInDb, history>>

ignore == /\ UiGoes("ignore", "idle")
          /\ notificationEnabled' = FALSE
          /\ UNCHANGED <<blanking, enabled, history>>

(* The commands.  A parameter the AGC refuses changes nothing.  One that is  *)
(* missing leaves the command's variable as it was found on the stack: that  *)
(* value is asked for, so any that follows here.                             *)
cmdSetAgcType == \E type \in Types : setType(type)
cmdSetAgcDeadband == \E deadband \in Deadbands : setDeadband(deadband)
cmdSetAgcBlank == \E limit \in BlankingLimits : setBlankingLimit(limit)
cmdSetAgcLevel == \E dbFs \in OperatingPoints : setOperatingPoint(dbFs)
cmdSetAgcAlpha == \E coefficient \in Alphas : setAgcFilterCoefficient(coefficient)
cmdSetRxIfGain == \E gain \in UserGains : setReceiveIfGainInDb(gain)
cmdEnableAgc == enable
cmdDisableAgc == disable
----------------------------------------------------------------------------
(* The data consumer thread: one block through the callback and run.        *)

CallbackGoes(from, to) ==
  /\ callback = from /\ callback' = to
  /\ UNCHANGED <<settings, switches, ui, level>>

takeBlock == /\ CallbackGoes("dequeue", "notify")
             /\ blocks # <<>>
             /\ block' = Head(blocks)
             /\ blocks' = Tail(blocks)
             /\ UNCHANGED <<blanking, filter, receiveIfGainInDb, counted, gainError, begun,
                            history, disturbances>>

Rest == UNCHANGED <<receiveIfGainInDb, block, begun, blocks, history,
                    disturbances>>

testNotification ==
  /\ CallbackGoes("notify", IF notificationEnabled THEN "check" ELSE "dequeue")
  /\ Rest /\ UNCHANGED <<blanking, filter, counted, gainError>>

testEnabled == /\ CallbackGoes("check", IF enabled THEN "sync" ELSE "dequeue")
               /\ Rest /\ UNCHANGED <<blanking, filter, counted, gainError>>

\* Somebody else may have set the radio's gain.
sync == /\ CallbackGoes("sync", "blank")
        /\ ifGainInDb' = receiveIfGainInDb
        /\ Rest /\ UNCHANGED <<blanking, filteredIfGain, counted, gainError>>

\* Faulty variant: the interval is one block too short.
StillBlankedOneLess == receiveGainWasAdjusted /\ blankingCounter + 1 < blankingLimit

\* After an adjustment blankingLimit blocks are ignored.
StillBlanked == receiveGainWasAdjusted /\ blankingCounter < blankingLimit

blank == /\ \/ /\ StillBlanked
               /\ CallbackGoes("blank", "count")
               /\ counted' = blankingCounter + 1
               /\ UNCHANGED blanking
            \/ /\ ~StillBlanked /\ receiveGainWasAdjusted
               /\ CallbackGoes("blank", "run")
               /\ blankingCounter' = 0
               /\ receiveGainWasAdjusted' = FALSE
               /\ UNCHANGED counted
            \/ /\ ~receiveGainWasAdjusted
               /\ CallbackGoes("blank", "run")
               /\ UNCHANGED <<blanking, counted>>
         /\ Rest /\ UNCHANGED <<filter, gainError>>

count == /\ CallbackGoes("count", "dequeue")
         /\ blankingCounter' = counted
         /\ counted' = 0
         /\ Rest /\ UNCHANGED <<receiveGainWasAdjusted, filter, gainError>>

\* Nothing is corrected at the rails of the gain.
AtRail(gain, error) == \/ gain = MaxGain /\ error > 0
                       \/ gain = 0 /\ error < 0

InDeadband(error) == -deadbandInDb <= error /\ error <= deadbandInDb

Deviation(signal) == operatingPointInDbFs - signal

Error == LET error == Deviation(block.signal) IN
         IF AtRail(ifGainInDb, error) \/ InDeadband(error) THEN 0 ELSE error

\* Faulty variant: the error has the wrong sign.
HarrisBackwards == {filteredIfGain - alpha * Error}

\* The filtered gain before its limits are applied.  The float lies between two
\* points of the grid: the result is one or the other.
runHarris == {filteredIfGain + alpha * Error}

runLowpass ==
  LET n == alpha * Scale * (ifGainInDb + Error) + (Scale - alpha) * filteredIfGain
  IN  {n \div Scale, -((-n) \div Scale)}

\* Faulty variant: the filtered gain runs away at the rails.
NotLimited(f) == f

Limited(f) == IF f > MaxGain * Scale THEN MaxGain * Scale
              ELSE IF f < 0 THEN 0 ELSE f

Truncated(f) == IF f > MaxGain * Scale THEN {MaxGain}
                ELSE IF f <= 0 THEN {0}
                ELSE {g \in Gains : g * Scale <= f /\ f <= (g + 1) * Scale}

run == /\ CallbackGoes("run", IF Error = 0 THEN "dequeue" ELSE "set")
       /\ gainError' = Error
       /\ \E f \in IF agcType = "Harris" THEN runHarris ELSE runLowpass :
            /\ filteredIfGain' = Limited(f)
            /\ ifGainInDb' \in Truncated(f)
       /\ Rest /\ UNCHANGED <<blanking, counted>>

\* Blocks read so far, and the one being read, are of the gain of before.
Stale(b) == [b EXCEPT !.stale = TRUE]

\* The radio sets the gain, or the driver refuses it: run does not look.
set == /\ CallbackGoes("set", "mark")
       /\ \/ /\ receiveIfGainInDb' = ifGainInDb
             /\ inStep' = TRUE
             /\ begun' = Stale(begun)
             /\ blocks' = [i \in DOMAIN blocks |-> Stale(blocks[i])]
             /\ UNCHANGED disturbances
          \/ /\ Disturbance
             /\ inStep' = FALSE
             /\ UNCHANGED <<receiveIfGainInDb, begun, blocks>>
       /\ forgiven' = (blankingCounter # 0)
       /\ UNCHANGED <<blanking, filter, block, counted, gainError>>

mark == /\ CallbackGoes("mark", "dequeue")
        /\ receiveGainWasAdjusted' = TRUE
        /\ gainError' = 0
        /\ Rest /\ UNCHANGED <<blankingCounter, filter, counted>>
----------------------------------------------------------------------------
(* The air and the event consumer thread.                                   *)

transmit == /\ level' \in Levels
            /\ Disturbance
            /\ UNCHANGED <<settings, blanking, switches, filter,
                           receiveIfGainInDb, ui, thread, begun, blocks, history>>

\* A block is complete and the next one begins.  A change of gain or signal
\* that falls into a block shows in it or does not.
readBlock ==
  /\ Len(blocks) + (IF callback = "dequeue" THEN 0 ELSE 1) < MaxBehind
  /\ LET now == Measured(level, receiveIfGainInDb) IN
       /\ \E s \in {begun.signal, now} :
            blocks' = Append(blocks, [signal |-> s, stale |-> begun.stale])
       /\ begun' = [signal |-> now, stale |-> FALSE]
  /\ UNCHANGED <<settings, blanking, switches, filter, receiveIfGainInDb, ui,
                 thread, level, history, disturbances>>
----------------------------------------------------------------------------
UiSteps == resetBlankingSystem \/ resetFlag \/ switchOn \/ notify \/ ignore

CallbackSteps == \/ takeBlock \/ testNotification \/ testEnabled \/ sync
                 \/ blank \/ count \/ run \/ set \/ mark

Next == \/ cmdSetAgcType \/ cmdSetAgcDeadband \/ cmdSetAgcBlank
        \/ cmdSetAgcLevel \/ cmdSetAgcAlpha \/ cmdSetRxIfGain
        \/ cmdEnableAgc \/ cmdDisableAgc
        \/ UiSteps
        \/ CallbackSteps
        \/ transmit
        \/ readBlock

Spec == Init /\ [][Next]_vars

\* Both threads are scheduled and blocks keep coming.
FairSpec == /\ Spec
            /\ WF_vars(UiSteps) /\ WF_vars(CallbackSteps) /\ WF_vars(readBlock)
----------------------------------------------------------------------------
Signals == -FullScaleInDb .. 0
Block == [signal : Signals, stale : BOOLEAN]

SettingsOK == /\ agcType \in Types
              /\ deadbandInDb \in 0 .. 10
              /\ operatingPointInDbFs \in Int
              /\ alpha \in Coefficients
              /\ blankingLimit \in 0 .. 10

FlagsOK == /\ receiveGainWasAdjusted \in BOOLEAN
           /\ enabled \in BOOLEAN
           /\ notificationEnabled \in BOOLEAN
           /\ inStep \in BOOLEAN
           /\ forgiven \in BOOLEAN

GainsOK == /\ ifGainInDb \in Gains
           /\ filteredIfGain \in FilteredGains
           /\ receiveIfGainInDb \in Gains
           /\ gainError \in Int

CountersOK == /\ blankingCounter \in 0 .. 10
              /\ counted \in 0 .. 10
              /\ disturbances \in 0 .. MaxDisturbances

PlacesOK == /\ ui \in {"idle", "reset", "resetAndEnable", "resetFlag",
                       "resetFlagAndEnable", "enable", "notify", "ignore"}
            /\ callback \in {"dequeue", "notify", "check", "sync", "blank",
                             "count", "run", "set", "mark"}

AirOK == /\ level \in Levels
         /\ block \in Block
         /\ begun \in Block
         /\ blocks \in Seq(Block) /\ Len(blocks) <= MaxBehind

TypeOK == SettingsOK /\ FlagsOK /\ GainsOK /\ CountersOK /\ PlacesOK /\ AirOK

\* Blanking does what it is for: the AGC never corrects, a second time, an error
\* it has corrected already, seen in a block read with the gain of before.  It
\* takes a limit that covers the blocks under way, and nobody who resets the
\* blanking in the middle of the interval, or of the last one in the middle of an
\* increment: that one is lost and shortens the next interval.
NoDoubleCorrection ==
  [][callback = "run" /\ callback' = "set"
       => ~block.stale \/ forgiven \/ blankingLimit < MaxBehind]_vars

AdjustsGain == /\ callback = "set" /\ callback' = "mark"
               /\ receiveIfGainInDb' # receiveIfGainInDb

\* Whatever the algorithm, the coefficient and the rounding: the AGC turns the
\* gain up when the signal is too weak and down when it is too strong, as long as
\* the radio's gain is the one it last set.
StepsTowardsOperatingPoint ==
  [][AdjustsGain /\ inStep
       => (receiveIfGainInDb' > receiveIfGainInDb <=> gainError > 0)]_vars

\* "g(n+1) = g(n) + [alpha * e(n)]": the same of any gain the AGC finds the radio
\* set to.  When the user has set it, sync takes it over into ifGainInDb, but run
\* goes on from filteredIfGainInDb, which still holds the gain of before.
StepsFromPresentGain ==
  [][callback = "run" /\ callback' = "set" /\ ifGainInDb = receiveIfGainInDb
     /\ ifGainInDb' # ifGainInDb
       => (ifGainInDb' > ifGainInDb <=> gainError' > 0)]_vars

\* The gain is where the AGC wants it: the signal within the deadband, or out of
\* the amplifier's reach.
Settled ==
  LET error == Deviation(Measured(level, receiveIfGainInDb)) IN
    InDeadband(error) \/ AtRail(receiveIfGainInDb, error)

LiesBetween(a, x, b) == (a < x /\ x < b) \/ (b < x /\ x < a)

\* The gains that put the amplifier one of its steps up or down.
NextSteps == [g \in Gains |->
  {h \in Gains : /\ VgaGain[h] # VgaGain[g]
                 /\ \A k \in Gains : ~LiesBetween(VgaGain[g], VgaGain[k], VgaGain[h])}]

\* The operating point lies between the present step of the amplifier and a
\* neighbouring one.
BetweenSteps ==
  \E g \in NextSteps[receiveIfGainInDb] :
    Deviation(Measured(level, receiveIfGainInDb)) * Deviation(Measured(level, g)) <= 0

\* A constant signal ends up at the operating point or no further from it than
\* one step of the amplifier, and stays there, whatever the user and the signal
\* did before, if blanking covers the blocks under way.  The comment "Apply
\* deadband to eliminate gain oscillations" says more, that the gain comes to
\* rest: with the constructor's deadband of 1 dB it goes back and forth between
\* two neighbouring steps for ever when neither is within the deadband.
EndsNearOperatingPoint ==
  <>[](enabled /\ notificationEnabled /\ blankingLimit >= MaxBehind)
    => <>[](Settled \/ BetweenSteps)
=============================================================================
