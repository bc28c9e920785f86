-------------------------- MODULE FrequencyScanner --------------------------
(***************************************************************************)
(* The frequency scanner                                                    *)
(* (src/radioDiags/src_diags/FrequencyScanner.cc).                          *)
(*                                                                          *)
(* The scanner has no thread.  The user interface thread configures, starts *)
(* and stops it; the data consumer thread steps it from inside the          *)
(* notification that IqDataProcessor::acceptIqData sends for every block of *)
(* samples.  The two share the scanner's fields with no lock.               *)
(*                                                                          *)
(* The blocks the scanner judges come out of a pipeline: while one is read, *)
(* others wait in the queue, and all of them were received on the frequency *)
(* the radio was tuned to then.  The receiver is running throughout.        *)
(***************************************************************************)
EXTENDS Integers, Sequences

CONSTANTS Scans,          \* what the user may ask for: start, end, increment
          Frequencies,    \* where there may be a transmission
          HandTuned,      \* what the user may tune the radio to
          HomeFrequency,  \* 162550000 Hz, where everything starts
          LowestFrequency, HighestFrequency,  \* what a scan is allowed to span
          MaxBehind,      \* bound on the blocks waiting in the queue
          TuningMayFail   \* may the driver refuse a frequency

ASSUME ScansAssumption == Scans \subseteq [start : Nat, end : Nat, increment : Int]
ASSUME FrequenciesAssumption ==
  /\ Frequencies \subseteq Nat /\ HandTuned \subseteq Nat /\ HomeFrequency \in Nat
  /\ LowestFrequency \in Nat /\ HighestFrequency \in Nat
ASSUME BoundsAssumption == MaxBehind \in Nat /\ TuningMayFail \in BOOLEAN

VARIABLES scannerState,
          startFrequency, endFrequency, frequencyIncrement,
          newConfigurationAvailable,
          currentFrequency,
          signalNotificationEnabled,  \* IqDataProcessor's switch
          receiveFrequency,           \* what the radio is tuned to
          ui,              \* where the user interface thread is
          asked,           \* the parameters of its setScanParameters
          callback,        \* where the data consumer thread is
          step,            \* the frequency it computes, in a register
          signalState,     \* SignalTracker.state
          signalAllowed,   \* the squelch's verdict on the block
          active,          \* frequencies somebody transmits on
          readFrequency,   \* receiveFrequency when the block now read began
          blocks,          \* the queue: is there a signal in the block
          overlap          \* history: a notification was under way when the
                           \* parameters were set

parameters == <<startFrequency, endFrequency, frequencyIncrement,
                newConfigurationAvailable>>
uiVars == <<scannerState, parameters, signalNotificationEnabled, ui, asked,
            overlap>>
callbackVars == <<callback, step, signalState, signalAllowed>>
airVars == <<active, readFrequency>>
vars == <<uiVars, callbackVars, airVars, blocks, currentFrequency,
          receiveFrequency>>

Init == /\ scannerState = "Idle"
        /\ startFrequency = HomeFrequency
        /\ endFrequency = HomeFrequency
        /\ frequencyIncrement = 0
        /\ newConfigurationAvailable = FALSE
        /\ currentFrequency = HomeFrequency
        /\ signalNotificationEnabled = FALSE
        /\ receiveFrequency = HomeFrequency
        /\ ui = "idle"
        /\ asked = [start |-> HomeFrequency, end |-> HomeFrequency, increment |-> 0]
        /\ callback = "dequeue"
        /\ step = HomeFrequency
        /\ signalState = "NoSignal"
        /\ signalAllowed = FALSE
        /\ active = {}
        /\ readFrequency = HomeFrequency
        /\ blocks = <<>>
        /\ overlap = FALSE

\* Radio::setReceiveFrequency: a frequency the driver refuses leaves the radio
\* where it is.
setReceiveFrequency(f) == \/ receiveFrequency' = f
                          \/ TuningMayFail /\ UNCHANGED receiveFrequency

\* A notification has found the scanner scanning and is not through yet.
Stepping == callback \in {"load", "store", "wrap", "tune"}
----------------------------------------------------------------------------
(* The user interface thread.                                               *)

UiOnly == UNCHANGED <<callbackVars, airVars, blocks>>

\* Faulty variant: the parameters can be set while the scanner scans.
setScanParametersAnyTime(s) ==
  /\ ui = "idle"
  /\ startFrequency' = s.start
  /\ asked' = s
  /\ overlap' = Stepping
  /\ ui' = "setEnd"
  /\ UiOnly
  /\ UNCHANGED <<scannerState, endFrequency, frequencyIncrement,
                 newConfigurationAvailable, signalNotificationEnabled,
                 currentFrequency, receiveFrequency>>

setScanParameters(s) ==
  /\ ui = "idle" /\ scannerState = "Idle"
  /\ startFrequency' = s.start
  /\ asked' = s
  /\ overlap' = Stepping
  /\ ui' = "setEnd"
  /\ UiOnly
  /\ UNCHANGED <<scannerState, endFrequency, frequencyIncrement,
                 newConfigurationAvailable, signalNotificationEnabled,
                 currentFrequency, receiveFrequency>>

setEnd == /\ ui = "setEnd" /\ ui' = "setIncrement"
          /\ endFrequency' = asked.end
          /\ UiOnly
          /\ UNCHANGED <<scannerState, startFrequency, frequencyIncrement,
                         newConfigurationAvailable, asked, overlap,
                         signalNotificationEnabled, currentFrequency,
                         receiveFrequency>>

setIncrement == /\ ui = "setIncrement" /\ ui' = "idle"
                /\ frequencyIncrement' = asked.increment
                /\ newConfigurationAvailable' = TRUE
                /\ UiOnly
                /\ UNCHANGED <<scannerState, startFrequency, endFrequency, asked,
                               overlap, signalNotificationEnabled,
                               currentFrequency, receiveFrequency>>

\* start: with new parameters the scan begins at the end, so that the first step
\* wraps to the beginning; else it goes on where it was.
start == /\ ui = "idle" /\ scannerState = "Idle"
         /\ \/ /\ newConfigurationAvailable
               /\ currentFrequency' = endFrequency
               /\ ui' = "tuneToEnd"
            \/ /\ ~newConfigurationAvailable
               /\ ui' = "scan"
               /\ UNCHANGED currentFrequency
         /\ UiOnly
         /\ UNCHANGED <<scannerState, parameters, asked, overlap,
                        signalNotificationEnabled, receiveFrequency>>

tuneToEnd == /\ ui = "tuneToEnd" /\ ui' = "scan"
             /\ setReceiveFrequency(endFrequency)
             /\ newConfigurationAvailable' = FALSE
             /\ UiOnly
             /\ UNCHANGED <<scannerState, startFrequency, endFrequency,
                            frequencyIncrement, asked, overlap,
                            signalNotificationEnabled, currentFrequency>>

scan == /\ ui = "scan" /\ ui' = "notify"
        /\ scannerState' = "Scanning"
        /\ UiOnly
        /\ UNCHANGED <<parameters, asked, overlap, signalNotificationEnabled,
                       currentFrequency, receiveFrequency>>

notify == /\ ui = "notify" /\ ui' = "idle"
          /\ signalNotificationEnabled' = TRUE
          /\ UiOnly
          /\ UNCHANGED <<scannerState, parameters, asked, overlap,
                         currentFrequency, receiveFrequency>>

stop == /\ ui = "idle" /\ scannerState = "Scanning"
        /\ scannerState' = "Idle"
        /\ ui' = "ignore"
        /\ UiOnly
        /\ UNCHANGED <<parameters, asked, overlap, signalNotificationEnabled,
                       currentFrequency, receiveFrequency>>

ignore == /\ ui = "ignore" /\ ui' = "idle"
          /\ signalNotificationEnabled' = FALSE
          /\ UiOnly
          /\ UNCHANGED <<scannerState, parameters, asked, overlap,
                         currentFrequency, receiveFrequency>>

\* The command that tunes the radio by hand.
setRxFrequency(f) == /\ ui = "idle"
                     /\ setReceiveFrequency(f)
                     /\ UiOnly
                     /\ UNCHANGED <<scannerState, parameters, asked, overlap, ui,
                                    signalNotificationEnabled, currentFrequency>>

(* The commands.  The scan has to begin in the receiver's range and to end   *)
(* there, upwards; a step downwards is taken as one upwards.                 *)
InReceiverRange(s) == /\ LowestFrequency <= s.start /\ s.start < s.end
                      /\ s.end <= HighestFrequency

Upwards(s) == [s EXCEPT !.increment = IF @ < 0 THEN -@ ELSE @]

cmdSetFscanValues ==
  \E s \in Scans : InReceiverRange(s) /\ setScanParameters(Upwards(s))
cmdStartFscan == start
cmdStopFscan == stop
cmdSetRxFrequency == \E f \in HandTuned : setRxFrequency(f)
----------------------------------------------------------------------------
(* The data consumer thread: one block through acceptIqData.                *)

CallbackOnly == UNCHANGED <<uiVars, airVars>>

\* Squelch::run: the block after the last one with a signal is let through too.
squelch == /\ callback = "dequeue" /\ blocks # <<>>
           /\ signalAllowed' = (Head(blocks) \/ signalState = "Tracking")
           /\ signalState' = IF Head(blocks) THEN "Tracking" ELSE "NoSignal"
           /\ blocks' = Tail(blocks)
           /\ callback' = "notify"
           /\ CallbackOnly
           /\ UNCHANGED <<step, currentFrequency, receiveFrequency>>

\* acceptIqData: is the notification enabled?
testNotification ==
  /\ callback = "notify"
  /\ callback' = IF signalNotificationEnabled THEN "check" ELSE "dequeue"
  /\ CallbackOnly
  /\ UNCHANGED <<step, signalState, signalAllowed, blocks, currentFrequency,
                 receiveFrequency>>

\* signalStateCallback and the first test of run.
testScanning ==
  /\ callback = "check"
  /\ callback' = IF scannerState = "Scanning" /\ ~signalAllowed
                 THEN "load" ELSE "dequeue"
  /\ CallbackOnly
  /\ UNCHANGED <<step, signalState, signalAllowed, blocks, currentFrequency,
                 receiveFrequency>>

\* Faulty variant: the step has the wrong sign.
loadDownwards == /\ callback = "load" /\ callback' = "store"
                 /\ step' = currentFrequency - frequencyIncrement
                 /\ CallbackOnly
                 /\ UNCHANGED <<signalState, signalAllowed, blocks,
                                currentFrequency, receiveFrequency>>

load == /\ callback = "load" /\ callback' = "store"
        /\ step' = currentFrequency + frequencyIncrement
        /\ CallbackOnly
        /\ UNCHANGED <<signalState, signalAllowed, blocks, currentFrequency,
                       receiveFrequency>>

store == /\ callback = "store" /\ callback' = "wrap"
         /\ currentFrequency' = step
         /\ CallbackOnly
         /\ UNCHANGED <<step, signalState, signalAllowed, blocks,
                        receiveFrequency>>

\* Faulty variant: the scan turns back one step early.
wrapAtEnd == /\ callback = "wrap" /\ callback' = "tune"
             /\ \/ /\ step >= endFrequency
                   /\ step' = startFrequency
                   /\ currentFrequency' = startFrequency
                \/ step < endFrequency /\ UNCHANGED <<step, currentFrequency>>
             /\ CallbackOnly
             /\ UNCHANGED <<signalState, signalAllowed, blocks, receiveFrequency>>

\* Past the end the scan goes back to the beginning.
wrap == /\ callback = "wrap" /\ callback' = "tune"
        /\ \/ /\ step > endFrequency
              /\ step' = startFrequency
              /\ currentFrequency' = startFrequency
           \/ step <= endFrequency /\ UNCHANGED <<step, currentFrequency>>
        /\ CallbackOnly
        /\ UNCHANGED <<signalState, signalAllowed, blocks, receiveFrequency>>

tune == /\ callback = "tune" /\ callback' = "dequeue"
        /\ setReceiveFrequency(step)
        /\ step' = HomeFrequency  \* the register is dead from here to the next load
        /\ CallbackOnly
        /\ UNCHANGED <<signalState, signalAllowed, blocks, currentFrequency>>
----------------------------------------------------------------------------
(* The air and the event consumer thread.                                   *)

\* A transmission begins or ends.
transmit == /\ \/ \E f \in Frequencies : active' = {f}
               \/ active' = {}
            /\ UNCHANGED <<uiVars, callbackVars, readFrequency, blocks,
                           currentFrequency, receiveFrequency>>

\* A block is complete and the next one begins.  The samples are those of the
\* frequency it was begun on or of the one tuned to meanwhile.
readBlock == /\ Len(blocks) < MaxBehind
             /\ \E f \in {readFrequency, receiveFrequency} :
                  blocks' = Append(blocks, f \in active)
             /\ readFrequency' = receiveFrequency
             /\ UNCHANGED <<uiVars, callbackVars, active, currentFrequency,
                            receiveFrequency>>
----------------------------------------------------------------------------
UiSteps == \/ setEnd \/ setIncrement \/ tuneToEnd \/ scan \/ notify \/ ignore

CallbackSteps == \/ squelch \/ testNotification \/ testScanning \/ load \/ store
                 \/ wrap \/ tune

Next == \/ cmdSetFscanValues \/ cmdStartFscan \/ cmdStopFscan \/ cmdSetRxFrequency
        \/ UiSteps
        \/ CallbackSteps
        \/ transmit
        \/ readBlock

Spec == Init /\ [][Next]_vars

\* The frequencies a scan is made of, the first and the last included.
StepsOf(s) == {f \in s.start .. s.end :
                 s.increment > 0 /\ (f - s.start) % s.increment = 0}

\* What the scans that are let through are made of.
Scannable == UNION {StepsOf(Upwards(s)) : s \in {s \in Scans : InReceiverRange(s)}}

tuneTo(f) == tune /\ step = f /\ receiveFrequency' = f

\* Both threads are scheduled and blocks keep coming, and the driver does not
\* refuse a frequency for ever; nobody has to type.
FairSpec == /\ Spec
            /\ WF_vars(UiSteps) /\ WF_vars(CallbackSteps) /\ WF_vars(readBlock)
            /\ \A f \in Scannable : SF_vars(tuneTo(f))
----------------------------------------------------------------------------
TypeOK == /\ scannerState \in {"Idle", "Scanning"}
          /\ startFrequency \in Nat /\ endFrequency \in Nat
          /\ frequencyIncrement \in Nat
          /\ newConfigurationAvailable \in BOOLEAN
          /\ currentFrequency \in Nat
          /\ signalNotificationEnabled \in BOOLEAN
          /\ receiveFrequency \in Nat
          /\ ui \in {"idle", "setEnd", "setIncrement", "tuneToEnd", "scan",
                     "notify", "ignore"}
          /\ asked \in [start : Nat, end : Nat, increment : Nat]
          /\ callback \in {"dequeue", "notify", "check", "load", "store", "wrap",
                           "tune"}
          /\ step \in Nat
          /\ signalState \in {"NoSignal", "Tracking"}
          /\ signalAllowed \in BOOLEAN
          /\ active \subseteq Frequencies
          /\ readFrequency \in Nat
          /\ blocks \in Seq(BOOLEAN) /\ Len(blocks) <= MaxBehind
          /\ overlap \in BOOLEAN

\* A scan stays inside the range it was given, from its first frequency on,
\* although start() and the notification both write the current frequency.  The
\* test of scannerState in setScanParameters does not give this alone: it takes
\* also that no notification was half way through when the parameters were set.
ScansInRange ==
  scannerState = "Scanning" /\ callback # "wrap" /\ ~overlap =>
    currentFrequency \in startFrequency .. endFrequency

Scan == [start |-> startFrequency, end |-> endFrequency,
         increment |-> frequencyIncrement]

Quiet(f) == /\ scannerState = "Scanning" /\ ui = "idle"
            /\ f \in StepsOf(Scan)
            /\ active = {} /\ ~overlap

\* A scan that meets no signal tunes to each of its frequencies again and again,
\* the first, the last and those between; in particular it goes on when a signal
\* has gone away.  (A scan that meets one is another matter: README.txt:182-184 has
\* it stop there, and with a block still in the queue it steps over it.)
EveryFrequencyVisited ==
  \A f \in Scannable : Quiet(f) ~> receiveFrequency = f \/ ~Quiet(f)
=============================================================================
