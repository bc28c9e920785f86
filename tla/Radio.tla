------------------------------- MODULE Radio -------------------------------
(***************************************************************************)
(* Starting, running and stopping the receiver                              *)
(* (src/radioDiags/src_diags/Radio.cc).                                     *)
(*                                                                          *)
(* Three kinds of threads share one device:                                 *)
(*  - the control thread: the user interface thread, which executes start,  *)
(*    stop and the AGC commands one after the other, and after it the       *)
(*    thread that destroys the Radio;                                       *)
(*  - the event consumer thread, which reads blocks of samples under        *)
(*    radioLock and passes them to the data consumer;                       *)
(*  - the tuners: other threads that call a set function (the data consumer *)
(*    thread through the AGC or the scanner, the frequency sweeper).        *)
(* ioSubsystemLock serialises start, stop and the set functions; radioLock  *)
(* keeps stop and the event consumer apart.  start does not take radioLock, *)
(* and the flags are read with no lock: every such read is a step.          *)
(*                                                                          *)
(* A device handle is the number of the rtlsdr_open that returned it; 0 is  *)
(* the null pointer, which the driver refuses in every call.                *)
(***************************************************************************)
EXTENDS Naturals

CONSTANTS Tuners,        \* threads that call a set function
          ReadSizes,     \* what numberOfBytesRead can be
          Modulus,       \* counters wrap at this value (2^32 in the program)
          MaxOpens       \* bound on the successful opens

ASSUME TunersAssumption == {"nobody", "control", "events"} \intersect Tuners = {}
ASSUME SizesAssumption == ReadSizes \subseteq Nat /\ ReadSizes # {}
ASSUME ModulusAssumption == Modulus \in Nat \ {0}
ASSUME MaxOpensAssumption == MaxOpens \in Nat

VARIABLES receiveEnabled,
          requestReceiverToStop,
          timeToExit,
          devicePtr,
          receiveTimeStamp,
          receiveBlockCount,
          ioSubsystemLock,    \* who holds it
          radioLock,          \* who holds it
          consumerEnabled,    \* DataConsumer.enabled
          agcEnabled,         \* AutomaticGainControl.enabled
          openDevice,         \* the handle the driver has open, or 0
          opens,              \* devices opened so far
          obtained,           \* what the last rtlsdr_open that returned 0 gave
          control,            \* where the control thread is
          exiting,            \* the Radio is being destroyed
          events,             \* where the event consumer thread is
          readPtr,            \* the handle given to rtlsdr_read_sync
          numberOfBytesRead,  \* local of the event consumer thread
          bytesFrom,          \* the handle those bytes in the buffer came from
          delivered,          \* has the last read delivered bytes
          undercut,           \* history: a failed start closed the device of the
                              \* read the event consumer is at
          tuner               \* tuner -> where it is

flags == <<receiveEnabled, requestReceiverToStop, timeToExit>>
counters == <<receiveTimeStamp, receiveBlockCount>>
driver == <<openDevice, opens, obtained>>
block == <<readPtr, numberOfBytesRead, bytesFrom, delivered>>
eventVars == <<events, block, counters>>
vars == <<flags, devicePtr, ioSubsystemLock, radioLock, consumerEnabled,
          agcEnabled, driver, control, exiting, eventVars, undercut, tuner>>

\* The constructor leaves timeToExit and the local numberOfBytesRead unset.
Init == /\ receiveEnabled = FALSE
        /\ requestReceiverToStop = FALSE
        /\ timeToExit \in BOOLEAN
        /\ devicePtr = 0
        /\ receiveTimeStamp = 0
        /\ receiveBlockCount = 0
        /\ ioSubsystemLock = "nobody"
        /\ radioLock = "nobody"
        /\ consumerEnabled = FALSE
        /\ agcEnabled = FALSE
        /\ openDevice = 0
        /\ opens = 0
        /\ obtained = 0
        /\ control = "idle"
        /\ exiting = FALSE
        /\ events = "starting"
        /\ readPtr = 0
        /\ numberOfBytesRead \in ReadSizes
        /\ bytesFrom = 0
        /\ delivered = FALSE
        /\ undercut = FALSE
        /\ tuner = [t \in Tuners |-> "idle"]

GoControl(from, to) == control = from /\ control' = to
GoEvents(from, to) == events = from /\ events' = to
GoTuner(t, from, to) == tuner[t] = from /\ tuner' = [tuner EXCEPT ![t] = to]

\* Nothing of the event consumer's or the tuners' changes.
OthersRest == UNCHANGED <<eventVars, undercut, tuner>>
----------------------------------------------------------------------------
(* startReceiver.                                                           *)

callStart == /\ GoControl("idle", "start") /\ ~exiting
             /\ OthersRest
             /\ UNCHANGED <<flags, devicePtr, ioSubsystemLock, radioLock,
                            consumerEnabled, agcEnabled, driver, exiting>>

\* ioSubsystemLock is taken; there is nothing to do when the receiver runs.
startLock == /\ control = "start"
             /\ \/ /\ receiveEnabled
                   /\ ioSubsystemLock = "nobody" /\ UNCHANGED ioSubsystemLock
                   /\ control' = "idle"
                \/ /\ ~receiveEnabled
                   /\ ioSubsystemLock = "nobody" /\ ioSubsystemLock' = "control"
                   /\ control' = "open"
             /\ OthersRest
             /\ UNCHANGED <<flags, devicePtr, radioLock, consumerEnabled,
                            agcEnabled, driver, exiting>>

\* The device search or rtlsdr_open fails, and says so.
openFails == /\ GoControl("open", "idle")
             /\ ioSubsystemLock' = "nobody"
             /\ OthersRest
             /\ UNCHANGED <<flags, devicePtr, radioLock, consumerEnabled,
                            agcEnabled, driver, exiting>>

openSucceeds == /\ GoControl("open", "setup")
                /\ opens < MaxOpens
                /\ opens' = opens + 1
                /\ openDevice' = opens + 1
                /\ devicePtr' = opens + 1
                /\ obtained' = opens + 1
                /\ OthersRest
                /\ UNCHANGED <<flags, ioSubsystemLock, radioLock,
                               consumerEnabled, agcEnabled, exiting>>

\* The kernel driver cannot be detached: rtlsdr_open frees what it has allocated
\* and returns the 0 of libusb_open, and devicePtr stays null.
openWithoutDevice == /\ GoControl("open", "setup")
                     /\ obtained' = 0
                     /\ OthersRest
                     /\ UNCHANGED <<flags, devicePtr, ioSubsystemLock, radioLock,
                                    consumerEnabled, agcEnabled, openDevice,
                                    opens, exiting>>

\* The six set functions are called; errorCount is 0 or it is not.  With no
\* device they only store, and cannot fail.
setup == /\ control = "setup"
         /\ \/ control' = "accept"
            \/ devicePtr # 0 /\ control' = "giveUp"
         /\ OthersRest
         /\ UNCHANGED <<flags, devicePtr, ioSubsystemLock, radioLock,
                        consumerEnabled, agcEnabled, driver, exiting>>

\* dataConsumerPtr->start(), then the endpoint is reset.
acceptAndReset == /\ GoControl("accept", "enable")
                  /\ consumerEnabled' = TRUE
                  /\ OthersRest
                  /\ UNCHANGED <<flags, devicePtr, ioSubsystemLock, radioLock,
                                 agcEnabled, driver, exiting>>

enable == /\ GoControl("enable", "idle")
          /\ receiveEnabled' = TRUE
          /\ ioSubsystemLock' = "nobody"
          /\ OthersRest
          /\ UNCHANGED <<requestReceiverToStop, timeToExit, devicePtr,
                         radioLock, consumerEnabled, agcEnabled, driver, exiting>>

\* Errors occurred: the device is closed, and only then is devicePtr cleared.
closeAfterErrors == /\ GoControl("giveUp", "forget")
                    /\ openDevice' = 0
                    /\ undercut' = (undercut \/ radioLock = "events")
                    /\ UNCHANGED <<flags, devicePtr, ioSubsystemLock, radioLock,
                                   consumerEnabled, agcEnabled, opens, obtained,
                                   exiting, eventVars, tuner>>

forgetDevice == /\ GoControl("forget", "idle")
                /\ devicePtr' = 0
                /\ ioSubsystemLock' = "nobody"
                /\ OthersRest
                /\ UNCHANGED <<flags, radioLock, consumerEnabled, agcEnabled,
                               driver, exiting>>
----------------------------------------------------------------------------
(* stopReceiver.                                                            *)

callStop == /\ GoControl("idle", "stop") /\ ~exiting
            /\ OthersRest
            /\ UNCHANGED <<flags, devicePtr, ioSubsystemLock, radioLock,
                           consumerEnabled, agcEnabled, driver, exiting>>

\* Where the control thread goes after stopReceiver: back to the commands, or
\* out of the destructor.
AfterStop == IF exiting THEN "gone" ELSE "idle"

\* ioSubsystemLock is taken, and a running receiver is requested to stop.
stopLock == /\ control = "stop"
            /\ ioSubsystemLock = "nobody"
            /\ \/ /\ ~receiveEnabled
                  /\ control' = AfterStop
                  /\ UNCHANGED <<ioSubsystemLock, requestReceiverToStop>>
               \/ /\ receiveEnabled
                  /\ ioSubsystemLock' = "control"
                  /\ requestReceiverToStop' = TRUE
                  /\ control' = "awaitRadio"
            /\ OthersRest
            /\ UNCHANGED <<receiveEnabled, timeToExit, devicePtr, radioLock,
                           consumerEnabled, agcEnabled, driver, exiting>>

\* Faulty variant: stopReceiver does not wait for radioLock.
disableAtOnce == /\ GoControl("awaitRadio", "discard")
                 /\ receiveEnabled' = FALSE
                 /\ OthersRest
                 /\ UNCHANGED <<requestReceiverToStop, timeToExit, devicePtr,
                                radioLock, ioSubsystemLock, consumerEnabled,
                                agcEnabled, driver, exiting>>

\* radioLock is taken: the event consumer is outside its read.
disable == /\ GoControl("awaitRadio", "discard")
           /\ radioLock = "nobody"
           /\ radioLock' = "control"
           /\ receiveEnabled' = FALSE
           /\ OthersRest
           /\ UNCHANGED <<requestReceiverToStop, timeToExit, devicePtr,
                          ioSubsystemLock, consumerEnabled, agcEnabled, driver,
                          exiting>>

discardData == /\ GoControl("discard", "close")
               /\ consumerEnabled' = FALSE
               /\ OthersRest
               /\ UNCHANGED <<flags, devicePtr, ioSubsystemLock, radioLock,
                              agcEnabled, driver, exiting>>

\* rtlsdr_close, which refuses a null handle, and devicePtr is cleared.
close == /\ GoControl("close", "finish")
         /\ openDevice' = 0
         /\ devicePtr' = 0
         /\ OthersRest
         /\ UNCHANGED <<flags, ioSubsystemLock, radioLock, consumerEnabled,
                        agcEnabled, opens, obtained, exiting>>

\* Faulty variant: the request to stop is not withdrawn.
finishStopStillRequested ==
  /\ control = "finish"
  /\ control' = AfterStop
  /\ agcEnabled' = FALSE
  /\ radioLock' = "nobody"
  /\ ioSubsystemLock' = "nobody"
  /\ OthersRest
  /\ UNCHANGED <<flags, devicePtr, consumerEnabled, driver, exiting>>

\* The request is withdrawn, the AGC is disabled, both locks are released.
finishStop == /\ control = "finish"
              /\ control' = AfterStop
              /\ requestReceiverToStop' = FALSE
              /\ agcEnabled' = FALSE
              /\ radioLock' = "nobody"
              /\ ioSubsystemLock' = "nobody"
              /\ OthersRest
              /\ UNCHANGED <<receiveEnabled, timeToExit, devicePtr,
                             consumerEnabled, driver, exiting>>
----------------------------------------------------------------------------
(* The AGC commands and the destructor.                                     *)

\* Faulty variant: the AGC is enabled whether or not the radio is receiving.
enableAgcAnyway == /\ control = "idle" /\ ~exiting
                   /\ agcEnabled' = TRUE
                   /\ OthersRest
                   /\ UNCHANGED <<flags, devicePtr, ioSubsystemLock, radioLock,
                                  consumerEnabled, driver, control, exiting>>

\* AutomaticGainControl::enable looks at receiveEnabled, through isReceiving.
enableAgc == /\ control = "idle" /\ ~exiting
             /\ receiveEnabled
             /\ agcEnabled' = TRUE
             /\ OthersRest
             /\ UNCHANGED <<flags, devicePtr, ioSubsystemLock, radioLock,
                            consumerEnabled, driver, control, exiting>>

disableAgc == /\ control = "idle" /\ ~exiting
              /\ agcEnabled' = FALSE
              /\ OthersRest
              /\ UNCHANGED <<flags, devicePtr, ioSubsystemLock, radioLock,
                             consumerEnabled, driver, control, exiting>>

\* ~Radio asks the event consumer thread to end ...
destroy == /\ GoControl("idle", "join") /\ ~exiting
           /\ exiting' = TRUE
           /\ timeToExit' = TRUE
           /\ OthersRest
           /\ UNCHANGED <<receiveEnabled, requestReceiverToStop, devicePtr,
                          ioSubsystemLock, radioLock, consumerEnabled,
                          agcEnabled, driver>>

\* ... joins it, and tearDownReceiver calls stopReceiver.
joined == /\ GoControl("join", "stop")
          /\ events = "exited"
          /\ OthersRest
          /\ UNCHANGED <<flags, devicePtr, ioSubsystemLock, radioLock,
                         consumerEnabled, agcEnabled, driver, exiting>>
----------------------------------------------------------------------------
(* eventConsumerProcedure.                                                  *)

\* Nothing of the control thread's or the tuners' changes.
EventsOnly == UNCHANGED <<receiveEnabled, requestReceiverToStop, devicePtr,
                          ioSubsystemLock, consumerEnabled, agcEnabled, driver,
                          control, exiting, tuner>>

eventsStart == /\ GoEvents("starting", "loop")
               /\ timeToExit' = FALSE
               /\ EventsOnly
               /\ UNCHANGED <<radioLock, block, counters, undercut>>

testTimeToExit == /\ events = "loop"
                  /\ events' = IF timeToExit THEN "exited" ELSE "testEnabled"
                  /\ EventsOnly
                  /\ UNCHANGED <<timeToExit, radioLock, block, counters, undercut>>

\* Faulty variant: the idle loop does not come back to timeToExit.
testEnabledOnly ==
  /\ events = "testEnabled"
  /\ events' = IF receiveEnabled THEN "testRequest" ELSE "testEnabled"
  /\ EventsOnly
  /\ UNCHANGED <<timeToExit, radioLock, block, counters, undercut>>

\* The receiver does not run: usleep, and round again.
testEnabled == /\ events = "testEnabled"
               /\ events' = IF receiveEnabled THEN "testRequest" ELSE "loop"
               /\ EventsOnly
               /\ UNCHANGED <<timeToExit, radioLock, block, counters, undercut>>

\* Faulty variant: the event consumer knows of no request to stop.
ignoreRequest == /\ GoEvents("testRequest", "lock")
                 /\ EventsOnly
                 /\ UNCHANGED <<timeToExit, radioLock, block, counters, undercut>>

\* With a stop requested the thread spins.  No call is made on that path, so the
\* optimised build need not read timeToExit again on it.
testRequest == /\ events = "testRequest"
               /\ \/ requestReceiverToStop /\ events' \in {"loop", "testEnabled"}
                  \/ ~requestReceiverToStop /\ events' = "lock"
               /\ EventsOnly
               /\ UNCHANGED <<timeToExit, radioLock, block, counters, undercut>>

\* radioLock is taken and rtlsdr_read_sync is called with devicePtr as it is now:
\* between the two steps of a failed start that is a device already closed.
beginRead == /\ GoEvents("lock", "reading")
             /\ radioLock = "nobody"
             /\ radioLock' = "events"
             /\ readPtr' = devicePtr
             /\ undercut' = (control = "forget")
             /\ EventsOnly
             /\ UNCHANGED <<timeToExit, numberOfBytesRead, bytesFrom, delivered,
                            counters>>

\* rtlsdr_read_sync fills the buffer and tells how far, or fails and touches
\* neither: always for the null handle, and on a device that refuses the
\* transfer.  Its result is not looked at.
ReadDelivers == /\ readPtr # 0
                /\ numberOfBytesRead' \in ReadSizes
                /\ bytesFrom' = readPtr
                /\ delivered' = TRUE

ReadFails == /\ delivered' = FALSE
             /\ UNCHANGED <<numberOfBytesRead, bytesFrom>>

\* Faulty variant: radioLock is released as soon as the read is over.
endReadAndUnlock ==
  /\ GoEvents("reading", "pass")
  /\ radioLock' = "nobody"
  /\ ReadDelivers \/ ReadFails
  /\ EventsOnly
  /\ UNCHANGED <<timeToExit, readPtr, counters, undercut>>

endRead == /\ GoEvents("reading", "pass")
           /\ ReadDelivers \/ ReadFails
           /\ EventsOnly
           /\ UNCHANGED <<timeToExit, radioLock, readPtr, counters, undercut>>

\* Faulty variant: the time stamp is wider than 32 bits.
passBlockWide ==
  /\ GoEvents("pass", "count")
  /\ receiveTimeStamp' = receiveTimeStamp + numberOfBytesRead \div 2
  /\ EventsOnly
  /\ UNCHANGED <<timeToExit, radioLock, block, receiveBlockCount, undercut>>

\* The time stamp moves by the samples read and the buffer is passed to
\* DataConsumer::acceptData, which takes it if it is enabled.
passBlock ==
  /\ GoEvents("pass", "count")
  /\ receiveTimeStamp' = (receiveTimeStamp + numberOfBytesRead \div 2) % Modulus
  /\ EventsOnly
  /\ UNCHANGED <<timeToExit, radioLock, block, receiveBlockCount, undercut>>

countBlock == /\ GoEvents("count", "loop")
              /\ receiveBlockCount' = (receiveBlockCount + 1) % Modulus
              /\ radioLock' = "nobody"
              /\ EventsOnly
              /\ UNCHANGED <<timeToExit, block, receiveTimeStamp, undercut>>
----------------------------------------------------------------------------
(* A set function, called from another thread.                              *)

TunerOnly == UNCHANGED <<flags, devicePtr, radioLock, consumerEnabled,
                         agcEnabled, driver, control, exiting, eventVars,
                         undercut>>

callSet(t) == /\ GoTuner(t, "idle", "lock")
              /\ TunerOnly /\ UNCHANGED ioSubsystemLock

\* Faulty variant: a set function that takes no lock.
setWithoutLock(t) == /\ tuner[t] = "lock"
                     /\ tuner' = [tuner EXCEPT ![t] =
                          IF devicePtr = 0 THEN "idle" ELSE "driver"]
                     /\ TunerOnly /\ UNCHANGED ioSubsystemLock

\* With no device only the attribute is stored; else the driver is called.
lockSet(t) == /\ tuner[t] = "lock"
              /\ ioSubsystemLock = "nobody"
              /\ \/ /\ devicePtr = 0
                    /\ tuner' = [tuner EXCEPT ![t] = "idle"]
                    /\ UNCHANGED ioSubsystemLock
                 \/ /\ devicePtr # 0
                    /\ tuner' = [tuner EXCEPT ![t] = "driver"]
                    /\ ioSubsystemLock' = t
              /\ TunerOnly

endSet(t) == /\ GoTuner(t, "driver", "idle")
             /\ ioSubsystemLock' = "nobody"
             /\ TunerOnly
----------------------------------------------------------------------------
StartSteps == \/ startLock \/ openFails \/ openSucceeds \/ openWithoutDevice
              \/ setup \/ acceptAndReset \/ enable \/ closeAfterErrors \/ forgetDevice

StopSteps == stopLock \/ disable \/ discardData \/ close \/ finishStop

EventSteps == \/ eventsStart \/ testTimeToExit \/ testEnabled \/ testRequest
              \/ beginRead \/ endRead \/ passBlock \/ countBlock

\* The Radio is gone; the tuners went with their own objects.
Terminated == control = "gone" /\ UNCHANGED vars

Next == \/ callStart \/ StartSteps
        \/ callStop \/ StopSteps
        \/ enableAgc \/ disableAgc
        \/ destroy \/ joined
        \/ EventSteps
        \/ \E t \in Tuners : callSet(t) \/ lockSet(t) \/ endSet(t)
        \/ Terminated

Spec == Init /\ [][Next]_vars

\* Threads that can run do run, and a read of a streaming device returns.  A
\* mutex is not fair: being free again and again is not enough to get it.
FairSpec == /\ Spec
            /\ WF_vars(StartSteps) /\ WF_vars(StopSteps) /\ WF_vars(joined)
            /\ WF_vars(EventSteps)
            /\ \A t \in Tuners : WF_vars(endSet(t))
----------------------------------------------------------------------------
Handles == 0 .. MaxOpens

TypeOK == /\ receiveEnabled \in BOOLEAN
          /\ requestReceiverToStop \in BOOLEAN
          /\ timeToExit \in BOOLEAN
          /\ consumerEnabled \in BOOLEAN
          /\ agcEnabled \in BOOLEAN
          /\ exiting \in BOOLEAN
          /\ devicePtr \in Handles /\ openDevice \in Handles
          /\ opens \in Handles /\ obtained \in Handles
          /\ readPtr \in Handles /\ bytesFrom \in Handles
          /\ delivered \in BOOLEAN /\ undercut \in BOOLEAN
          /\ receiveTimeStamp \in 0 .. Modulus - 1
          /\ receiveBlockCount \in 0 .. Modulus - 1
          /\ numberOfBytesRead \in ReadSizes
          /\ ioSubsystemLock \in {"nobody", "control"} \union Tuners
          /\ radioLock \in {"nobody", "control", "events"}
          /\ control \in {"idle", "start", "open", "setup", "accept", "enable",
                          "giveUp", "forget", "stop", "awaitRadio", "discard",
                          "close", "finish", "join", "gone"}
          /\ events \in {"starting", "loop", "testEnabled", "testRequest",
                         "lock", "reading", "pass", "count", "exited"}
          /\ tuner \in [Tuners -> {"idle", "lock", "driver"}]

\* "We don't like dangling pointers": a read under way is on the device that is
\* open, or was refused for a null handle.  The code breaks this: a start that
\* fails closes the device without radioLock, and an event consumer that saw the
\* receiver enabled before the preceding stop may be reading it.
NoDanglingRead == events = "reading" => readPtr \in {0, openDevice}

\* That is the only way: no stop and no start closes, or replaces, the device of a
\* read under way unless it is a start whose configuration failed, in whatever
\* order the flags were seen.
ReadOutlivedByDevice ==
  events = "reading" /\ ~undercut => readPtr \in {0, openDevice}

\* A set function inside the driver works on the device that is open.
NoDanglingSet ==
  \A t \in Tuners : tuner[t] = "driver" => devicePtr # 0 /\ devicePtr = openDevice

\* Whenever ioSubsystemLock is free the parts of the receiver agree: while it is
\* enabled, and only then, it has what its rtlsdr_open gave it, that is what the
\* driver has open, and the data consumer is fed; and no request to stop is left
\* over to silence the next session.  It is NOT so that an enabled receiver has a
\* device: rtlsdr_open may return 0 without one (openWithoutDevice).
ReceiverConsistent ==
  ioSubsystemLock = "nobody" =>
    /\ devicePtr = IF receiveEnabled THEN obtained ELSE 0
    /\ devicePtr = openDevice
    /\ consumerEnabled <=> receiveEnabled
    /\ ~requestReceiverToStop

\* "Disable the AGC to avoid startup transients later": the AGC never survives
\* the session it was enabled in.
AgcOnlyWhileReceiving ==
  agcEnabled => receiveEnabled \/ control \in {"discard", "close", "finish"}

\* What a read has delivered is passed on while the device it came from is open
\* and in no later session, though a stop and a start may go by between the test of
\* the flags and the read (a failed start apart, see above).  It takes that the read
\* delivered: one that failed, as every read of the null handle does, leaves the
\* bytes of the last one in the buffer, and the event consumer passes them on
\* again, be it in the next session.
DeliveredInItsSession ==
  [][passBlock /\ consumerEnabled /\ delivered /\ ~undercut
       => bytesFrom = openDevice]_vars

\* A stop that has its request out ends, although the event consumer takes
\* radioLock again and again and the mutex is not fair: the request is what
\* keeps it away.
StopCompletes == control = "awaitRadio" ~> control \in {"idle", "gone"}

\* The destructor gets past the join when the event consumer thread has begun to
\* run before it: also out of the spin and out of a read.
ExitHonouredOnceRunning ==
  (control = "join" /\ timeToExit /\ events # "starting") ~> control # "join"
=============================================================================
