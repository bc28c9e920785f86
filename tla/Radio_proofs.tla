---------------------------- MODULE Radio_proofs ----------------------------
(***************************************************************************)
(* Proofs about Radio, for any set of tuners, any read sizes, any counter   *)
(* width and any number of opens.                                           *)
(***************************************************************************)
EXTENDS Radio, TLAPS

USE DEF flags, counters, driver, block, eventVars, vars, GoControl, GoEvents, GoTuner,
        OthersRest, EventsOnly

(***************************************************************************)
(* Type correctness.                                                        *)
(***************************************************************************)

\* The counters stay below the modulus they wrap at.
LEMMA Wraps == \A n \in Nat : n % Modulus \in 0 .. Modulus - 1
BY ModulusAssumption

\* Every step keeps every variable in its type.
LEMMA TypeInductive == TypeOK /\ [Next]_vars => TypeOK'
<1> SUFFICES ASSUME TypeOK, [Next]_vars PROVE TypeOK'
  OBVIOUS
<1> USE DEF TypeOK, Handles

<1>1. CASE callStart
  BY <1>1 DEF callStart
<1>2. CASE startLock
  BY <1>2 DEF startLock
<1>3. CASE openFails
  BY <1>3 DEF openFails
<1>4. CASE openSucceeds
  BY <1>4, MaxOpensAssumption DEF openSucceeds
<1>32. CASE openWithoutDevice
  BY <1>32, MaxOpensAssumption DEF openWithoutDevice
<1>5. CASE setup
  BY <1>5 DEF setup
<1>6. CASE acceptAndReset
  BY <1>6 DEF acceptAndReset
<1>7. CASE enable
  BY <1>7 DEF enable
<1>8. CASE closeAfterErrors
  BY <1>8, MaxOpensAssumption DEF closeAfterErrors
<1>9. CASE forgetDevice
  BY <1>9, MaxOpensAssumption DEF forgetDevice
<1>10. CASE callStop
  BY <1>10 DEF callStop
<1>11. CASE stopLock
  <2>1. requestReceiverToStop' \in BOOLEAN
    BY <1>11 DEF stopLock
  <2>2. /\ control' \in {"idle", "gone", "awaitRadio"}
        /\ ioSubsystemLock' \in {ioSubsystemLock, "control"}
    BY <1>11 DEF stopLock, AfterStop
  <2>3. UNCHANGED <<receiveEnabled, timeToExit, devicePtr, radioLock,
                    consumerEnabled, agcEnabled, driver, exiting, eventVars,
                    undercut, tuner>>
    BY <1>11 DEF stopLock
  <2> QED
    BY <2>1, <2>2, <2>3
<1>12. CASE disable
  <2>1. receiveEnabled' \in BOOLEAN
    BY <1>12 DEF disable
  <2> QED
    BY <1>12, <2>1 DEF disable
<1>13. CASE discardData
  <2>1. consumerEnabled' \in BOOLEAN
    BY <1>13 DEF discardData
  <2> QED
    BY <1>13, <2>1 DEF discardData
<1>14. CASE close
  BY <1>14, MaxOpensAssumption DEF close
<1>15. CASE finishStop
  BY <1>15 DEF finishStop, AfterStop
<1>16. CASE enableAgc
  BY <1>16 DEF enableAgc
<1>17. CASE disableAgc
  <2>1. agcEnabled' \in BOOLEAN
    BY <1>17 DEF disableAgc
  <2> QED
    BY <1>17, <2>1 DEF disableAgc
<1>18. CASE destroy
  BY <1>18 DEF destroy
<1>19. CASE joined
  BY <1>19 DEF joined
<1>20. CASE eventsStart
  <2>1. events' = "loop" /\ timeToExit' = FALSE
    BY <1>20 DEF eventsStart
  <2>2. UNCHANGED <<receiveEnabled, requestReceiverToStop, devicePtr,
                    ioSubsystemLock, radioLock, consumerEnabled, agcEnabled,
                    driver, control, exiting, readPtr, numberOfBytesRead,
                    bytesFrom, delivered, counters, undercut, tuner>>
    BY <1>20 DEF eventsStart
  <2>3. timeToExit' \in BOOLEAN
    BY <2>1
  <2> QED
    BY <2>1, <2>2, <2>3
<1>21. CASE testTimeToExit
  BY <1>21 DEF testTimeToExit
<1>22. CASE testEnabled
  BY <1>22 DEF testEnabled
<1>23. CASE testRequest
  BY <1>23 DEF testRequest
<1>24. CASE beginRead
  BY <1>24 DEF beginRead
<1>25. CASE endRead
  <2>1. /\ numberOfBytesRead' \in ReadSizes /\ bytesFrom' \in Handles
        /\ delivered' \in BOOLEAN
    <3>1. CASE ReadDelivers
      BY <3>1 DEF ReadDelivers
    <3>2. CASE ReadFails
      BY <3>2 DEF ReadFails
    <3> QED
      BY <1>25, <3>1, <3>2 DEF endRead
  <2>2. events' = "pass"
        /\ UNCHANGED <<flags, devicePtr, ioSubsystemLock, radioLock, consumerEnabled,
                       agcEnabled, driver, control, exiting, readPtr, counters,
                       undercut, tuner>>
    BY <1>25 DEF endRead
  <2> QED
    BY <2>1, <2>2
<1>26. CASE passBlock
  <2>1. receiveTimeStamp \in Nat /\ numberOfBytesRead \in Nat
    BY ModulusAssumption, SizesAssumption
  <2>2. receiveTimeStamp + numberOfBytesRead \div 2 \in Nat
    BY <2>1
  <2>3. receiveTimeStamp' \in 0 .. Modulus - 1
    BY <1>26, <2>2, Wraps DEF passBlock
  <2> QED
    BY <1>26, <2>3 DEF passBlock
<1>27. CASE countBlock
  <2>1. receiveBlockCount + 1 \in Nat
    BY ModulusAssumption
  <2>2. receiveBlockCount' \in 0 .. Modulus - 1
    BY <1>27, <2>1, Wraps DEF countBlock
  <2> QED
    BY <1>27, <2>2 DEF countBlock
<1>28. ASSUME NEW t \in Tuners, callSet(t) PROVE TypeOK'
  BY <1>28 DEF callSet, TunerOnly
<1>29. ASSUME NEW t \in Tuners, lockSet(t) PROVE TypeOK'
  BY <1>29 DEF lockSet, TunerOnly
<1>30. ASSUME NEW t \in Tuners, endSet(t) PROVE TypeOK'
  BY <1>30 DEF endSet, TunerOnly
<1>31. CASE Terminated \/ UNCHANGED vars
  BY <1>31 DEF Terminated
<1> QED
  BY <1>1, <1>2, <1>3, <1>4, <1>5, <1>6, <1>7, <1>8, <1>9, <1>10, <1>11,
     <1>12, <1>13, <1>14, <1>15, <1>16, <1>17, <1>18, <1>19, <1>20,
     <1>21, <1>22, <1>23, <1>24, <1>25, <1>26, <1>27, <1>28, <1>29,
     <1>30, <1>31, <1>32
     DEF Next, StartSteps, StopSteps, EventSteps

\* The initial state has its type.
LEMMA InitType == Init => TypeOK
<1> SUFFICES ASSUME Init PROVE TypeOK
  OBVIOUS
<1> USE DEF Init
<1>1. 0 \in Handles /\ 0 \in 0 .. Modulus - 1
  BY ModulusAssumption, MaxOpensAssumption DEF Handles
<1>2. tuner \in [Tuners -> {"idle", "lock", "driver"}]
  OBVIOUS
<1> QED
  BY <1>1, <1>2 DEF TypeOK

\* The state of the receiver always has its type.
THEOREM TypeCorrect == Spec => []TypeOK
BY InitType, TypeInductive, PTL DEF Spec

(***************************************************************************)
(* Who holds the locks.                                                     *)
(***************************************************************************)
HoldsIo == {"open", "setup", "accept", "enable", "giveUp", "forget",
            "awaitRadio", "discard", "close", "finish"}
HoldsRadio == {"discard", "close", "finish"}

LockInv == /\ control \in HoldsIo <=> ioSubsystemLock = "control"
           /\ \A t \in Tuners : tuner[t] = "driver" <=> ioSubsystemLock = t
           /\ control \in HoldsRadio <=> radioLock = "control"
           /\ events \in {"reading", "pass", "count"} <=> radioLock = "events"

\* A lock has one holder, and the threads inside are where the lock says.
LEMMA LockInductive == TypeOK /\ LockInv /\ [Next]_vars => LockInv'
<1> SUFFICES ASSUME TypeOK, LockInv, [Next]_vars PROVE LockInv'
  OBVIOUS
<1> USE TunersAssumption DEF TypeOK, LockInv, HoldsIo, HoldsRadio
<1>1. CASE callStart
  BY <1>1 DEF callStart
<1>2. CASE startLock
  BY <1>2 DEF startLock
<1>3. CASE openFails
  BY <1>3 DEF openFails
<1>4. CASE openSucceeds
  BY <1>4 DEF openSucceeds
<1>32. CASE openWithoutDevice
  BY <1>32 DEF openWithoutDevice
<1>5. CASE setup
  BY <1>5 DEF setup
<1>6. CASE acceptAndReset
  BY <1>6 DEF acceptAndReset
<1>7. CASE enable
  BY <1>7 DEF enable
<1>8. CASE closeAfterErrors
  BY <1>8 DEF closeAfterErrors
<1>9. CASE forgetDevice
  BY <1>9 DEF forgetDevice
<1>10. CASE callStop
  BY <1>10 DEF callStop
<1>11. CASE stopLock
  BY <1>11 DEF stopLock, AfterStop
<1>12. CASE disable
  BY <1>12 DEF disable
<1>13. CASE discardData
  BY <1>13 DEF discardData
<1>14. CASE close
  BY <1>14 DEF close
<1>15. CASE finishStop
  BY <1>15 DEF finishStop, AfterStop
<1>16. CASE enableAgc
  BY <1>16 DEF enableAgc
<1>17. CASE disableAgc
  BY <1>17 DEF disableAgc
<1>18. CASE destroy
  BY <1>18 DEF destroy
<1>19. CASE joined
  BY <1>19 DEF joined
<1>20. CASE eventsStart
  BY <1>20 DEF eventsStart
<1>21. CASE testTimeToExit
  BY <1>21 DEF testTimeToExit
<1>22. CASE testEnabled
  BY <1>22 DEF testEnabled
<1>23. CASE testRequest
  BY <1>23 DEF testRequest
<1>24. CASE beginRead
  BY <1>24 DEF beginRead
<1>25. CASE endRead
  BY <1>25 DEF endRead, ReadDelivers, ReadFails
<1>26. CASE passBlock
  BY <1>26 DEF passBlock
<1>27. CASE countBlock
  BY <1>27 DEF countBlock
<1>28. ASSUME NEW t \in Tuners, callSet(t) PROVE LockInv'
  BY <1>28 DEF callSet, TunerOnly
<1>29. ASSUME NEW t \in Tuners, lockSet(t) PROVE LockInv'
  BY <1>29 DEF lockSet, TunerOnly
<1>30. ASSUME NEW t \in Tuners, endSet(t) PROVE LockInv'
  BY <1>30 DEF endSet, TunerOnly
<1>31. CASE Terminated \/ UNCHANGED vars
  BY <1>31 DEF Terminated
<1> QED
  BY <1>1, <1>2, <1>3, <1>4, <1>5, <1>6, <1>7, <1>8, <1>9, <1>10, <1>11,
     <1>12, <1>13, <1>14, <1>15, <1>16, <1>17, <1>18, <1>19, <1>20,
     <1>21, <1>22, <1>23, <1>24, <1>25, <1>26, <1>27, <1>28, <1>29,
     <1>30, <1>31, <1>32
     DEF Next, StartSteps, StopSteps, EventSteps

(***************************************************************************)
(* What the flags, the handle and the driver say of each other at every     *)
(* point of start and stop.                                                 *)
(***************************************************************************)
DeviceInv ==
  /\ control \notin HoldsIo => devicePtr = IF receiveEnabled THEN obtained ELSE 0
  /\ control \in HoldsIo => receiveEnabled <=> control = "awaitRadio"
  /\ control \in HoldsIo =>
       devicePtr = IF control \in {"open", "finish"} THEN 0 ELSE obtained
  /\ openDevice = IF control = "forget" THEN 0 ELSE devicePtr
  /\ consumerEnabled <=> receiveEnabled \/ control \in {"enable", "discard"}
  /\ requestReceiverToStop <=> control \in {"awaitRadio"} \union HoldsRadio
  /\ agcEnabled => receiveEnabled \/ control \in HoldsRadio
  /\ \A t \in Tuners : tuner[t] = "driver" => devicePtr # 0

\* Start and stop, and nobody else, move the device from one state to the next.
LEMMA DeviceInductive ==
  TypeOK /\ LockInv /\ DeviceInv /\ [Next]_vars => DeviceInv'
<1> SUFFICES ASSUME TypeOK, LockInv, DeviceInv, [Next]_vars PROVE DeviceInv'
  OBVIOUS
<1> USE TunersAssumption DEF TypeOK, LockInv, DeviceInv, HoldsIo, HoldsRadio
<1>1. CASE callStart
  BY <1>1 DEF callStart
<1>2. CASE startLock
  BY <1>2 DEF startLock
<1>3. CASE openFails
  BY <1>3 DEF openFails
<1>4. CASE openSucceeds
  BY <1>4 DEF openSucceeds, Handles
<1>32. CASE openWithoutDevice
  BY <1>32 DEF openWithoutDevice
<1>5. CASE setup
  BY <1>5 DEF setup
<1>6. CASE acceptAndReset
  BY <1>6 DEF acceptAndReset
<1>7. CASE enable
  BY <1>7 DEF enable
<1>8. CASE closeAfterErrors
  BY <1>8 DEF closeAfterErrors
<1>9. CASE forgetDevice
  BY <1>9 DEF forgetDevice
<1>10. CASE callStop
  BY <1>10 DEF callStop
<1>11. CASE stopLock
  BY <1>11 DEF stopLock, AfterStop
<1>12. CASE disable
  BY <1>12 DEF disable
<1>13. CASE discardData
  BY <1>13 DEF discardData
<1>14. CASE close
  BY <1>14 DEF close
<1>15. CASE finishStop
  BY <1>15 DEF finishStop, AfterStop
<1>16. CASE enableAgc
  BY <1>16 DEF enableAgc
<1>17. CASE disableAgc
  BY <1>17 DEF disableAgc
<1>18. CASE destroy
  BY <1>18 DEF destroy
<1>19. CASE joined
  BY <1>19 DEF joined
<1>20. CASE eventsStart
  BY <1>20 DEF eventsStart
<1>21. CASE testTimeToExit
  BY <1>21 DEF testTimeToExit
<1>22. CASE testEnabled
  BY <1>22 DEF testEnabled
<1>23. CASE testRequest
  BY <1>23 DEF testRequest
<1>24. CASE beginRead
  BY <1>24 DEF beginRead
<1>25. CASE endRead
  BY <1>25 DEF endRead, ReadDelivers, ReadFails
<1>26. CASE passBlock
  BY <1>26 DEF passBlock
<1>27. CASE countBlock
  BY <1>27 DEF countBlock
<1>28. ASSUME NEW t \in Tuners, callSet(t) PROVE DeviceInv'
  BY <1>28 DEF callSet, TunerOnly
<1>29. ASSUME NEW t \in Tuners, lockSet(t) PROVE DeviceInv'
  BY <1>29 DEF lockSet, TunerOnly
<1>30. ASSUME NEW t \in Tuners, endSet(t) PROVE DeviceInv'
  BY <1>30 DEF endSet, TunerOnly
<1>31. CASE Terminated \/ UNCHANGED vars
  BY <1>31 DEF Terminated
<1> QED
  BY <1>1, <1>2, <1>3, <1>4, <1>5, <1>6, <1>7, <1>8, <1>9, <1>10, <1>11,
     <1>12, <1>13, <1>14, <1>15, <1>16, <1>17, <1>18, <1>19, <1>20,
     <1>21, <1>22, <1>23, <1>24, <1>25, <1>26, <1>27, <1>28, <1>29,
     <1>30, <1>31, <1>32
     DEF Next, StartSteps, StopSteps, EventSteps

RadioInv == TypeOK /\ LockInv /\ DeviceInv

\* RadioInv is inductive.
LEMMA RadioInvariant == Spec => []RadioInv
<1>1. Init => RadioInv
  BY InitType, TunersAssumption
     DEF Init, RadioInv, LockInv, DeviceInv, HoldsIo, HoldsRadio
<1>2. RadioInv /\ [Next]_vars => RadioInv'
  BY TypeInductive, LockInductive, DeviceInductive DEF RadioInv
<1> QED
  BY <1>1, <1>2, PTL DEF Spec

\* No set function called from another thread ever works on a closed device.
THEOREM SetFunctionsOnOpenDevice == Spec => []NoDanglingSet
<1>1. RadioInv => NoDanglingSet
  <2> SUFFICES ASSUME RadioInv, NEW t \in Tuners, tuner[t] = "driver"
               PROVE  devicePtr # 0 /\ devicePtr = openDevice
    BY DEF NoDanglingSet
  <2>1. ioSubsystemLock # "control" /\ control \notin HoldsIo
    BY TunersAssumption DEF RadioInv, LockInv
  <2>2. ioSubsystemLock = t
    BY DEF RadioInv, LockInv
  <2> QED
    BY <2>1, <2>2 DEF RadioInv, LockInv, DeviceInv, HoldsIo
<1> QED
  BY <1>1, RadioInvariant, PTL

\* Whenever ioSubsystemLock is free, flags, handle, driver and data consumer
\* agree on what the last rtlsdr_open gave, be it nothing, and no request to stop
\* is pending.
THEOREM ConsistentWhenUnlocked == Spec => []ReceiverConsistent
<1>1. RadioInv => ReceiverConsistent
  BY DEF RadioInv, LockInv, DeviceInv, HoldsIo, HoldsRadio, ReceiverConsistent
<1> QED
  BY <1>1, RadioInvariant, PTL

\* The AGC is on only in a session that runs or is being stopped.
THEOREM AgcEndsWithSession == Spec => []AgcOnlyWhileReceiving
<1>1. RadioInv => AgcOnlyWhileReceiving
  BY DEF RadioInv, DeviceInv, HoldsRadio, AgcOnlyWhileReceiving
<1> QED
  BY <1>1, RadioInvariant, PTL

(***************************************************************************)
(* Reads.  A stop closes the device with radioLock held; a start that fails *)
(* does not, and undercut tells when it has hit a read.                     *)
(***************************************************************************)
ReadInv ==
  /\ events \in {"reading", "pass", "count"} /\ ~undercut
       => readPtr \in {0, openDevice}
  /\ events = "pass" /\ delivered => readPtr # 0 /\ bytesFrom = readPtr

\* A device is opened only when none is open, and closed by a stop only when no
\* read is under way: the handle of a read stays the open one or null.
LEMMA ReadInductive == RadioInv /\ ReadInv /\ [Next]_vars => ReadInv'
<1> SUFFICES ASSUME RadioInv, ReadInv, [Next]_vars PROVE ReadInv'
  OBVIOUS
<1>a. /\ control = "open" => openDevice = 0
      /\ control \in HoldsRadio => events \notin {"reading", "pass", "count"}
      /\ events \in {"reading", "pass", "count"} => radioLock = "events"
      /\ control # "forget" => devicePtr = openDevice
  BY DEF RadioInv, LockInv, DeviceInv, HoldsIo, HoldsRadio
<1> USE <1>a DEF ReadInv, HoldsRadio
<1>1. CASE callStart
  BY <1>1 DEF callStart
<1>2. CASE startLock
  BY <1>2 DEF startLock
<1>3. CASE openFails
  BY <1>3 DEF openFails
<1>4. CASE openSucceeds
  BY <1>4 DEF openSucceeds
<1>32. CASE openWithoutDevice
  BY <1>32 DEF openWithoutDevice
<1>5. CASE setup
  BY <1>5 DEF setup
<1>6. CASE acceptAndReset
  BY <1>6 DEF acceptAndReset
<1>7. CASE enable
  BY <1>7 DEF enable
<1>8. CASE closeAfterErrors
  BY <1>8 DEF closeAfterErrors
<1>9. CASE forgetDevice
  BY <1>9 DEF forgetDevice
<1>10. CASE callStop
  BY <1>10 DEF callStop
<1>11. CASE stopLock
  BY <1>11 DEF stopLock, AfterStop
<1>12. CASE disable
  BY <1>12 DEF disable
<1>13. CASE discardData
  BY <1>13 DEF discardData
<1>14. CASE close
  BY <1>14 DEF close
<1>15. CASE finishStop
  BY <1>15 DEF finishStop, AfterStop
<1>16. CASE enableAgc
  BY <1>16 DEF enableAgc
<1>17. CASE disableAgc
  BY <1>17 DEF disableAgc
<1>18. CASE destroy
  BY <1>18 DEF destroy
<1>19. CASE joined
  BY <1>19 DEF joined
<1>20. CASE eventsStart
  BY <1>20 DEF eventsStart
<1>21. CASE testTimeToExit
  BY <1>21 DEF testTimeToExit
<1>22. CASE testEnabled
  BY <1>22 DEF testEnabled
<1>23. CASE testRequest
  BY <1>23 DEF testRequest
<1>24. CASE beginRead
  BY <1>24 DEF beginRead
<1>25. CASE endRead
  BY <1>25 DEF endRead, ReadDelivers, ReadFails
<1>26. CASE passBlock
  BY <1>26 DEF passBlock
<1>27. CASE countBlock
  BY <1>27 DEF countBlock
<1>28. ASSUME NEW t \in Tuners, callSet(t) PROVE ReadInv'
  BY <1>28 DEF callSet, TunerOnly
<1>29. ASSUME NEW t \in Tuners, lockSet(t) PROVE ReadInv'
  BY <1>29 DEF lockSet, TunerOnly
<1>30. ASSUME NEW t \in Tuners, endSet(t) PROVE ReadInv'
  BY <1>30 DEF endSet, TunerOnly
<1>31. CASE Terminated \/ UNCHANGED vars
  BY <1>31 DEF Terminated
<1> QED
  BY <1>1, <1>2, <1>3, <1>4, <1>5, <1>6, <1>7, <1>8, <1>9, <1>10, <1>11,
     <1>12, <1>13, <1>14, <1>15, <1>16, <1>17, <1>18, <1>19, <1>20,
     <1>21, <1>22, <1>23, <1>24, <1>25, <1>26, <1>27, <1>28, <1>29,
     <1>30, <1>31, <1>32
     DEF Next, StartSteps, StopSteps, EventSteps

\* Reads and what they deliver are safe for good.
LEMMA ReadInvariant == Spec => [](RadioInv /\ ReadInv)
<1>1. Init => RadioInv /\ ReadInv
  BY InitType, TunersAssumption
     DEF Init, RadioInv, LockInv, DeviceInv, HoldsIo, HoldsRadio, ReadInv
<1>2. RadioInv /\ ReadInv /\ [Next]_vars => (RadioInv /\ ReadInv)'
  BY TypeInductive, LockInductive, DeviceInductive, ReadInductive DEF RadioInv
<1> QED
  BY <1>1, <1>2, PTL DEF Spec

\* No stop and no start closes a device under a read, in whatever order the flags
\* were seen, unless it is a start whose configuration failed.
THEOREM ReadsOnOpenDevice == Spec => []ReadOutlivedByDevice
<1>1. RadioInv /\ ReadInv => ReadOutlivedByDevice
  BY DEF ReadInv, ReadOutlivedByDevice
<1> QED
  BY <1>1, ReadInvariant, PTL

\* What a read has delivered never reaches the data consumer once the device it
\* came from was closed, unless a failed start closed it.
THEOREM BlocksStayInTheirSession == Spec => DeliveredInItsSession
<1>1. RadioInv /\ ReadInv /\ [Next]_vars
        => [passBlock /\ consumerEnabled /\ delivered /\ ~undercut
              => bytesFrom = openDevice]_vars
  BY DEF ReadInv, passBlock
<1> QED
  BY <1>1, ReadInvariant, PTL DEF Spec, DeliveredInItsSession
=============================================================================
