--------------------------- MODULE Program_proofs ---------------------------
(***************************************************************************)
(* Proofs about Program, for any sweeps, any number of clients and lines.   *)
(***************************************************************************)
EXTENDS Program, SequenceTheorems, TLAPS

USE DEF notification, objects, cli, network, vars, ListenerUnchanged, UiUnchanged

(***************************************************************************)
(* Type correctness.                                                        *)
(***************************************************************************)

\* A sweeper whose thread tunes has a frequency left to tune to.
SweeperType ==
    /\ sweeper \in [start : Nat, increment : Nat, count : Nat, dwell : Nat, timeToExit : BOOLEAN,
                    i : Nat, outcome : BOOLEAN,
                    pc : {"none", "first", "while", "for", "tune", "dwell", "ended"}]
    /\ sweeper.i <= sweeper.count
    /\ sweeper.pc = "tune" => sweeper.i < sweeper.count

IInv == TypeOK /\ SweeperType

\* What a client may type, the commands and the empty line.
LEMMA LineType ==
  /\ \A line \in Lines : line.name = "startFrequencySweep" => line.args \in Sweeps
  /\ Line("", NoArgs) \in Lines /\ Line("invalid", NoArgs) \in Lines
<1>1. ASSUME NEW line \in Lines, line.name = "startFrequencySweep"
      PROVE  line.args \in Sweeps
  <2>1. CASE \E name \in Plain : line = Line(name, NoArgs)
    BY <1>1, <2>1 DEF Line, Plain
  <2>2. CASE \E args \in Sweeps : line = Line("startFrequencySweep", args)
    BY <2>2 DEF Line
  <2> QED
    BY <1>1, <2>1, <2>2 DEF Lines
<1>2. \A name \in Plain : Line(name, NoArgs) \in Lines
  BY DEF Lines
<1>3. "" \in Plain /\ "invalid" \in Plain
  BY DEF Plain
<1> QED
  BY <1>1, <1>2, <1>3

\* The sweeper's own steps.
LEMMA SweeperTypeInductive ==
  ASSUME SweeperType, sweepProcedure
  PROVE  SweeperType'
<1>1. CASE SelectFirst
  BY <1>1 DEF SelectFirst, SweeperType
<1>2. CASE BeginSweep
  <2>1. /\ sweeper' \in [start : Nat, increment : Nat, count : Nat, dwell : Nat,
                           timeToExit : BOOLEAN, i : Nat, outcome : BOOLEAN,
                           pc : {"none", "first", "while", "for", "tune", "dwell", "ended"}]
        /\ sweeper'.i = 0 /\ sweeper'.pc = "for"
    BY <1>2 DEF BeginSweep, SweeperType
  <2>2. sweeper'.count \in Nat
    BY <2>1
  <2> QED
    BY <2>1, <2>2 DEF SweeperType
<1>3. CASE EndSweeping
  BY <1>3 DEF EndSweeping, SweeperType
<1>4. CASE NextFrequency
  BY <1>4 DEF NextFrequency, More, SweeperType
<1>5. CASE Tune
  <2>0. PICK success \in BOOLEAN :
           sweeper' = [sweeper EXCEPT !.i = @ + 1, !.outcome = success,
                                      !.pc = IF sweeper.dwell = 0 THEN "for" ELSE "dwell"]
    BY <1>5 DEF Tune
  <2>1. sweeper.i + 1 \in Nat /\ sweeper.i + 1 <= sweeper.count
    BY <1>5 DEF Tune, SweeperType
  <2>2. /\ sweeper' \in [start : Nat, increment : Nat, count : Nat, dwell : Nat,
                           timeToExit : BOOLEAN, i : Nat, outcome : BOOLEAN,
                           pc : {"none", "first", "while", "for", "tune", "dwell", "ended"}]
        /\ sweeper'.i = sweeper.i + 1 /\ sweeper'.count = sweeper.count
        /\ sweeper'.pc # "tune"
    BY <2>0, <2>1 DEF SweeperType
  <2> QED
    BY <2>1, <2>2 DEF SweeperType
<1>6. CASE Dwell
  BY <1>6 DEF Dwell, SweeperType
<1> QED
  BY <1>1, <1>2, <1>3, <1>4, <1>5, <1>6 DEF sweepProcedure

\* A new sweeper, no sweeper, and one told to exit.
LEMMA SweeperValues ==
  ASSUME SweeperType
  PROVE  /\ sweeper' = NoSweeper => SweeperType'
         /\ sweeper' = ToldToExit => SweeperType'
         /\ sweeper' = sweeper => SweeperType'
         /\ \A args \in Sweeps :
              sweeper' = NewSweeper(args.frequency, args.stepSize, args.count,
                                    args.dwellTime % Word32) => SweeperType'
<1>1. sweeper' = NoSweeper => SweeperType'
  BY DEF NoSweeper, SweeperType
<1>2. sweeper' = ToldToExit => SweeperType'
  BY DEF ToldToExit, SweeperType
<1>3. sweeper' = sweeper => SweeperType'
  BY DEF SweeperType
<1>4. ASSUME NEW args \in Sweeps,
             sweeper' = NewSweeper(args.frequency, args.stepSize, args.count,
                                   args.dwellTime % Word32)
      PROVE  SweeperType'
  <2>1. args \in [frequency : Nat, stepSize : Nat, count : Nat, dwellTime : Nat]
    BY ProgramAssumption
  <2>2. args.dwellTime % Word32 \in Nat
    BY <2>1, WordAssumption
  <2>3. (1000 * (args.dwellTime % Word32)) % Word32 \in Nat
    BY <2>2, WordAssumption
  <2> QED
    BY <1>4, <2>1, <2>3 DEF NewSweeper, SweeperType
<1> QED
  BY <1>1, <1>2, <1>3, <1>4

\* The objects' states.
LEMMA ObjectsTypeInductive == ObjectsOK /\ [Next]_vars => ObjectsOK'
<1> SUFFICES ASSUME ObjectsOK, [Next]_vars PROVE ObjectsOK'
  OBVIOUS
<1>1. CASE Client \/ startCliServer \/ SweeperThread \/ UNCHANGED vars
  <2>1. UNCHANGED objects
    BY <1>1 DEF Client, startCliServer, SweeperThread
  <2> QED
    BY <2>1 DEF ObjectsOK
<1>2. CASE userInterfaceProcedure
  <2>1. UNCHANGED <<main, alive, event, consumer, signalCallbackPtr, signalCallbackContextPtr>>
    BY <1>2 DEF userInterfaceProcedure
  <2>2. signalNotificationEnabled' \in BOOLEAN
    <3>1. CASE decodeCommand
      BY <3>1 DEF decodeCommand, cmdExitSystem, cmdStartFrequencySweep, cmdStopFrequencySweep,
         OtherCommand, ObjectsOK
    <3> QED
      BY <1>2, <3>1 DEF userInterfaceProcedure, ObjectsOK
  <2> QED
    BY <2>1, <2>2 DEF ObjectsOK
<1>3. CASE EventThread
  BY <1>3 DEF EventThread, ObjectsOK
<1>4. CASE ConsumerThread
  BY <1>4 DEF ConsumerThread, EndOfBlocks, acceptIqData, CallBack, signalStateCallback,
     ObjectsOK
<1>5. CASE Main
  <2>1. UNCHANGED <<event, consumer>>
    BY <1>5 DEF Main
  <2>2. main' \in {"waiting", "joinListener", "deleteScanner", "clearContext", "clearCallback",
                   "freeScanner", "deleteSweeper", "joinSweeper", "joinEvent", "joinConsumer",
                   "deleteProcessor", "deleteAgc", "ended"}
    BY <1>5 DEF Main, Goes, WaitForExit, diagUi_stop, DeleteScanner, ClearContext,
       ClearCallback, FreeScanner, DeleteSweeper, JoinSweeper, JoinEvent, JoinConsumer,
       DeleteProcessor, DeleteAgc
  <2>3. /\ signalNotificationEnabled' \in {signalNotificationEnabled, FALSE}
        /\ signalCallbackPtr' \in {signalCallbackPtr, FALSE}
        /\ signalCallbackContextPtr' \in {signalCallbackContextPtr, FALSE}
    BY <1>5 DEF Main, WaitForExit, diagUi_stop, DeleteScanner, ClearContext,
       ClearCallback, FreeScanner, DeleteSweeper, JoinSweeper, JoinEvent, JoinConsumer,
       DeleteProcessor, DeleteAgc
  <2> QED
    BY <2>1, <2>2, <2>3 DEF ObjectsOK
<1> QED
  BY <1>1, <1>2, <1>3, <1>4, <1>5 DEF Next

\* Every step keeps every variable in its type.
LEMMA TypeInductive == IInv /\ [Next]_vars => IInv'
<1> SUFFICES ASSUME CliOK, SweeperType, [Next]_vars
             PROVE  CliOK' /\ SweeperType'
  <2>1. SweeperType' => SweeperOK'
    BY DEF SweeperType, SweeperOK
  <2> QED
    BY <2>1, ObjectsTypeInductive DEF IInv, TypeOK
<1> USE SweeperValues
<1>1. CASE Client
  <2>1. SweeperType'
    BY <1>1 DEF Client
  <2>2. CASE Type
    <3>1. PICK line \in Lines : inbox' = Append(inbox, line)
      BY <2>2 DEF Type
    <3>2. inbox' \in Seq(Lines)
      BY <3>1, AppendProperties DEF CliOK
    <3> QED
      BY <1>1, <2>1, <2>2, <3>2 DEF Client, Type, CliOK
  <2>3. CASE Connect \/ Close
    <3>1. CASE Connect
      BY <1>1, <2>1, <3>1 DEF Client, Connect, CliOK
    <3>2. CASE Close
      BY <1>1, <2>1, <3>2 DEF Client, Close, CliOK
    <3> QED
      BY <2>3, <3>1, <3>2
  <2>4. CASE Break
    <3>1. inbox' \in Seq(Lines)
      BY <2>4, EmptySeq DEF Break, CliOK
    <3> QED
      BY <1>1, <2>1, <2>4, <3>1 DEF Client, Break, CliOK
  <2> QED
    BY <1>1, <2>2, <2>3, <2>4 DEF Client
<1>2. CASE startCliServer
  <2>1. SweeperType'
    BY <1>2 DEF startCliServer
  <2>2. CASE Accept \/ CloseConnection
    <3>1. inbox' \in Seq(Lines)
      BY <2>2, EmptySeq DEF Accept, CloseConnection
    <3> QED
      BY <1>2, <2>1, <2>2, <3>1 DEF startCliServer, Accept, CloseConnection, CliOK
  <2>3. CASE CreateSocket \/ NextConnection \/ waitForCliConnection
    BY <1>2, <2>1, <2>3 DEF startCliServer, CreateSocket, NextConnection, waitForCliConnection,
                            CliOK
  <2>4. CASE serviceCliConnection \/ Poll \/ Join
    BY <1>2, <2>1, <2>4 DEF startCliServer, serviceCliConnection, Poll, Join, CliOK
  <2> QED
    BY <1>2, <2>2, <2>3, <2>4 DEF startCliServer
<1>3. CASE userInterfaceProcedure
  <2>1. CASE CreateConsole \/ Loop \/ DeleteConsole
    BY <1>3, <2>1 DEF userInterfaceProcedure, CreateConsole, Loop, MayGoOn, DeleteConsole, CliOK
  <2>2. CASE nprintf \/ Prompt
    BY <1>3, <2>2 DEF userInterfaceProcedure, nprintf, Prompt, putLine, CliOK
  <2>3. CASE getLine
    <3>1. SweeperType' /\ sweeper' = sweeper
      BY <2>3 DEF getLine
    <3>2. CASE diagUi_timeToExit \/ ReadEnd \/ ReadError
      BY <1>3, <2>3, <3>1, <3>2
         DEF userInterfaceProcedure, getLine, ReadEnd, ReadError, ReadLine, CliOK
    <3>3. CASE ~diagUi_timeToExit /\ ReadLine
      <4>1. inbox \in Seq(Lines) /\ inbox # <<>>
        BY <3>3 DEF ReadLine, CliOK
      <4>2. Head(inbox) \in Lines /\ Tail(inbox) \in Seq(Lines)
        BY <4>1, HeadTailProperties
      <4> QED
        BY <1>3, <2>3, <3>1, <3>3, <4>2 DEF userInterfaceProcedure, getLine, ReadLine, CliOK
    <3> QED
      BY <2>3, <3>2, <3>3 DEF getLine
  <2>4. CASE Recall
    BY <1>3, <2>4 DEF userInterfaceProcedure, Recall, CliOK
  <2>5. CASE decodeCommand
    <3>1. SweeperType'
      <4>1. CASE cmdStartFrequencySweep
        BY <4>1, LineType DEF cmdStartFrequencySweep, CliOK
      <4> QED
        BY <2>5, <4>1 DEF decodeCommand, cmdExitSystem, cmdStopFrequencySweep, OtherCommand
    <3>2. CliOK'
      <4>1. ui' \in {"loop", "reply", "joinSweeper"}
        BY <2>5 DEF decodeCommand, cmdExitSystem, cmdStartFrequencySweep, cmdStopFrequencySweep,
           OtherCommand
      <4>2. diagUi_timeToExit' \in BOOLEAN
        BY <2>5 DEF decodeCommand, cmdExitSystem, cmdStartFrequencySweep, cmdStopFrequencySweep,
           OtherCommand, CliOK
      <4> QED
        BY <1>3, <2>5, <4>1, <4>2 DEF userInterfaceProcedure, decodeCommand, CliOK
    <3> QED
      BY <3>1, <3>2
  <2>6. CASE SweeperStopped
    BY <1>3, <2>6 DEF userInterfaceProcedure, SweeperStopped, CliOK
  <2> QED
    BY <1>3, <2>1, <2>2, <2>3, <2>4, <2>5, <2>6 DEF userInterfaceProcedure
<1>4. CASE EventThread \/ ConsumerThread
  BY <1>4 DEF EventThread, ConsumerThread, EndOfBlocks, acceptIqData, CallBack,
     signalStateCallback, CliOK
<1>5. CASE SweeperThread
  <2>1. SweeperType'
    BY <1>5, SweeperTypeInductive DEF SweeperThread
  <2> QED
    BY <1>5, <2>1 DEF SweeperThread, CliOK
<1>6. CASE Main
  <2>1. SweeperType'
    BY <1>6 DEF Main, WaitForExit, diagUi_stop, DeleteScanner, ClearContext,
       ClearCallback, FreeScanner, DeleteSweeper, JoinSweeper,
       JoinEvent, JoinConsumer, DeleteProcessor, DeleteAgc
  <2> QED
    BY <1>6, <2>1 DEF Main, Goes, WaitForExit, diagUi_stop, DeleteScanner, ClearContext,
       ClearCallback, FreeScanner, DeleteSweeper,
       JoinSweeper, JoinEvent, JoinConsumer, DeleteProcessor, DeleteAgc, CliOK
<1>7. CASE UNCHANGED vars
  BY <1>7 DEF CliOK
<1> QED
  BY <1>1, <1>2, <1>3, <1>4, <1>5, <1>6, <1>7 DEF Next

\* All state of the process keeps its type, whatever clients type and do.
THEOREM TypeCorrect == Spec => []TypeOK
<1>1. Init => IInv
  <2> SUFFICES ASSUME Init PROVE TypeOK /\ SweeperType
    BY DEF IInv
  <2>1. SweeperType
    BY DEF Init, CreateObjects, NoSweeper, SweeperType
  <2>2. inbox \in Seq(Lines)
    BY EmptySeq DEF Init
  <2>3. SweeperOK
    BY <2>1 DEF SweeperType, SweeperOK
  <2>4. command \in Lines /\ lastCommand \in Lines
    BY LineType DEF Init, diagUi_start
  <2> QED
    BY <2>1, <2>2, <2>3, <2>4
       DEF Init, CreateObjects, diagUi_start, TypeOK, ObjectsOK, CliOK
<1>2. IInv => TypeOK
  BY DEF IInv
<1> QED
  BY <1>1, <1>2, TypeInductive, PTL DEF Spec

(***************************************************************************)
(* Nothing is used after it was deleted.                                    *)
(***************************************************************************)

\* The places of main, in the order it goes through them.
BeforeListener == {"waiting", "joinListener"}
BeforeCallback == BeforeListener \cup {"deleteScanner", "clearContext", "clearCallback"}
BeforeScanner == BeforeCallback \cup {"freeScanner"}
BeforeSweeper == BeforeScanner \cup {"deleteSweeper", "joinSweeper"}
BeforeEvent == BeforeSweeper \cup {"joinEvent"}
BeforeConsumer == BeforeEvent \cup {"joinConsumer"}

\* A user interface thread is there, running or not joined yet, exactly while
\* the listener serves a connection; the connection is there a little longer.
ConnectionInv ==
    /\ ui # "none" <=> listener \in {"poll", "join"}
    /\ peer # "none" <=> listener \in {"service", "poll", "join", "close"}
    /\ consolePtr => UiRuns

\* What main has deleted, and whom it has waited for before.
ShutdownInv ==
    /\ main \in BeforeScanner => "scanner" \in alive
    /\ main \notin BeforeCallback => ~signalCallbackPtr
    /\ main \notin BeforeListener => listener = "ended"
    /\ main \in BeforeSweeper => "radio" \in alive
    /\ main \notin BeforeSweeper => ~Running
    /\ main \notin BeforeEvent => event = "ended"
    /\ main \in BeforeConsumer => {"dataConsumer", "dataProcessor"} \subseteq alive
    /\ main # "ended" => "agc" \in alive
    /\ main \notin BeforeConsumer => consumer = "ended"

LifeInv == ConnectionInv /\ ShutdownInv

USE DEF BeforeListener, BeforeCallback, BeforeScanner, BeforeSweeper, BeforeEvent, BeforeConsumer, Running, UiRuns

\* The sweeper's thread does not come to life again.
LEMMA NoRevival == ASSUME sweepProcedure PROVE Running
BY DEF sweepProcedure, SelectFirst, BeginSweep, EndSweeping, NextFrequency, Tune, Dwell

\* Sweepers are made by commands only, and commands are executed only while
\* main waits.
LEMMA CommandsWhileWaiting ==
  ASSUME LifeInv, UiRuns
  PROVE  main \in BeforeListener
BY DEF LifeInv, ConnectionInv, ShutdownInv

LEMMA LifeInductive == LifeInv /\ [Next]_vars => LifeInv'
<1> SUFFICES ASSUME LifeInv, [Next]_vars PROVE LifeInv'
  OBVIOUS
<1>1. CASE Client
  <2>1. /\ peer' # "none" <=> peer # "none"
        /\ UNCHANGED <<objects, cli, sweeper>>
    BY <1>1 DEF Client, Connect, Type, Close, Break
  <2> QED
    BY <2>1 DEF LifeInv, ConnectionInv, ShutdownInv
<1>2. CASE startCliServer
  <2>1. UNCHANGED <<objects, sweeper>>
    BY <1>2 DEF startCliServer
  <2>2. listener # "ended"
    BY <1>2 DEF startCliServer, CreateSocket, NextConnection, waitForCliConnection, Accept,
       serviceCliConnection, Poll, Join, CloseConnection
  <2>3. ShutdownInv'
    BY <2>1, <2>2 DEF LifeInv, ShutdownInv
  <2>4. ConnectionInv'
    <3>1. CASE CreateSocket \/ NextConnection \/ waitForCliConnection
      BY <3>1 DEF CreateSocket, NextConnection, waitForCliConnection, LifeInv, ConnectionInv
    <3>2. CASE Accept
      BY <3>2 DEF Accept, LifeInv, ConnectionInv
    <3>3. CASE serviceCliConnection
      BY <3>3 DEF serviceCliConnection, LifeInv, ConnectionInv
    <3>4. CASE Poll
      BY <3>4 DEF Poll, LifeInv, ConnectionInv
    <3>5. CASE Join
      BY <3>5 DEF Join, LifeInv, ConnectionInv
    <3>6. CASE CloseConnection
      BY <3>6 DEF CloseConnection, LifeInv, ConnectionInv
    <3> QED
      BY <1>2, <3>1, <3>2, <3>3, <3>4, <3>5, <3>6 DEF startCliServer
  <2> QED
    BY <2>3, <2>4 DEF LifeInv
<1>3. CASE userInterfaceProcedure
  <2>1. /\ UiRuns /\ ui' # "none"
        /\ ui' = "ended" => ~consolePtr'
        /\ peer' = "none" <=> peer = "none"
    <3>1. CASE CreateConsole \/ Loop \/ DeleteConsole
      BY <3>1 DEF CreateConsole, Loop, DeleteConsole
    <3>2. CASE nprintf \/ Prompt
      BY <3>2 DEF nprintf, Prompt, putLine
    <3>3. CASE getLine
      BY <3>3 DEF getLine, ReadLine, ReadEnd, ReadError
    <3>4. CASE Recall \/ SweeperStopped
      BY <3>4 DEF Recall, SweeperStopped
    <3>5. CASE decodeCommand
      BY <3>5 DEF decodeCommand, cmdExitSystem, cmdStartFrequencySweep, cmdStopFrequencySweep,
         OtherCommand
    <3> QED
      BY <1>3, <3>1, <3>2, <3>3, <3>4, <3>5 DEF userInterfaceProcedure
  <2>2. UNCHANGED <<main, alive, event, consumer, signalCallbackPtr, listener>>
    BY <1>3 DEF userInterfaceProcedure
  <2>3. main \in BeforeListener
    BY <2>1, CommandsWhileWaiting
  <2> QED
    BY <2>1, <2>2, <2>3 DEF LifeInv, ConnectionInv, ShutdownInv
<1>4. CASE EventThread \/ ConsumerThread
  <2>1. UNCHANGED <<main, alive, notification, cli, network, sweeper>>
    BY <1>4 DEF EventThread, ConsumerThread
  <2>2. event = "ended" => event' = "ended"
    BY <1>4 DEF EventThread, ConsumerThread
  <2>3. consumer = "ended" => consumer' = "ended"
    BY <1>4 DEF EventThread, ConsumerThread, EndOfBlocks, acceptIqData, CallBack,
       signalStateCallback
  <2> QED
    BY <2>1, <2>2, <2>3 DEF LifeInv, ConnectionInv, ShutdownInv
<1>5. CASE SweeperThread
  <2>1. Running /\ UNCHANGED <<objects, cli, network>>
    BY <1>5, NoRevival DEF SweeperThread
  <2> QED
    BY <2>1 DEF LifeInv, ConnectionInv, ShutdownInv
<1>6. CASE Main
  <2>1. UNCHANGED <<event, consumer, cli, network>>
    BY <1>6 DEF Main
  <2>2. ConnectionInv'
    BY <2>1 DEF LifeInv, ConnectionInv
  <2>3. ShutdownInv'
    <3>1. CASE WaitForExit \/ diagUi_stop
      BY <2>1, <3>1 DEF WaitForExit, diagUi_stop, Goes, LifeInv, ShutdownInv
    <3>2. CASE DeleteScanner \/ ClearContext \/ ClearCallback \/ FreeScanner
      BY <2>1, <3>2 DEF DeleteScanner, ClearContext, ClearCallback, FreeScanner, Goes, LifeInv,
         ShutdownInv
    <3>3. CASE DeleteSweeper
      BY <2>1, <3>3 DEF DeleteSweeper, Goes, LifeInv, ShutdownInv
    <3>4. CASE JoinSweeper
      BY <2>1, <3>4 DEF JoinSweeper, NoSweeper, Goes, LifeInv, ShutdownInv
    <3>5. CASE JoinEvent
      BY <2>1, <3>5 DEF JoinEvent, Goes, LifeInv, ShutdownInv
    <3>6. CASE JoinConsumer
      BY <2>1, <3>6 DEF JoinConsumer, Goes, LifeInv, ShutdownInv
    <3>7. CASE DeleteProcessor \/ DeleteAgc
      BY <2>1, <3>7 DEF DeleteProcessor, DeleteAgc, Goes, LifeInv, ShutdownInv
    <3> QED
      BY <1>6, <3>1, <3>2, <3>3, <3>4, <3>5, <3>6, <3>7 DEF Main
  <2> QED
    BY <2>2, <2>3 DEF LifeInv
<1>7. CASE UNCHANGED vars
  BY <1>7 DEF LifeInv, ConnectionInv, ShutdownInv
<1> QED
  BY <1>1, <1>2, <1>3, <1>4, <1>5, <1>6, <1>7 DEF Next

\* Whatever the clients do, and whatever is typed, the order in which radioApp.cc
\* joins and deletes keeps the objects its threads work on, the two uses left out
\* of RadioOutlivesItsUsers apart; main ends alone.
THEOREM NothingOutlived == Spec => []RadioOutlivesItsUsers
<1>1. Init => LifeInv
  BY DEF Init, CreateObjects, diagUi_start, NoSweeper, LifeInv, ConnectionInv, ShutdownInv
<1>2. LifeInv => RadioOutlivesItsUsers
  BY DEF LifeInv, ConnectionInv, ShutdownInv, RadioOutlivesItsUsers
<1> QED
  BY <1>1, <1>2, LifeInductive, PTL DEF Spec
=============================================================================
