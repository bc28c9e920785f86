------------------------------ MODULE Program ------------------------------
(***************************************************************************)
(* The whole process (radioApp.cc, diagUi.cc, console.cc,                   *)
(* FrequencySweeper.cc): main creates the objects and waits; a listener     *)
(* thread accepts one client after the other and creates a user interface   *)
(* thread for each; commands create and delete the sweeper and end the      *)
(* program; main then takes everything down in its order.  Clients come,    *)
(* type, close or break their connection as they like.                      *)
(*                                                                          *)
(* A line a client types is one item; characters, backspaces and lines cut  *)
(* off by a disconnection never get beyond getLine.  The commands that do   *)
(* not start or end a thread are one, "other"; their effects are the        *)
(* subject of the other modules.                                            *)
(***************************************************************************)
EXTENDS FrequencySweeper, Sequences

CONSTANTS Sweeps,          \* [frequency, stepSize, count, dwellTime]: arguments typed
          MaxClients,      \* bound: connections made
          MaxLines         \* bound: lines typed

Highest == 1700
Lowest == 24

Line(name, args) == [name |-> name, args |-> args]
NoArgs == [frequency |-> 0, stepSize |-> 0, count |-> 0, dwellTime |-> 0]
Plain == {"exitSystem", "stopFrequencySweep", "other", "repeat", "invalid", ""}
Lines == {Line(name, NoArgs) : name \in Plain}
         \cup {Line("startFrequencySweep", args) : args \in Sweeps}

ASSUME ProgramAssumption ==
    /\ Sweeps \subseteq [frequency : Nat, stepSize : Nat, count : Nat, dwellTime : Nat]
    /\ MaxClients \in Nat /\ MaxLines \in Nat

VARIABLES main,            \* where main is
          alive,           \* the objects not deleted yet
          event, consumer, \* where Radio's event thread and the data consumer's are
          signalNotificationEnabled, signalCallbackPtr, signalCallbackContextPtr,
                           \* IqDataProcessor's, of the scanner; a pointer: is it set
          listener, ui,    \* where those two threads are
          serverSocket,    \* "listening", "unbound" or "none"
          waiting,         \* a client waits to be accepted
          peer,            \* the client at the other end of connectFileDescriptor
          inbox,           \* lines typed and not read
          consoleConnected, consolePtr, diagUi_timeToExit,
          command,         \* the line being executed
          lastCommand,     \* lastCommandBuffer
          killed,          \* a signal (SIGPIPE, SIGSEGV) has ended the process
          clients, typed   \* history: connections made, lines typed

notification == <<signalNotificationEnabled, signalCallbackPtr, signalCallbackContextPtr>>
objects == <<main, alive, event, consumer, notification>>
cli == <<listener, ui, serverSocket, consoleConnected, consolePtr, diagUi_timeToExit,
         command, lastCommand>>
network == <<waiting, peer, inbox, clients, typed>>
vars == <<objects, cli, network, killed, sweeper, receiveFrequency>>

\* main up to its loop.
CreateObjects ==
    /\ main = "waiting"
    /\ alive = {"radio", "scanner", "dataConsumer", "dataProcessor", "agc"}
    /\ event = "running" /\ consumer = "block"
    /\ signalNotificationEnabled = FALSE
    /\ signalCallbackPtr = TRUE /\ signalCallbackContextPtr = TRUE
    /\ sweeper = NoSweeper /\ receiveFrequency = 162

diagUi_start ==
    /\ listener = "start" /\ ui = "none"
    /\ consoleConnected = FALSE /\ consolePtr = FALSE /\ diagUi_timeToExit = FALSE
    /\ command = Line("", NoArgs) /\ lastCommand = Line("invalid", NoArgs)

Init ==
    /\ CreateObjects /\ diagUi_start
    /\ serverSocket \in {"listening", "unbound", "none"}
    /\ waiting = FALSE /\ peer = "none" /\ inbox = <<>>
    /\ killed = FALSE /\ clients = 0 /\ typed = 0
----------------------------------------------------------------------------
(* The clients (the kernel's part of the connection included).  A client    *)
(* that is gone answers what it is sent with a reset; after a reset the     *)
(* process may first be told by an error ("reset"), afterwards a read       *)
(* returns 0 and a write raises SIGPIPE ("gone").                           *)

Connect ==
    /\ serverSocket = "listening" /\ listener # "ended" /\ ~waiting /\ clients < MaxClients
    /\ waiting' = TRUE /\ clients' = clients + 1
    /\ UNCHANGED <<peer, inbox, typed>>

Type ==
    /\ peer = "open" /\ typed < MaxLines
    /\ \E line \in Lines : inbox' = Append(inbox, line)
    /\ typed' = typed + 1
    /\ UNCHANGED <<waiting, peer, clients>>

Close ==
    /\ peer = "open" /\ peer' = "closed"
    /\ UNCHANGED <<waiting, inbox, clients, typed>>

Break ==
    /\ peer \in {"open", "closed"} /\ peer' = "reset"
    /\ inbox' \in {inbox, <<>>}
    /\ UNCHANGED <<waiting, clients, typed>>

Client == /\ ~killed /\ main # "ended"
          /\ (Connect \/ Type \/ Close \/ Break)
          /\ UNCHANGED <<objects, cli, killed, sweeper, receiveFrequency>>
----------------------------------------------------------------------------
(* The listener thread: startCliServer.                                     *)

ListenerUnchanged == UNCHANGED <<serverSocket, diagUi_timeToExit, consolePtr, command, lastCommand>>

CreateSocket ==
    /\ listener = "start"
    /\ listener' = IF serverSocket = "none" THEN "ended" ELSE "next"
    /\ UNCHANGED <<ui, consoleConnected, network>> /\ ListenerUnchanged

NextConnection ==
    /\ listener = "next"
    /\ IF diagUi_timeToExit
       THEN listener' = "ended" /\ UNCHANGED consoleConnected
       ELSE listener' = "select" /\ consoleConnected' = FALSE
    /\ UNCHANGED <<ui, network>> /\ ListenerUnchanged

\* Every second it looks whether to exit; a socket that could not be bound
\* counts as ready.
waitForCliConnection ==
    /\ listener = "select"
    /\ \/ diagUi_timeToExit /\ listener' = "next"
       \/ ~diagUi_timeToExit /\ (waiting \/ serverSocket = "unbound") /\ listener' = "accept"
    /\ UNCHANGED <<ui, consoleConnected, network>> /\ ListenerUnchanged

\* On a socket that is not bound accept fails again and again.
Accept ==
    /\ listener = "accept" /\ waiting
    /\ waiting' = FALSE /\ peer' = "open" /\ inbox' = <<>>
    /\ listener' = "service"
    /\ UNCHANGED <<ui, consoleConnected, clients, typed>> /\ ListenerUnchanged

serviceCliConnection ==
    /\ listener = "service"
    /\ consoleConnected' = TRUE
    /\ ui' = "create"
    /\ listener' = "poll"
    /\ UNCHANGED network /\ ListenerUnchanged

\* Every 100 ms.
Poll ==
    /\ listener = "poll" /\ (~consoleConnected \/ diagUi_timeToExit)
    /\ listener' = "join"
    /\ UNCHANGED <<ui, consoleConnected, network>> /\ ListenerUnchanged

Join ==
    /\ listener = "join" /\ ui = "ended"
    /\ ui' = "none" /\ listener' = "close"
    /\ UNCHANGED <<consoleConnected, network>> /\ ListenerUnchanged

CloseConnection ==
    /\ listener = "close"
    /\ peer' = "none" /\ inbox' = <<>> /\ listener' = "next"
    /\ UNCHANGED <<ui, consoleConnected, waiting, clients, typed>> /\ ListenerUnchanged

startCliServer ==
    /\ ~killed /\ main # "ended"
    /\ \/ CreateSocket \/ NextConnection \/ waitForCliConnection \/ Accept
       \/ serviceCliConnection \/ Poll \/ Join \/ CloseConnection
    /\ UNCHANGED <<objects, killed, sweeper, receiveFrequency>>
----------------------------------------------------------------------------
(* The user interface thread: userInterfaceProcedure.                       *)

UiUnchanged == UNCHANGED <<main, alive, event, consumer, signalCallbackPtr,
                           signalCallbackContextPtr, listener, serverSocket, waiting, clients,
                           typed>>

\* console::putLine, and what becomes of the connection.
putLine ==
    \/ peer = "open" /\ UNCHANGED <<peer, killed>>
    \/ peer = "closed" /\ peer' \in {"closed", "reset"} /\ UNCHANGED killed
    \/ peer = "reset" /\ peer' = "gone" /\ UNCHANGED killed
    \/ peer = "reset" /\ UNCHANGED peer /\ killed' = TRUE
    \/ peer = "gone" /\ UNCHANGED peer /\ killed' = TRUE

CreateConsole ==
    /\ ui = "create"
    /\ consolePtr' = TRUE /\ ui' = "greet"
    /\ UNCHANGED <<peer, inbox, consoleConnected, diagUi_timeToExit, command, lastCommand,
                   killed, sweeper, receiveFrequency>>

nprintf ==
    /\ ui \in {"greet", "reply"} /\ putLine
    /\ ui' = "loop"
    /\ UNCHANGED <<inbox, consoleConnected, consolePtr, diagUi_timeToExit, command, lastCommand,
                   sweeper, receiveFrequency>>

\* Faulty variant: only a disconnection ends the thread.
UntilDisconnected == consoleConnected

MayGoOn == ~diagUi_timeToExit /\ consoleConnected

Loop ==
    /\ ui = "loop"
    /\ ui' = IF MayGoOn THEN "prompt" ELSE "delete"
    /\ UNCHANGED <<peer, inbox, consoleConnected, consolePtr, diagUi_timeToExit, command,
                   lastCommand, killed, sweeper, receiveFrequency>>

Prompt ==
    /\ ui = "prompt" /\ putLine
    /\ ui' = "getChar"
    /\ UNCHANGED <<inbox, consoleConnected, consolePtr, diagUi_timeToExit, command, lastCommand,
                   sweeper, receiveFrequency>>

\* getLine: a line without characters is no command.
ReadLine ==
    /\ inbox # <<>>
    /\ command' = Head(inbox) /\ inbox' = Tail(inbox)
    /\ ui' = IF command'.name = "" THEN "loop" ELSE "execute"
    /\ UNCHANGED <<peer, consoleConnected>>

\* Faulty variant: the end of the connection is taken for a character.
ReadEndUnnoticed ==
    /\ inbox = <<>> /\ peer \in {"closed", "gone"}
    /\ UNCHANGED <<ui, consoleConnected, peer, inbox, command>>

\* getChar has read nothing.
ReadEnd ==
    /\ inbox = <<>> /\ peer \in {"closed", "gone"}
    /\ consoleConnected' = FALSE
    /\ ui' = "loop"
    /\ UNCHANGED <<peer, inbox, command>>

\* An error is not noticed: the character is whatever the stack held, the
\* end of a line or not.
ReadError ==
    /\ inbox = <<>> /\ peer = "reset"
    /\ peer' = "gone" /\ ui' \in {"getChar", "loop"}
    /\ UNCHANGED <<inbox, consoleConnected, command>>

\* getChar looks every 2 ms for a character and for the end of the program.
getLine ==
    /\ ui = "getChar"
    /\ IF diagUi_timeToExit
       THEN ui' = "loop" /\ UNCHANGED <<peer, inbox, consoleConnected, command>>
       ELSE ReadLine \/ ReadEnd \/ ReadError
    /\ UNCHANGED <<consolePtr, diagUi_timeToExit, lastCommand, killed, sweeper, receiveFrequency>>

\* ^B stands for the last line that was not ^B.
Recall ==
    /\ ui = "execute"
    /\ IF command.name = "repeat"
       THEN command' = lastCommand /\ UNCHANGED lastCommand
       ELSE lastCommand' = command /\ UNCHANGED command
    /\ ui' = "decode"
    /\ UNCHANGED <<peer, inbox, consoleConnected, consolePtr, diagUi_timeToExit, killed,
                   sweeper, receiveFrequency>>

cmdExitSystem ==
    /\ command.name = "exitSystem"
    /\ diagUi_timeToExit' = TRUE
    /\ ui' = "loop"
    /\ UNCHANGED <<sweeper, signalNotificationEnabled>>

\* The product and the sum are 64 bits wide.
UpperFrequency(args) == (args.frequency + (args.stepSize * args.count)) % Word64

cmdStartFrequencySweep ==
    /\ command.name = "startFrequencySweep"
    /\ LET args == command.args IN
       sweeper' = IF ~Exists /\ args.frequency \in Lowest..Highest /\ UpperFrequency(args) <= Highest
                  THEN NewSweeper(args.frequency, args.stepSize, args.count,
                                  args.dwellTime % Word32)
                  ELSE sweeper
    /\ ui' = "reply"
    /\ UNCHANGED <<diagUi_timeToExit, signalNotificationEnabled>>

\* Deletes the sweeper; without one it does not even answer.
cmdStopFrequencySweep ==
    /\ command.name = "stopFrequencySweep"
    /\ IF Exists THEN sweeper' = ToldToExit /\ ui' = "joinSweeper"
       ELSE ui' = "loop" /\ UNCHANGED sweeper
    /\ UNCHANGED <<diagUi_timeToExit, signalNotificationEnabled>>

\* The scanner is started and stopped by one of these.
OtherCommand ==
    /\ command.name \in {"other", "invalid"}
    /\ IF command.name = "other" THEN signalNotificationEnabled' \in BOOLEAN
       ELSE UNCHANGED signalNotificationEnabled
    /\ ui' = "reply"
    /\ UNCHANGED <<diagUi_timeToExit, sweeper>>

decodeCommand ==
    /\ ui = "decode"
    /\ cmdExitSystem \/ cmdStartFrequencySweep \/ cmdStopFrequencySweep \/ OtherCommand
    /\ UNCHANGED <<peer, inbox, consoleConnected, consolePtr, command, lastCommand, killed,
                   receiveFrequency>>

SweeperStopped ==
    /\ ui = "joinSweeper" /\ sweeper.pc = "ended"
    /\ sweeper' = NoSweeper
    /\ ui' = "reply"
    /\ UNCHANGED <<peer, inbox, consoleConnected, consolePtr, diagUi_timeToExit, command,
                   lastCommand, killed, receiveFrequency>>

DeleteConsole ==
    /\ ui = "delete"
    /\ consolePtr' = FALSE /\ ui' = "ended"
    /\ UNCHANGED <<peer, inbox, consoleConnected, diagUi_timeToExit, command, lastCommand,
                   killed, sweeper, receiveFrequency>>

userInterfaceProcedure ==
    /\ ~killed /\ main # "ended"
    /\ \/ /\ \/ CreateConsole \/ nprintf \/ Loop \/ Prompt \/ getLine \/ Recall
             \/ SweeperStopped \/ DeleteConsole
          /\ UNCHANGED signalNotificationEnabled
       \/ decodeCommand
    /\ UiUnchanged
----------------------------------------------------------------------------
(* Radio's two threads; a request to exit reaches them (Radio and           *)
(* DataConsumer say when it does not).  The data consumer passes block after *)
(* block to acceptIqData, which notifies the scanner with no lock.           *)

EventThread ==
    /\ ~killed /\ main = "joinEvent" /\ event = "running"
    /\ event' = "ended"
    /\ UNCHANGED <<main, alive, consumer, notification, cli, network, killed, sweeper,
                   receiveFrequency>>

EndOfBlocks ==
    /\ consumer = "block" /\ main = "joinConsumer"
    /\ consumer' = "ended"
    /\ UNCHANGED killed

\* A block through dequeueEntry and acceptIqData as far as the call of the scanner;
\* one without a notification changes nothing here.  The callback's pointer is
\* read once, for the test and for the call.
acceptIqData ==
    /\ consumer = "block" /\ main # "joinConsumer"
    /\ signalNotificationEnabled /\ signalCallbackPtr
    /\ consumer' = "call"
    /\ UNCHANGED killed

\* The context it is called with is read after it.
CallBack ==
    /\ consumer = "call"
    /\ consumer' = IF signalCallbackContextPtr THEN "scanner" ELSE "nullScanner"
    /\ UNCHANGED killed

\* signalStateCallback, and run if the scanner is scanning.  A null pointer ends
\* the process; a scanner that was deleted may, or is taken for one that scans
\* or does not.
signalStateCallback ==
    /\ consumer \in {"scanner", "nullScanner"}
    /\ \/ consumer = "scanner" /\ consumer' = "block" /\ UNCHANGED killed
       \/ /\ consumer = "nullScanner" \/ "scanner" \notin alive
          /\ killed' = TRUE /\ UNCHANGED consumer

ConsumerThread ==
    /\ ~killed /\ main # "ended"
    /\ EndOfBlocks \/ acceptIqData \/ CallBack \/ signalStateCallback
    /\ UNCHANGED <<main, alive, event, notification, cli, network, sweeper, receiveFrequency>>

SweeperThread ==
    /\ ~killed /\ main # "ended"
    /\ sweepProcedure
    /\ UNCHANGED <<objects, cli, network, killed>>
----------------------------------------------------------------------------
(* main.                                                                    *)

Goes(from, to) == main = from /\ main' = to

WaitForExit ==
    /\ Goes("waiting", "joinListener") /\ diagUi_timeToExit
    /\ UNCHANGED <<alive, notification, sweeper>>

\* Faulty variant: nobody waits for the listener.
diagUi_stopWithoutJoin ==
    /\ Goes("joinListener", "deleteScanner")
    /\ UNCHANGED <<alive, notification, sweeper>>

diagUi_stop ==
    /\ Goes("joinListener", "deleteScanner") /\ listener = "ended"
    /\ UNCHANGED <<alive, notification, sweeper>>

\* The scanner's destructor, while the data consumer runs: the notification is
\* switched off, then the context and the callback are unregistered, in this
\* order, then the memory is released.
DeleteScanner ==
    /\ Goes("deleteScanner", "clearContext")
    /\ signalNotificationEnabled' = FALSE
    /\ UNCHANGED <<alive, signalCallbackPtr, signalCallbackContextPtr, sweeper>>

ClearContext ==
    /\ Goes("clearContext", "clearCallback")
    /\ signalCallbackContextPtr' = FALSE
    /\ UNCHANGED <<alive, signalNotificationEnabled, signalCallbackPtr, sweeper>>

ClearCallback ==
    /\ Goes("clearCallback", "freeScanner")
    /\ signalCallbackPtr' = FALSE
    /\ UNCHANGED <<alive, signalNotificationEnabled, signalCallbackContextPtr, sweeper>>

FreeScanner ==
    /\ Goes("freeScanner", "deleteSweeper")
    /\ alive' = alive \ {"scanner"}
    /\ UNCHANGED <<notification, sweeper>>

DeleteSweeper ==
    /\ Goes("deleteSweeper", "joinSweeper")
    /\ sweeper' = IF Exists THEN ToldToExit ELSE sweeper
    /\ UNCHANGED <<alive, notification>>

JoinSweeper ==
    /\ Goes("joinSweeper", "joinEvent") /\ ~Running
    /\ sweeper' = NoSweeper
    /\ alive' = alive \ {"radio"}      \* its destructor begins
    /\ UNCHANGED notification

\* The event thread, then the receiver, then the data consumer with its thread.
JoinEvent ==
    /\ Goes("joinEvent", "joinConsumer") /\ event = "ended"
    /\ UNCHANGED <<alive, notification, sweeper>>

JoinConsumer ==
    /\ Goes("joinConsumer", "deleteProcessor") /\ consumer = "ended"
    /\ alive' = alive \ {"dataConsumer"}
    /\ UNCHANGED <<notification, sweeper>>

DeleteProcessor ==
    /\ Goes("deleteProcessor", "deleteAgc")
    /\ alive' = alive \ {"dataProcessor"}
    /\ UNCHANGED <<notification, sweeper>>

\* The destructor switches its notification off and unregisters its callback in
\* the data processor, which is no more: a write to memory that was released.
DeleteAgc ==
    /\ Goes("deleteAgc", "ended")
    /\ alive' = alive \ {"agc"}
    /\ UNCHANGED <<notification, sweeper>>

Main ==
    /\ ~killed
    /\ \/ WaitForExit \/ diagUi_stop
       \/ DeleteScanner \/ ClearContext \/ ClearCallback \/ FreeScanner
       \/ DeleteSweeper \/ JoinSweeper
       \/ JoinEvent \/ JoinConsumer \/ DeleteProcessor \/ DeleteAgc
    /\ UNCHANGED <<event, consumer, cli, network, killed, receiveFrequency>>
----------------------------------------------------------------------------
Next == \/ Client \/ startCliServer \/ userInterfaceProcedure
        \/ EventThread \/ ConsumerThread \/ SweeperThread \/ Main

\* The scheduler forgets no thread; the clients owe nothing.
Spec ==
    /\ Init /\ [][Next]_vars
    /\ WF_vars(startCliServer) /\ WF_vars(userInterfaceProcedure)
    /\ WF_vars(EventThread) /\ WF_vars(ConsumerThread) /\ WF_vars(SweeperThread)
    /\ WF_vars(Main)
----------------------------------------------------------------------------
ObjectsOK ==
    /\ main \in {"waiting", "joinListener", "deleteScanner", "clearContext", "clearCallback",
                 "freeScanner", "deleteSweeper", "joinSweeper", "joinEvent", "joinConsumer",
                 "deleteProcessor", "deleteAgc", "ended"}
    /\ event \in {"running", "ended"}
    /\ consumer \in {"block", "call", "scanner", "nullScanner", "ended"}
    /\ signalNotificationEnabled \in BOOLEAN
    /\ signalCallbackPtr \in BOOLEAN /\ signalCallbackContextPtr \in BOOLEAN

CliOK ==
    /\ listener \in {"start", "next", "select", "accept", "service", "poll", "join", "close",
                     "ended"}
    /\ ui \in {"none", "create", "greet", "loop", "prompt", "getChar", "execute", "decode",
               "reply", "joinSweeper", "delete", "ended"}
    /\ peer \in {"none", "open", "closed", "reset", "gone"}
    /\ inbox \in Seq(Lines) /\ command \in Lines /\ lastCommand \in Lines
    /\ {waiting, consoleConnected, consolePtr, diagUi_timeToExit, killed} \subseteq BOOLEAN

SweeperOK ==
    /\ sweeper.pc \in {"none", "first", "while", "for", "tune", "dwell", "ended"}
    /\ sweeper.i \in 0..sweeper.count

TypeOK == ObjectsOK /\ CliOK /\ SweeperOK

UiRuns == ui \notin {"none", "ended"}

\* The order of the joins protects what the threads work on: while the user
\* interface thread runs, radio, scanner and the client's descriptor are there
\* (and the console just as long); the sweeper has its radio, the event thread
\* its data consumer; the data consumer has its data processor and the AGC it
\* calls back; a callback that is registered has its scanner; and main ends alone
\* (radioApp.cc:258-289, Radio.cc:218-282, diagUi.cc:2399-2429).  Two uses of
\* deleted objects are not protected by it, and are not claimed here: a
\* notification of the scanner that is under way when the scanner is deleted
\* (ScannerOutlivesItsNotification), and what the AGC's destructor writes to the
\* data processor (DeleteAgc).
RadioOutlivesItsUsers ==
    /\ UiRuns => ({"radio", "scanner"} \subseteq alive /\ peer # "none")
    /\ consolePtr => UiRuns
    /\ Running => "radio" \in alive
    /\ event # "ended" => "dataConsumer" \in alive
    /\ consumer # "ended" => {"dataConsumer", "dataProcessor", "agc"} \subseteq alive
    /\ signalCallbackPtr => "scanner" \in alive
    /\ main = "ended" =>
         listener = "ended" /\ ~UiRuns /\ ~Running /\ event = "ended" /\ consumer = "ended"

\* "Disable callback function processing", "Unregister the callback": once the
\* scanner is deleted nobody is inside its callback any more, and nobody calls it
\* with no scanner at all.  The code does not see to that: the destructor does
\* not wait for the data consumer, which main joins only in Radio's destructor.
ScannerOutlivesItsNotification ==
    /\ consumer = "scanner" => "scanner" \in alive
    /\ consumer # "nullScanner"

\* Once a client has said "exit system" the process ends, whatever the
\* clients do, whether a sweep is under way or not.
ExitEndsProgram == diagUi_timeToExit ~> (main = "ended" \/ killed)

\* A connection that is closed or broken by the client is given up, and the
\* next client can be served (diagUi.cc:2413 polls for it, console.cc:121
\* tells).
ServedAgain ==
    (listener = "poll" /\ peer \in {"closed", "reset", "gone"})
        ~> (listener = "select" \/ diagUi_timeToExit \/ killed)

\* A sweep asks for each of its frequencies again and again until it is told to
\* exit, whatever the radio says to the others: its outcome is not looked at
\* (FrequencySweeper.cc:212-230).  Unless refused the frequency is then tuned to.
SweepGoesOn ==
    \A n \in {s.count : s \in Sweeps} \ {0} :
        (Running /\ n <= sweeper.count /\ ~sweeper.timeToExit)
            ~> \/ sweeper.i = n /\ (sweeper.outcome => receiveFrequency = Frequency(n - 1))
               \/ ~Running \/ sweeper.timeToExit \/ killed
=============================================================================
