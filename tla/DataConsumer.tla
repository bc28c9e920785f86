---------------------------- MODULE DataConsumer ----------------------------
(***************************************************************************)
(* The hand-over of IQ blocks from the radio's event consumer thread to the *)
(* data consumer thread (src/radioDiags/src_diags/DataConsumer.cc).         *)
(*                                                                          *)
(* A block is copied into the next slot of a pool of messages, the slot's   *)
(* address goes through a MessageQueue with as many slots as the pool, and  *)
(* the data consumer thread processes the block in place, in the pool.      *)
(* Nothing tells the producer that a slot is free again: the pool is safe   *)
(* only as long as the consumer keeps up.                                   *)
(*                                                                          *)
(* A block is its number: the n-th block accepted since the object was      *)
(* made carries timeStamp n.                                                *)
(***************************************************************************)
EXTENDS Naturals

CONSTANTS NumberOfMessages,  \* DATA_CONSUMER_NUMBER_OF_MESSAGES
          BufferSize,        \* DATA_CONSUMER_BUFFER_SIZE
          BufferLengths,     \* lengths acceptData is called with
          NoMessage,         \* the null message pointer
          MaxBlocks          \* bound on the blocks accepted

ASSUME NumberOfMessagesAssumption == NumberOfMessages \in Nat \ {0}
ASSUME LengthsAssumption == BufferSize \in Nat /\ BufferLengths \subseteq Nat
ASSUME MaxBlocksAssumption == MaxBlocks \in Nat
ASSUME NoMessageAssumption == NoMessage \notin 0 .. NumberOfMessages - 1

VARIABLES message,          \* the pool: slot -> block, length, copy complete
          messageIndex,     \* slot the next block goes to
          enabled,          \* is data accepted
          lastTimeStamp,
          shortBlockCount,
          timeToExit,       \* request for the data consumer thread to end
          producer,         \* where the event consumer thread is in acceptData
          consumer,         \* where the data consumer thread is
          owner,            \* the object's life: alive, joining, destroyed
          queuePtr, head, tail, signalling, waiting, woken, returned, \* queue
          accepted,         \* history: number of the last block accepted
          delivered,        \* history: number of the last block handed over
          everFull          \* history: a block came when the queue had no room

queueVars == <<queuePtr, head, tail, signalling, waiting, woken, returned>>
poolVars == <<message, messageIndex, lastTimeStamp, shortBlockCount>>
vars == <<poolVars, enabled, timeToExit, producer, consumer, owner, queueVars,
          accepted, delivered, everFull>>

Pool == 0 .. NumberOfMessages - 1
Radio == "radio"     \* the thread that calls acceptData
Reader == "reader"   \* the data consumer thread

Queue == INSTANCE MessageQueue
           WITH numberOfEntries <- NumberOfMessages, Producers <- {Radio},
                Consumers <- {Reader}, Entries <- Pool, NULL <- NoMessage

Message == [block : 0 .. MaxBlocks, byteCount : 0 .. BufferSize,
            complete : BOOLEAN]

\* The thread exists as soon as the constructor returns, but it may not have run
\* yet.  timeToExit is not set by the constructor: it holds whatever was there.
Init == /\ message = [i \in Pool |-> [block |-> 0, byteCount |-> 0,
                                      complete |-> TRUE]]
        /\ messageIndex = 0
        /\ enabled = FALSE
        /\ lastTimeStamp = 0
        /\ shortBlockCount = 0
        /\ timeToExit \in BOOLEAN
        /\ producer = "idle"
        /\ consumer = "starting"
        /\ owner = "alive"
        /\ Queue!Init
        /\ accepted = 0
        /\ delivered = 0
        /\ everFull = FALSE
----------------------------------------------------------------------------
(* acceptData, called by the event consumer thread with radioLock held.     *)

\* Faulty variant: the length is not clipped to the message buffer.
NotClipped(length) == length

Clipped(length) == IF length > BufferSize THEN BufferSize ELSE length

\* The header is stored and memcpy begins.
acceptData(length) ==
  /\ owner = "alive" /\ producer = "idle" /\ enabled
  /\ accepted < MaxBlocks
  /\ lastTimeStamp' = accepted + 1
  /\ shortBlockCount' = shortBlockCount + (IF length < BufferSize THEN 1 ELSE 0)
  /\ message' = [message EXCEPT ![messageIndex] =
                   [block |-> accepted + 1, byteCount |-> Clipped(length),
                    complete |-> FALSE]]
  /\ accepted' = accepted + 1
  /\ everFull' = (everFull \/ Queue!Pending = NumberOfMessages - 1)
  /\ producer' = "copying"
  /\ UNCHANGED <<messageIndex, enabled, timeToExit, consumer, owner, queueVars,
                 delivered>>

copyDone ==
  /\ producer = "copying"
  /\ message' = [message EXCEPT ![messageIndex].complete = TRUE]
  /\ producer' = "enqueue"
  /\ UNCHANGED <<messageIndex, lastTimeStamp, shortBlockCount, enabled,
                 timeToExit, consumer, owner, queueVars, accepted, delivered,
                 everFull>>

\* Faulty variant: the slot after the one just filled is queued.
enqueueNextSlot ==
  /\ producer = "enqueue"
  /\ Queue!enqueueEntry(Radio, (messageIndex + 1) % NumberOfMessages)
  /\ producer' = "signal"
  /\ UNCHANGED <<poolVars, enabled, timeToExit, consumer, owner, accepted,
                 delivered, everFull>>

enqueue ==
  /\ producer = "enqueue"
  /\ Queue!enqueueEntry(Radio, messageIndex)
  /\ producer' = "signal"
  /\ UNCHANGED <<poolVars, enabled, timeToExit, consumer, owner, accepted,
                 delivered, everFull>>

\* Faulty variant: the pool index stays where it is.
signalWithoutAdvance ==
  /\ producer = "signal"
  /\ Queue!signal(Radio)
  /\ producer' = "idle"
  /\ UNCHANGED <<poolVars, enabled, timeToExit, consumer, owner, accepted,
                 delivered, everFull>>

\* The wakeup, and the step to the next slot of the pool.
signalAndAdvance ==
  /\ producer = "signal"
  /\ Queue!signal(Radio)
  /\ messageIndex' = (messageIndex + 1) % NumberOfMessages
  /\ producer' = "idle"
  /\ UNCHANGED <<message, lastTimeStamp, shortBlockCount, enabled, timeToExit,
                 consumer, owner, accepted, delivered, everFull>>
----------------------------------------------------------------------------
(* Calls of the thread that starts and stops the receiver.                  *)

\* startReceiver does not hold radioLock: acceptData may be under way.
start == /\ owner = "alive"
         /\ lastTimeStamp' = 0
         /\ enabled' = TRUE
         /\ UNCHANGED <<message, messageIndex, shortBlockCount, timeToExit,
                        producer, consumer, owner, queueVars, accepted,
                        delivered, everFull>>

\* stopReceiver holds radioLock, so no acceptData is under way.
stop == /\ owner = "alive" /\ producer = "idle"
        /\ enabled' = FALSE
        /\ UNCHANGED <<poolVars, timeToExit, producer, consumer, owner,
                       queueVars, accepted, delivered, everFull>>

\* The destructor, run after the event consumer thread has been joined.
destroy == /\ owner = "alive" /\ producer = "idle"
           /\ enabled' = FALSE
           /\ timeToExit' = TRUE
           /\ owner' = "joining"
           /\ UNCHANGED <<poolVars, producer, consumer, queueVars, accepted,
                          delivered, everFull>>

joined == /\ owner = "joining" /\ consumer = "exited"
          /\ owner' = "destroyed"
          /\ UNCHANGED <<poolVars, enabled, timeToExit, producer, consumer,
                         queueVars, accepted, delivered, everFull>>
----------------------------------------------------------------------------
(* dataConsumerProcedure.                                                   *)

Quiet == UNCHANGED <<poolVars, enabled, producer, owner, accepted, everFull>>

consumerStarts == /\ consumer = "starting"
                  /\ timeToExit' = FALSE
                  /\ consumer' = "loop"
                  /\ Quiet /\ UNCHANGED <<queueVars, delivered>>

\* Faulty variant: the thread ends when data is no longer accepted.
testEnabledToo ==
  /\ consumer = "loop"
  /\ consumer' = IF timeToExit \/ ~enabled THEN "exited" ELSE "dequeue"
  /\ Quiet /\ UNCHANGED <<timeToExit, queueVars, delivered>>

testTimeToExit == /\ consumer = "loop"
                  /\ consumer' = IF timeToExit THEN "exited" ELSE "dequeue"
                  /\ Quiet /\ UNCHANGED <<timeToExit, queueVars, delivered>>

\* dequeueEntry up to its result or to its wait.
dequeue == /\ consumer = "dequeue"
           /\ Queue!dequeueEntry(Reader)
           /\ consumer' = IF waiting' = {} THEN "dispatch" ELSE "waiting"
           /\ Quiet /\ UNCHANGED <<timeToExit, delivered>>

waitTimesOut == /\ Queue!timedwaitReturns(Reader)
                /\ Quiet /\ UNCHANGED <<timeToExit, consumer, delivered>>

\* Faulty variant: the result of a dequeueEntry that had to wait is ignored.
dequeueAfterWaitIgnored == /\ Queue!dequeueAfterWait(Reader)
                           /\ consumer' = "loop"
                           /\ Quiet /\ UNCHANGED <<timeToExit, delivered>>

dequeueAfterWait == /\ Queue!dequeueAfterWait(Reader)
                    /\ consumer' = "dispatch"
                    /\ Quiet /\ UNCHANGED <<timeToExit, delivered>>

\* acceptIqData is called with the header read from the pool, if there is a
\* message.
dispatch ==
  /\ consumer = "dispatch"
  /\ \/ /\ returned[Reader] # NoMessage
        /\ delivered' = message[returned[Reader]].block
        /\ consumer' = "processing"
     \/ /\ returned[Reader] = NoMessage
        /\ consumer' = "loop"
        /\ UNCHANGED delivered
  /\ Quiet /\ UNCHANGED <<timeToExit, queueVars>>

processed == /\ consumer = "processing"
             /\ consumer' = "loop"
             /\ Quiet /\ UNCHANGED <<timeToExit, queueVars, delivered>>
----------------------------------------------------------------------------
ProducerSteps == copyDone \/ enqueue \/ signalAndAdvance

ConsumerSteps == \/ consumerStarts \/ testTimeToExit \/ dequeue \/ waitTimesOut
                 \/ dequeueAfterWait \/ dispatch \/ processed

\* The program has ended.
Terminated == owner = "destroyed" /\ UNCHANGED vars

Next == \/ \E length \in BufferLengths : acceptData(length)
        \/ ProducerSteps
        \/ ConsumerSteps
        \/ start \/ stop \/ destroy \/ joined
        \/ Terminated

Spec == Init /\ [][Next]_vars

\* Both threads are scheduled; blocks need not come.
FairSpec == Spec /\ WF_vars(ProducerSteps) /\ WF_vars(ConsumerSteps)
                 /\ WF_vars(joined)
----------------------------------------------------------------------------
TypeOK == /\ message \in [Pool -> Message]
          /\ messageIndex \in Pool
          /\ enabled \in BOOLEAN
          /\ timeToExit \in BOOLEAN
          /\ everFull \in BOOLEAN
          /\ accepted \in 0 .. MaxBlocks
          /\ delivered \in 0 .. MaxBlocks
          /\ lastTimeStamp \in 0 .. MaxBlocks
          /\ shortBlockCount \in 0 .. accepted
          /\ producer \in {"idle", "copying", "enqueue", "signal"}
          /\ consumer \in {"starting", "loop", "dequeue", "waiting", "dispatch",
                           "processing", "exited"}
          /\ owner \in {"alive", "joining", "destroyed"}
          /\ Queue!TypeOK

\* Blocks accepted that have still to reach the data processor: the one being
\* copied, the ones in the queue, and the one just taken from it.
UnderWay ==
  Queue!Pending + (IF producer \in {"copying", "enqueue"} THEN 1 ELSE 0)
    + (IF consumer = "dispatch" /\ returned[Reader] # NoMessage THEN 1 ELSE 0)

\* "Queue data to be transmitted ... the data consumer thread will dequeue the
\* message and perform the forwarding": every accepted block has been handed to
\* the data processor or is on its way.  The code does not keep this: the block
\* that fills the queue makes it look empty, and all of it is forgotten.
NothingLost == accepted - delivered = UnderWay

\* What does hold: nothing is lost as long as every block finds fewer than
\* NumberOfMessages - 1 others in the queue.
NoLossBelowCapacity == ~everFull => NothingLost

\* The data processor works on the pool in place.  Below capacity the block it
\* works on is complete and stays the one it was handed: acceptData never comes
\* round the pool to the slot in use.
NoOverwriteInUse ==
  ~everFull /\ consumer = "processing" =>
    /\ message[returned[Reader]].block = delivered
    /\ message[returned[Reader]].complete

\* Below capacity each accepted block is handed over exactly once, in the order
\* the blocks were read from the radio, across stops and restarts.
DeliveredExactlyOnce ==
  [][~everFull /\ consumer = "dispatch" /\ consumer' = "processing"
       => delivered' = delivered + 1]_vars

\* Every block accepted is handed over in the end, unless the queue overflows or
\* the object goes away.  A block accepted last, before a stop, must not stay in
\* the queue until the next one comes.
EveryBlockForwarded ==
  \A n \in 1 .. MaxBlocks :
    accepted >= n ~> delivered >= n \/ everFull \/ owner # "alive"

\* The destructor ends: its request reaches the thread also when no block ever
\* comes.  It is said of a thread that has begun to run.
ExitHonouredOnceRunning ==
  (owner = "joining" /\ consumer # "starting" /\ timeToExit)
    ~> owner = "destroyed"

\* The consumer thread makes progress: blocks get through, and it ends when
\* it is told to.
ConsumerMakesProgress == EveryBlockForwarded /\ ExitHonouredOnceRunning
=============================================================================
