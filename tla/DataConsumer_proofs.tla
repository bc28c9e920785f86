------------------------- MODULE DataConsumer_proofs -------------------------
(***************************************************************************)
(* Proofs about DataConsumer, for a pool of any size and any number of      *)
(* blocks.                                                                  *)
(***************************************************************************)
EXTENDS DataConsumer, TLAPS

USE NumberOfMessagesAssumption
USE DEF Pool, queueVars, poolVars, vars, Quiet

(***************************************************************************)
(* The ring of the queue, seen from the pool.                               *)
(***************************************************************************)
QueueOK == /\ queuePtr \in [Pool -> Pool \union {NoMessage}]
           /\ head \in Pool
           /\ tail \in Pool

\* Pending counts the slots between head and tail and is 0 for an empty ring.
LEMMA PendingRange ==
  ASSUME QueueOK
  PROVE  /\ Queue!Pending \in 0 .. NumberOfMessages - 1
         /\ Queue!IsEmpty <=> Queue!Pending = 0
BY DEF QueueOK, Queue!Pending, Queue!IsEmpty

\* The slots with waiting entries are slots of the pool, and not the one at tail.
LEMMA PendingSlotInPool ==
  ASSUME QueueOK, NEW k \in 1 .. Queue!Pending
  PROVE  Queue!PendingSlot(k) \in Pool /\ Queue!PendingSlot(k) # tail
BY DEF QueueOK, Queue!Pending, Queue!PendingSlot

\* The slot taken last, the one before head, is the one at tail only when the
\* ring has no room left.
LEMMA SlotInUseIsNotTail ==
  ASSUME QueueOK, NEW i \in Pool, Queue!NextSlot(i) = head,
         Queue!Pending < NumberOfMessages - 1
  PROVE  i # tail
BY DEF QueueOK, Queue!Pending, Queue!NextSlot

\* One entry more, in the slot tail stood at.
LEMMA StoreEffect ==
  ASSUME QueueOK, NEW e \in Pool, Queue!Store(e),
         Queue!Pending < NumberOfMessages - 1
  PROVE  /\ Queue!Pending' = Queue!Pending + 1
         /\ \A k \in Nat : Queue!PendingSlot(k)' = Queue!PendingSlot(k)
         /\ \A k \in Nat : k = Queue!Pending + 1 => Queue!PendingSlot(k) = tail
         /\ tail' = Queue!NextSlot(tail)
         /\ queuePtr' = [queuePtr EXCEPT ![tail] = e]
BY DEF QueueOK, Queue!Store, Queue!Pending, Queue!PendingSlot, Queue!NextSlot

\* One entry less, and the others one place further to the front.
LEMMA TakeEffect ==
  ASSUME QueueOK, Queue!Take(Reader)
  PROVE  /\ Queue!Pending \in Nat \ {0}
         /\ Queue!Pending' = Queue!Pending - 1
         /\ \A k \in 1 .. Queue!Pending' :
              Queue!PendingSlot(k)' = Queue!PendingSlot(k + 1)
         /\ Queue!PendingSlot(1) = head
         /\ head' = Queue!NextSlot(head)
         /\ UNCHANGED <<queuePtr, tail>>
<1>1. Queue!Pending' = Queue!Pending - 1 /\ Queue!Pending \in Nat \ {0}
  BY DEF QueueOK, Queue!Take, Queue!IsEmpty, Queue!Pending, Queue!NextSlot
<1>2. ASSUME NEW k \in 1 .. Queue!Pending'
      PROVE  Queue!PendingSlot(k)' = Queue!PendingSlot(k + 1)
  BY <1>1 DEF QueueOK, Queue!Take, Queue!IsEmpty, Queue!Pending, Queue!NextSlot,
              Queue!PendingSlot
<1>3. Queue!PendingSlot(1) = head
  BY DEF QueueOK, Queue!PendingSlot
<1> QED
  BY <1>1, <1>2, <1>3 DEF Queue!Take

\* messageIndex moves as head and tail do.
LEMMA AdvanceIsNextSlot ==
  ASSUME NEW i \in Pool
  PROVE  /\ (i + 1) % NumberOfMessages = Queue!NextSlot(i)
         /\ Queue!NextSlot(i) \in Pool
BY DEF Queue!NextSlot

(***************************************************************************)
(* Type correctness.                                                        *)
(***************************************************************************)

\* A length stored in a message fits its buffer.
LEMMA ClippedFits ==
  ASSUME NEW length \in BufferLengths
  PROVE  Clipped(length) \in 0 .. BufferSize
BY LengthsAssumption DEF Clipped

\* Typing of the queue is what the ring lemmas need.
LEMMA TypeGivesQueueOK == ASSUME TypeOK PROVE QueueOK
BY DEF TypeOK, QueueOK, Queue!TypeOK, Queue!Slots

\* The steps of the queue keep the queue typed.
LEMMA QueueTypes ==
  ASSUME TypeOK,
         \/ \E e \in Pool : Queue!enqueueEntry(Radio, e)
         \/ Queue!signal(Radio)
         \/ Queue!dequeueEntry(Reader)
         \/ Queue!timedwaitReturns(Reader)
         \/ Queue!dequeueAfterWait(Reader)
  PROVE  Queue!TypeOK'
<1>1. QueueOK
  BY TypeGivesQueueOK
<1>2. \A i \in Pool : Queue!NextSlot(i) \in Pool
  BY AdvanceIsNextSlot
<1> USE <1>1, <1>2 DEF TypeOK, QueueOK, Queue!TypeOK, Queue!Slots
<1>3. CASE \E e \in Pool : Queue!enqueueEntry(Radio, e)
  <2>1. PICK e \in Pool : Queue!enqueueEntry(Radio, e)
    BY <1>3
  <2>2. queuePtr' \in [Pool -> Pool \union {NoMessage}]
    BY <2>1 DEF Queue!enqueueEntry, Queue!Store
  <2>3. head' \in Pool /\ tail' \in Pool
    BY <2>1 DEF Queue!enqueueEntry, Queue!Store
  <2>4. signalling' \subseteq {Radio}
    BY <2>1 DEF Queue!enqueueEntry
  <2>5. UNCHANGED <<waiting, woken, returned>>
    BY <2>1 DEF Queue!enqueueEntry
  <2> QED
    BY <2>2, <2>3, <2>4, <2>5
<1>4. CASE Queue!signal(Radio)
  BY <1>4 DEF Queue!signal
<1>5. CASE Queue!dequeueEntry(Reader)
  BY <1>5 DEF Queue!dequeueEntry, Queue!Take
<1>6. CASE Queue!timedwaitReturns(Reader)
  BY <1>6 DEF Queue!timedwaitReturns
<1>7. CASE Queue!dequeueAfterWait(Reader)
  BY <1>7 DEF Queue!dequeueAfterWait, Queue!Take
<1> QED
  BY <1>3, <1>4, <1>5, <1>6, <1>7

\* Every step keeps every variable in its type.
LEMMA TypeInductive == TypeOK /\ [Next]_vars => TypeOK'
<1> SUFFICES ASSUME TypeOK, [Next]_vars PROVE TypeOK'
  OBVIOUS
<1>q. ASSUME UNCHANGED queueVars PROVE Queue!TypeOK'
  BY <1>q DEF TypeOK, Queue!TypeOK, Queue!Slots
<1>1. ASSUME NEW length \in BufferLengths, acceptData(length) PROVE TypeOK'
  <2>1. Queue!TypeOK'
    BY <1>1, <1>q DEF acceptData
  <2>2. message' \in [Pool -> Message]
    <3>1. [block |-> accepted + 1, byteCount |-> Clipped(length),
           complete |-> FALSE] \in Message
      BY <1>1, ClippedFits, MaxBlocksAssumption DEF acceptData, TypeOK, Message
    <3> QED
      BY <1>1, <3>1 DEF acceptData, TypeOK
  <2>3. /\ accepted' \in 0 .. MaxBlocks
        /\ lastTimeStamp' \in 0 .. MaxBlocks
        /\ shortBlockCount' \in 0 .. accepted'
    BY <1>1, MaxBlocksAssumption DEF acceptData, TypeOK
  <2>4. everFull' \in BOOLEAN
    BY <1>1 DEF acceptData, TypeOK
  <2>5. producer' = "copying"
    BY <1>1 DEF acceptData
  <2>6. UNCHANGED <<messageIndex, enabled, timeToExit, consumer, owner, delivered>>
    BY <1>1 DEF acceptData
  <2> QED
    BY <2>1, <2>2, <2>3, <2>4, <2>5, <2>6 DEF TypeOK
<1>2. CASE copyDone
  <2>1. message' \in [Pool -> Message]
    BY <1>2 DEF copyDone, TypeOK, Message
  <2> QED
    BY <1>2, <1>q, <2>1 DEF copyDone, TypeOK
<1>3. CASE enqueue
  <2>1. Queue!TypeOK'
    BY <1>3, QueueTypes DEF enqueue, TypeOK
  <2> QED
    BY <1>3, <2>1 DEF enqueue, TypeOK
<1>4. CASE signalAndAdvance
  <2>1. Queue!TypeOK'
    BY <1>4, QueueTypes DEF signalAndAdvance
  <2>2. messageIndex' \in Pool
    BY <1>4, AdvanceIsNextSlot DEF signalAndAdvance, TypeOK
  <2> QED
    BY <1>4, <2>1, <2>2 DEF signalAndAdvance, TypeOK
<1>5. CASE start
  <2>1. lastTimeStamp' \in 0 .. MaxBlocks
    BY <1>5, MaxBlocksAssumption DEF start
  <2>2. enabled' \in BOOLEAN
    BY <1>5 DEF start
  <2> QED
    BY <1>5, <1>q, <2>1, <2>2 DEF start, TypeOK
<1>6. CASE stop
  <2>1. enabled' \in BOOLEAN
    BY <1>6 DEF stop
  <2> QED
    BY <1>6, <1>q, <2>1 DEF stop, TypeOK
<1>7. CASE destroy
  <2>1. enabled' \in BOOLEAN /\ timeToExit' \in BOOLEAN
    BY <1>7 DEF destroy
  <2> QED
    BY <1>7, <1>q, <2>1 DEF destroy, TypeOK
<1>8. CASE joined
  BY <1>8, <1>q DEF joined, TypeOK
<1>9. CASE consumerStarts
  <2>1. timeToExit' \in BOOLEAN
    BY <1>9 DEF consumerStarts
  <2> QED
    BY <1>9, <1>q, <2>1 DEF consumerStarts, TypeOK
<1>10. CASE testTimeToExit
  BY <1>10, <1>q DEF testTimeToExit, TypeOK
<1>11. CASE dequeue
  <2>1. Queue!TypeOK'
    BY <1>11, QueueTypes DEF dequeue
  <2> QED
    BY <1>11, <2>1 DEF dequeue, TypeOK
<1>12. CASE waitTimesOut
  <2>1. Queue!TypeOK'
    BY <1>12, QueueTypes DEF waitTimesOut
  <2> QED
    BY <1>12, <2>1 DEF waitTimesOut, TypeOK
<1>13. CASE dequeueAfterWait
  <2>1. Queue!TypeOK'
    BY <1>13, QueueTypes DEF dequeueAfterWait
  <2> QED
    BY <1>13, <2>1 DEF dequeueAfterWait, TypeOK
<1>14. CASE dispatch
  <2>1. returned[Reader] \in Pool \union {NoMessage}
    BY DEF TypeOK, Queue!TypeOK
  <2>2. delivered' \in 0 .. MaxBlocks
    BY <1>14, <2>1 DEF dispatch, TypeOK, Message
  <2> QED
    BY <1>14, <1>q, <2>2 DEF dispatch, TypeOK
<1>15. CASE processed
  BY <1>15, <1>q DEF processed, TypeOK
<1>16. CASE Terminated \/ UNCHANGED vars
  BY <1>16, <1>q DEF Terminated, TypeOK
<1> QED
  BY <1>1, <1>2, <1>3, <1>4, <1>5, <1>6, <1>7, <1>8, <1>9, <1>10, <1>11, <1>12,
     <1>13, <1>14, <1>15, <1>16 DEF Next, ProducerSteps, ConsumerSteps

\* The initial state has its type.
LEMMA InitType == Init => TypeOK
<1> SUFFICES ASSUME Init PROVE TypeOK
  OBVIOUS
<1>1. 0 \in 0 .. MaxBlocks /\ 0 \in 0 .. BufferSize /\ 0 \in Pool
  BY MaxBlocksAssumption, LengthsAssumption
<1>2. message \in [Pool -> Message]
  BY <1>1 DEF Init, Message
<1>3. Queue!TypeOK
  BY <1>1 DEF Init, Queue!Init, Queue!TypeOK, Queue!Slots
<1>4. /\ messageIndex \in Pool
      /\ accepted \in 0 .. MaxBlocks
      /\ delivered \in 0 .. MaxBlocks
      /\ lastTimeStamp \in 0 .. MaxBlocks
      /\ shortBlockCount \in 0 .. accepted
  BY <1>1 DEF Init
<1>5. enabled \in BOOLEAN /\ timeToExit \in BOOLEAN /\ everFull \in BOOLEAN
  BY DEF Init
<1>6. producer = "idle" /\ consumer = "starting" /\ owner = "alive"
  BY DEF Init
<1> QED
  BY <1>2, <1>3, <1>4, <1>5, <1>6 DEF TypeOK

\* The state of the data consumer always has its type; in particular no message
\* is longer than its buffer.
THEOREM TypeCorrect == Spec => []TypeOK
BY InitType, TypeInductive, PTL DEF Spec

(***************************************************************************)
(* Below capacity nothing is lost, overwritten, repeated or reordered.      *)
(*                                                                          *)
(* The invariant follows every accepted block to where it is: in the slot   *)
(* being filled, in the queue, just taken, or handed over.  The waiting     *)
(* blocks are numbered without a gap from the last one handed over, each in *)
(* the pool slot of its queue slot, and the slot in use is the one before   *)
(* head, which the producer reaches only by filling the queue.              *)
(***************************************************************************)
Copying == producer \in {"copying", "enqueue"}
Taken == consumer = "dispatch" /\ returned[Reader] # NoMessage

CopyingCount == IF Copying THEN 1 ELSE 0
TakenCount == IF Taken THEN 1 ELSE 0

Intact(i, n) == i \in Pool /\ message[i].block = n /\ message[i].complete

\* The pool index and the tail of the queue move together.
InStep == IF producer = "signal" THEN tail = Queue!NextSlot(messageIndex)
                                 ELSE messageIndex = tail

\* The thread is in the queue's wait sets only while it waits.
WaitsInQueue == Reader \in waiting \union woken => consumer = "waiting"

Room == Copying => Queue!Pending < NumberOfMessages - 1

Counted == accepted = delivered + TakenCount + Queue!Pending + CopyingCount

QueueInOrder ==
  \A k \in 1 .. Queue!Pending :
    /\ queuePtr[Queue!PendingSlot(k)] = Queue!PendingSlot(k)
    /\ Intact(Queue!PendingSlot(k), delivered + TakenCount + k)

SlotInUse ==
  /\ Taken => /\ Intact(returned[Reader], delivered + 1)
              /\ Queue!NextSlot(returned[Reader]) = head
  /\ consumer = "processing" => /\ Intact(returned[Reader], delivered)
                                /\ Queue!NextSlot(returned[Reader]) = head

SlotBeingFilled ==
  /\ Copying => message[messageIndex].block = accepted
  /\ producer = "enqueue" => message[messageIndex].complete

BelowCapacity == Room /\ Counted /\ QueueInOrder /\ SlotInUse /\ SlotBeingFilled

PoolInv == TypeOK /\ InStep /\ WaitsInQueue /\ (~everFull => BelowCapacity)

\* The parts about the pool and the waiting are kept at any load.
LEMMA StructureInductive ==
  PoolInv /\ [Next]_vars => InStep' /\ WaitsInQueue'
<1> SUFFICES ASSUME PoolInv, [Next]_vars PROVE InStep' /\ WaitsInQueue'
  OBVIOUS
<1>t. TypeOK /\ InStep /\ WaitsInQueue /\ QueueOK
  BY TypeGivesQueueOK DEF PoolInv
<1> USE DEF InStep, WaitsInQueue
<1>1. ASSUME NEW length \in BufferLengths, acceptData(length)
      PROVE  InStep' /\ WaitsInQueue'
  BY <1>1, <1>t DEF acceptData
<1>2. CASE copyDone
  BY <1>2, <1>t DEF copyDone
<1>3. CASE enqueue
  <2>1. tail' = Queue!NextSlot(tail)
    BY <1>3 DEF enqueue, Queue!enqueueEntry, Queue!Store
  <2>2. UNCHANGED <<waiting, woken, messageIndex, consumer>> /\ producer' = "signal"
    BY <1>3 DEF enqueue, Queue!enqueueEntry
  <2>3. producer = "enqueue"
    BY <1>3 DEF enqueue
  <2> QED
    BY <1>t, <2>1, <2>2, <2>3 DEF Queue!NextSlot
<1>4. CASE signalAndAdvance
  <2>1. messageIndex' = Queue!NextSlot(messageIndex)
    BY <1>4, <1>t, AdvanceIsNextSlot DEF signalAndAdvance, TypeOK
  <2>2. tail' = tail /\ producer = "signal" /\ producer' = "idle"
    BY <1>4 DEF signalAndAdvance, Queue!signal
  <2>3. consumer' = consumer /\ waiting' \union woken' = waiting \union woken
    BY <1>4 DEF signalAndAdvance, Queue!signal
  <2> QED
    BY <1>t, <2>1, <2>2, <2>3
<1>5. CASE start \/ stop \/ destroy \/ joined
  BY <1>5, <1>t DEF start, stop, destroy, joined
<1>6. CASE consumerStarts \/ testTimeToExit \/ dispatch \/ processed
  BY <1>6, <1>t DEF consumerStarts, testTimeToExit, dispatch, processed
<1>7. CASE dequeue
  <2>1. UNCHANGED <<messageIndex, producer, tail>>
    BY <1>7 DEF dequeue, Queue!dequeueEntry, Queue!Take
  <2>2. Reader \notin waiting \union woken /\ woken' = woken
    BY <1>7 DEF dequeue, Queue!dequeueEntry
  <2>3. Reader \in waiting' => consumer' = "waiting"
    BY <1>7 DEF dequeue
  <2> QED
    BY <1>t, <2>1, <2>2, <2>3 DEF Queue!NextSlot
<1>8. CASE waitTimesOut
  BY <1>8, <1>t DEF waitTimesOut, Queue!timedwaitReturns
<1>9. CASE dequeueAfterWait
  <2>1. UNCHANGED <<messageIndex, producer, tail>>
    BY <1>9 DEF dequeueAfterWait, Queue!dequeueAfterWait, Queue!Take
  <2>2. Reader \in woken /\ woken' = woken \ {Reader} /\ waiting' = waiting
    BY <1>9 DEF dequeueAfterWait, Queue!dequeueAfterWait
  <2>3. Reader \notin waiting
    BY <1>t, <2>2 DEF TypeOK, Queue!TypeOK
  <2> QED
    BY <1>t, <2>1, <2>2, <2>3 DEF Queue!NextSlot
<1>10. CASE Terminated \/ UNCHANGED vars
  BY <1>10, <1>t DEF Terminated
<1> QED
  BY <1>1, <1>2, <1>3, <1>4, <1>5, <1>6, <1>7, <1>8, <1>9, <1>10
     DEF Next, ProducerSteps, ConsumerSteps

\* A step that leaves the pool, the queue and the numbers of the blocks alone, and
\* takes nothing into use, keeps what holds below capacity.
LEMMA SameBlocks ==
  ASSUME BelowCapacity,
         UNCHANGED <<message, queuePtr, head, tail, accepted, delivered>>,
         Taken' <=> Taken,
         consumer' = "processing" => consumer = "processing",
         Taken' \/ consumer' = "processing" => UNCHANGED returned,
         Copying' <=> Copying,
         Copying' => UNCHANGED <<messageIndex, producer>>
  PROVE  BelowCapacity'
<1>1. /\ Queue!Pending' = Queue!Pending
      /\ \A k : Queue!PendingSlot(k)' = Queue!PendingSlot(k)
  BY DEF Queue!Pending, Queue!PendingSlot
<1>2. TakenCount' = TakenCount /\ CopyingCount' = CopyingCount
  BY DEF TakenCount, CopyingCount
<1>3. Room' /\ Counted'
  BY <1>1, <1>2 DEF BelowCapacity, Room, Counted
<1>4. QueueInOrder'
  BY <1>1, <1>2 DEF BelowCapacity, QueueInOrder, Intact
<1>5. SlotInUse'
  <2>1. Taken' => /\ Intact(returned[Reader], delivered + 1)'
                  /\ (Queue!NextSlot(returned[Reader]) = head)'
    BY DEF BelowCapacity, SlotInUse, Intact, Queue!NextSlot
  <2>2. consumer' = "processing" =>
          /\ Intact(returned[Reader], delivered)'
          /\ (Queue!NextSlot(returned[Reader]) = head)'
    BY DEF BelowCapacity, SlotInUse, Intact, Queue!NextSlot
  <2> QED
    BY <2>1, <2>2 DEF SlotInUse
<1>6. SlotBeingFilled'
  BY DEF BelowCapacity, SlotBeingFilled, Copying
<1> QED
  BY <1>3, <1>4, <1>5, <1>6 DEF BelowCapacity

\* The block at the front of the queue is the next to be handed over.
LEMMA TakeStep ==
  ASSUME TypeOK, BelowCapacity, Queue!Take(Reader),
         consumer # "dispatch", consumer' = "dispatch",
         UNCHANGED <<message, messageIndex, accepted, delivered, producer>>
  PROVE  BelowCapacity'
<1>q. QueueOK
  BY TypeGivesQueueOK
<1>n. delivered \in Nat /\ returned \in [{Reader} -> Pool \union {NoMessage}]
  BY MaxBlocksAssumption DEF TypeOK, Queue!TypeOK
<1>1. /\ Queue!Pending \in Nat \ {0}
      /\ Queue!Pending' = Queue!Pending - 1
      /\ \A k \in 1 .. Queue!Pending' :
           Queue!PendingSlot(k)' = Queue!PendingSlot(k + 1)
      /\ Queue!PendingSlot(1) = head
      /\ head' = Queue!NextSlot(head)
      /\ UNCHANGED <<queuePtr, tail>>
  BY <1>q, TakeEffect
<1>2. TakenCount = 0
  BY DEF TakenCount, Taken
<1>3. queuePtr[head] = head /\ Intact(head, delivered + 1)
  BY <1>1, <1>2, <1>n DEF BelowCapacity, QueueInOrder
<1>4. returned'[Reader] = head
  BY <1>3, <1>n DEF Queue!Take
<1>5. Taken' /\ TakenCount' = 1
  BY <1>4, <1>q, NoMessageAssumption DEF Taken, TakenCount, QueueOK
<1>6. CopyingCount' = CopyingCount /\ CopyingCount \in Nat
  BY DEF CopyingCount, Copying
<1>7. Room'
  BY <1>1 DEF BelowCapacity, Room, Copying
<1>8. Counted'
  BY <1>1, <1>2, <1>5, <1>6, <1>n DEF BelowCapacity, Counted
<1>9. QueueInOrder'
  <2> SUFFICES ASSUME NEW k \in 1 .. Queue!Pending'
               PROVE  /\ queuePtr'[Queue!PendingSlot(k)'] = Queue!PendingSlot(k)'
                      /\ Intact(Queue!PendingSlot(k), delivered + TakenCount + k)'
    BY DEF QueueInOrder
  <2>1. k + 1 \in 1 .. Queue!Pending
    BY <1>1
  <2>2. /\ queuePtr[Queue!PendingSlot(k + 1)] = Queue!PendingSlot(k + 1)
        /\ Intact(Queue!PendingSlot(k + 1), delivered + TakenCount + (k + 1))
    BY <2>1 DEF BelowCapacity, QueueInOrder
  <2>3. delivered + TakenCount + (k + 1) = (delivered + TakenCount + k)'
    BY <1>2, <1>5, <1>n, <1>1
  <2> QED
    BY <1>1, <2>2, <2>3 DEF Intact
<1>10. SlotInUse'
  BY <1>1, <1>3, <1>4 DEF SlotInUse, Intact, Queue!NextSlot
<1>11. SlotBeingFilled'
  BY DEF BelowCapacity, SlotBeingFilled, Copying
<1> QED
  BY <1>7, <1>8, <1>9, <1>10, <1>11 DEF BelowCapacity

\* A slot that is being filled is none of those that hold a block still to be
\* handed over or being worked on.
LEMMA OtherSlotsKept ==
  ASSUME TypeOK, BelowCapacity, Queue!Pending < NumberOfMessages - 1,
         UNCHANGED <<queuePtr, head, tail, returned, delivered, consumer>>,
         \A i \in Pool : i # tail => message'[i] = message[i]
  PROVE  QueueInOrder' /\ SlotInUse'
<1>q. QueueOK
  BY TypeGivesQueueOK
<1>1. /\ Queue!Pending' = Queue!Pending
      /\ \A k : Queue!PendingSlot(k)' = Queue!PendingSlot(k)
  BY DEF Queue!Pending, Queue!PendingSlot
<1>2. TakenCount' = TakenCount /\ (Taken' <=> Taken)
  BY DEF TakenCount, Taken
<1>4. QueueInOrder'
  <2> SUFFICES ASSUME NEW k \in 1 .. Queue!Pending
               PROVE  /\ queuePtr'[Queue!PendingSlot(k)'] = Queue!PendingSlot(k)'
                      /\ Intact(Queue!PendingSlot(k), delivered + TakenCount + k)'
    BY <1>1 DEF QueueInOrder
  <2>1. Queue!PendingSlot(k) \in Pool /\ Queue!PendingSlot(k) # tail
    BY <1>q, PendingSlotInPool
  <2>2. /\ queuePtr[Queue!PendingSlot(k)] = Queue!PendingSlot(k)
        /\ Intact(Queue!PendingSlot(k), delivered + TakenCount + k)
    BY DEF BelowCapacity, QueueInOrder
  <2> QED
    BY <1>1, <1>2, <2>1, <2>2 DEF Intact
<1>5. SlotInUse'
  <2>1. ASSUME NEW n, Intact(returned[Reader], n),
               Queue!NextSlot(returned[Reader]) = head
        PROVE  /\ returned'[Reader] \in Pool
               /\ message'[returned'[Reader]].block = n
               /\ message'[returned'[Reader]].complete
               /\ (Queue!NextSlot(returned[Reader]) = head)'
    <3>1. returned[Reader] \in Pool
      BY <2>1 DEF Intact
    <3>2. returned[Reader] # tail
      BY <1>q, <2>1, <3>1, SlotInUseIsNotTail
    <3> QED
      BY <2>1, <3>1, <3>2 DEF Intact, Queue!NextSlot
  <2> QED
    BY <1>2, <2>1 DEF BelowCapacity, SlotInUse, Intact
<1> QED
  BY <1>4, <1>5

\* Storing the slot being filled appends its block to those that wait.
LEMMA StoreStep ==
  ASSUME TypeOK, BelowCapacity, producer = "enqueue", messageIndex = tail,
         Queue!Store(messageIndex), producer' = "signal",
         UNCHANGED <<message, returned, accepted, delivered, consumer>>
  PROVE  BelowCapacity'
<1>q. QueueOK /\ Queue!Pending \in Nat /\ delivered \in Nat
  BY TypeGivesQueueOK, PendingRange, MaxBlocksAssumption DEF TypeOK
<1>1. /\ Queue!Pending' = Queue!Pending + 1
      /\ \A k \in Nat : Queue!PendingSlot(k)' = Queue!PendingSlot(k)
      /\ \A k \in Nat : k = Queue!Pending + 1 => Queue!PendingSlot(k) = tail
      /\ queuePtr' = [queuePtr EXCEPT ![tail] = messageIndex]
  <2>1. messageIndex \in Pool /\ Queue!Pending < NumberOfMessages - 1
    BY DEF TypeOK, BelowCapacity, Room, Copying
  <2> QED
    BY <1>q, <2>1, StoreEffect
<1>2. TakenCount' = TakenCount /\ TakenCount \in Nat /\ (Taken' <=> Taken)
  BY DEF TakenCount, Taken
<1>3. Copying /\ ~Copying' /\ CopyingCount = 1 /\ CopyingCount' = 0
  BY DEF Copying, CopyingCount
<1>4. Room'
  BY <1>3 DEF Room
<1>5. Counted'
  BY <1>q, <1>1, <1>2, <1>3 DEF BelowCapacity, Counted
<1>6. accepted = delivered + TakenCount + (Queue!Pending + 1)
  BY <1>q, <1>2, <1>3 DEF BelowCapacity, Counted
<1>7. QueueInOrder'
  <2> SUFFICES ASSUME NEW k \in 1 .. Queue!Pending'
               PROVE  /\ queuePtr'[Queue!PendingSlot(k)'] = Queue!PendingSlot(k)'
                      /\ Intact(Queue!PendingSlot(k), delivered + TakenCount + k)'
    BY DEF QueueInOrder
  <2>1. CASE k = Queue!Pending + 1
    <3>1. Queue!PendingSlot(k)' = tail
      BY <1>q, <1>1, <2>1
    <3>2. Intact(tail, delivered + TakenCount + k)
      BY <1>3, <1>6, <2>1, <1>q
         DEF BelowCapacity, SlotBeingFilled, Intact, QueueOK
    <3> QED
      BY <1>1, <1>2, <1>q, <3>1, <3>2 DEF Intact, QueueOK
  <2>2. CASE k \in 1 .. Queue!Pending
    <3>1. Queue!PendingSlot(k) \in Pool /\ Queue!PendingSlot(k) # tail
      BY <1>q, <2>2, PendingSlotInPool
    <3>2. /\ queuePtr[Queue!PendingSlot(k)] = Queue!PendingSlot(k)
          /\ Intact(Queue!PendingSlot(k), delivered + TakenCount + k)
      BY <2>2 DEF BelowCapacity, QueueInOrder
    <3> QED
      BY <1>1, <1>2, <1>q, <3>1, <3>2 DEF Intact, QueueOK
  <2> QED
    BY <1>q, <1>1, <2>1, <2>2
<1>8. SlotInUse'
  BY <1>2 DEF BelowCapacity, SlotInUse, Intact, Queue!NextSlot, Queue!Store
<1>9. SlotBeingFilled'
  BY <1>3 DEF SlotBeingFilled, Copying
<1> QED
  BY <1>4, <1>5, <1>7, <1>8, <1>9 DEF BelowCapacity

\* Until a block comes when the queue has no room, every step keeps the account
\* of the blocks.
LEMMA BelowCapacityInductive ==
  PoolInv /\ [Next]_vars => (~everFull' => BelowCapacity')
<1> SUFFICES ASSUME PoolInv, [Next]_vars, ~everFull' PROVE BelowCapacity'
  OBVIOUS
<1>t. TypeOK /\ InStep /\ WaitsInQueue /\ QueueOK
  BY TypeGivesQueueOK DEF PoolInv
<1>e. ~everFull
  BY DEF Next, acceptData, ProducerSteps, copyDone, enqueue, signalAndAdvance,
         ConsumerSteps, consumerStarts, testTimeToExit, dequeue, waitTimesOut,
         dequeueAfterWait, dispatch, processed, start, stop, destroy, joined,
         Terminated
<1>b. BelowCapacity
  BY <1>e DEF PoolInv
<1>n. /\ Queue!Pending \in 0 .. NumberOfMessages - 1
      /\ accepted \in Nat /\ delivered \in Nat
      /\ returned \in [{Reader} -> Pool \union {NoMessage}]
  BY <1>t, PendingRange, MaxBlocksAssumption DEF TypeOK, Queue!TypeOK
<1>1. ASSUME NEW length \in BufferLengths, acceptData(length)
      PROVE  BelowCapacity'
  <2>1. messageIndex = tail /\ Queue!Pending < NumberOfMessages - 1
    <3>1. everFull' = (everFull \/ Queue!Pending = NumberOfMessages - 1)
      BY <1>1 DEF acceptData
    <3>2. Queue!Pending # NumberOfMessages - 1
      BY <3>1
    <3>3. messageIndex = tail
      BY <1>1, <1>t DEF acceptData, InStep
    <3> QED
      BY <1>n, <3>2, <3>3
  <2>2. /\ \A i \in Pool : i # tail => message'[i] = message[i]
        /\ message'[messageIndex].block = accepted + 1
    BY <1>1, <1>t, <2>1 DEF acceptData, TypeOK
  <2>3. UNCHANGED <<queuePtr, head, tail, returned, delivered, consumer>>
    BY <1>1 DEF acceptData
  <2>4. QueueInOrder' /\ SlotInUse'
    BY <1>t, <1>b, <2>1, <2>2, <2>3, OtherSlotsKept
  <2>5. Queue!Pending' = Queue!Pending
    BY <2>3 DEF Queue!Pending
  <2>6. TakenCount' = TakenCount /\ TakenCount \in Nat
    BY <2>3 DEF TakenCount, Taken
  <2>7. CopyingCount = 0 /\ CopyingCount' = 1
    BY <1>1 DEF acceptData, CopyingCount, Copying
  <2>8. Counted'
    BY <1>1, <1>b, <1>n, <2>3, <2>5, <2>6, <2>7
       DEF acceptData, BelowCapacity, Counted
  <2>9. Room'
    BY <2>1, <2>5 DEF Room
  <2>10. SlotBeingFilled'
    BY <1>1, <2>2 DEF acceptData, SlotBeingFilled
  <2> QED
    BY <2>4, <2>8, <2>9, <2>10 DEF BelowCapacity
<1>2. CASE copyDone
  <2>1. messageIndex = tail /\ Queue!Pending < NumberOfMessages - 1
    BY <1>2, <1>t, <1>b DEF copyDone, InStep, BelowCapacity, Room, Copying
  <2>2. /\ \A i \in Pool : i # tail => message'[i] = message[i]
        /\ message'[messageIndex].block = message[messageIndex].block
        /\ message'[messageIndex].complete
    BY <1>2, <1>t, <2>1 DEF copyDone, TypeOK, Message
  <2>3. UNCHANGED <<queuePtr, head, tail, returned, delivered, consumer,
                    accepted, messageIndex>>
    BY <1>2 DEF copyDone
  <2>4. QueueInOrder' /\ SlotInUse'
    BY <1>t, <1>b, <2>1, <2>2, <2>3, OtherSlotsKept
  <2>5. Queue!Pending' = Queue!Pending
    BY <2>3 DEF Queue!Pending
  <2>6. TakenCount' = TakenCount
    BY <2>3 DEF TakenCount, Taken
  <2>7. Copying /\ Copying' /\ CopyingCount' = CopyingCount
    BY <1>2 DEF copyDone, CopyingCount, Copying
  <2>8. Counted' /\ Room'
    BY <1>b, <2>1, <2>3, <2>5, <2>6, <2>7 DEF BelowCapacity, Counted, Room
  <2>9. SlotBeingFilled'
    BY <1>b, <2>2, <2>3, <2>7 DEF BelowCapacity, SlotBeingFilled
  <2> QED
    BY <2>4, <2>8, <2>9 DEF BelowCapacity
<1>3. CASE enqueue
  <2>1. messageIndex = tail /\ producer = "enqueue" /\ producer' = "signal"
    BY <1>3, <1>t DEF enqueue, InStep
  <2>2. Queue!Store(messageIndex)
    BY <1>3 DEF enqueue, Queue!enqueueEntry
  <2>3. UNCHANGED <<message, returned, accepted, delivered, consumer>>
    BY <1>3 DEF enqueue, Queue!enqueueEntry
  <2> QED
    BY <1>t, <1>b, <2>1, <2>2, <2>3, StoreStep
<1>4. CASE signalAndAdvance
  <2>1. UNCHANGED <<message, queuePtr, head, tail, returned, accepted, delivered,
                    consumer>>
    BY <1>4 DEF signalAndAdvance, Queue!signal
  <2>2. ~Copying /\ ~Copying'
    BY <1>4 DEF signalAndAdvance, Copying
  <2>3. Taken' <=> Taken
    BY <2>1 DEF Taken
  <2> QED
    BY <1>b, <2>1, <2>2, <2>3, SameBlocks
<1>5. CASE start \/ stop \/ destroy \/ joined \/ Terminated \/ UNCHANGED vars
  <2>1. UNCHANGED <<message, queuePtr, head, tail, returned, accepted, delivered,
                    consumer, producer, messageIndex>>
    BY <1>5 DEF start, stop, destroy, joined, Terminated
  <2>2. (Taken' <=> Taken) /\ (Copying' <=> Copying)
    BY <2>1 DEF Taken, Copying
  <2> QED
    BY <1>b, <2>1, <2>2, SameBlocks
<1>6. CASE consumerStarts \/ testTimeToExit \/ processed \/ waitTimesOut
  <2>1. UNCHANGED <<message, queuePtr, head, tail, returned, accepted, delivered,
                    producer, messageIndex>>
    BY <1>6 DEF consumerStarts, testTimeToExit, processed, waitTimesOut,
                Queue!timedwaitReturns
  <2>2. Copying' <=> Copying
    BY <2>1 DEF Copying
  <2>3. (Taken' <=> Taken) /\ (consumer' = "processing" => consumer = "processing")
    BY <1>6, <2>1 DEF Taken, consumerStarts, testTimeToExit, processed,
                      waitTimesOut
  <2> QED
    BY <1>b, <2>1, <2>2, <2>3, SameBlocks
<1>7. CASE dequeue
  <2>1. UNCHANGED <<message, messageIndex, accepted, delivered, producer>>
    BY <1>7 DEF dequeue
  <2>2. CASE Queue!Take(Reader) /\ waiting' = waiting
    <3>1. waiting' = {}
      BY <1>7, <1>t, <2>2 DEF dequeue, Queue!dequeueEntry, TypeOK, Queue!TypeOK
    <3>2. consumer # "dispatch" /\ consumer' = "dispatch"
      BY <1>7, <3>1 DEF dequeue
    <3> QED
      BY <1>t, <1>b, <2>1, <2>2, <3>2, TakeStep
  <2>3. CASE waiting' = waiting \union {Reader} /\ UNCHANGED <<queuePtr, head, tail, returned>>
    <3>1. consumer = "dequeue" /\ consumer' = "waiting"
      BY <1>7, <2>3 DEF dequeue
    <3>2. ~Taken /\ ~Taken' /\ (Copying' <=> Copying)
      BY <2>1, <3>1 DEF Taken, Copying
    <3> QED
      BY <1>b, <2>1, <2>3, <3>1, <3>2, SameBlocks
  <2> QED
    BY <1>7, <2>2, <2>3 DEF dequeue, Queue!dequeueEntry
<1>8. CASE dequeueAfterWait
  <2>1. UNCHANGED <<message, messageIndex, accepted, delivered, producer>>
    BY <1>8 DEF dequeueAfterWait
  <2>2. consumer = "waiting" /\ consumer' = "dispatch"
    BY <1>8, <1>t DEF dequeueAfterWait, Queue!dequeueAfterWait, WaitsInQueue
  <2>3. CASE Queue!Take(Reader)
    BY <1>t, <1>b, <2>1, <2>2, <2>3, TakeStep
  <2>4. CASE /\ returned' = [returned EXCEPT ![Reader] = NoMessage]
             /\ UNCHANGED <<queuePtr, head, tail>>
    <3>1. returned'[Reader] = NoMessage
      BY <1>n, <2>4
    <3>2. ~Taken /\ ~Taken' /\ (Copying' <=> Copying)
      BY <2>1, <2>2, <3>1 DEF Taken, Copying
    <3> QED
      BY <1>b, <2>1, <2>2, <2>4, <3>2, SameBlocks
  <2> QED
    BY <1>8, <2>3, <2>4 DEF dequeueAfterWait, Queue!dequeueAfterWait
<1>9. CASE dispatch
  <2>1. UNCHANGED <<message, messageIndex, accepted, producer, queuePtr, head,
                    tail, returned>>
    BY <1>9 DEF dispatch
  <2>2. Copying' <=> Copying
    BY <2>1 DEF Copying
  <2>3. CASE returned[Reader] = NoMessage
    <3>1. delivered' = delivered /\ consumer' = "loop"
      BY <1>9, <2>3 DEF dispatch
    <3>2. ~Taken /\ ~Taken'
      BY <2>3, <3>1 DEF Taken
    <3> QED
      BY <1>b, <2>1, <2>2, <3>1, <3>2, SameBlocks
  <2>4. CASE returned[Reader] # NoMessage
    <3>1. Taken
      BY <1>9, <2>4 DEF dispatch, Taken
    <3>2. consumer' = "processing" /\ delivered' = delivered + 1 /\ ~Taken'
      BY <1>9, <1>b, <2>4, <3>1
         DEF dispatch, BelowCapacity, SlotInUse, Intact, Taken
    <3>3. TakenCount = 1 /\ TakenCount' = 0
      BY <3>1, <3>2 DEF TakenCount
    <3>4. /\ Queue!Pending' = Queue!Pending
          /\ \A k : Queue!PendingSlot(k)' = Queue!PendingSlot(k)
      BY <2>1 DEF Queue!Pending, Queue!PendingSlot
    <3>5. CopyingCount' = CopyingCount /\ CopyingCount \in Nat
      BY <2>2 DEF CopyingCount
    <3>6. Room' /\ Counted'
      BY <1>b, <1>n, <2>1, <2>2, <3>2, <3>3, <3>4, <3>5
         DEF BelowCapacity, Room, Counted
    <3>7. QueueInOrder'
      <4> SUFFICES ASSUME NEW k \in 1 .. Queue!Pending
                   PROVE  /\ queuePtr'[Queue!PendingSlot(k)'] = Queue!PendingSlot(k)'
                          /\ Intact(Queue!PendingSlot(k), delivered + TakenCount + k)'
        BY <3>4 DEF QueueInOrder
      <4>1. (delivered + TakenCount + k)' = delivered + TakenCount + k
        BY <1>n, <3>2, <3>3
      <4>2. /\ queuePtr[Queue!PendingSlot(k)] = Queue!PendingSlot(k)
            /\ Intact(Queue!PendingSlot(k), delivered + TakenCount + k)
        BY <1>b DEF BelowCapacity, QueueInOrder
      <4> QED
        BY <2>1, <3>4, <4>1, <4>2 DEF Intact
    <3>8. SlotInUse'
      BY <1>b, <2>1, <3>1, <3>2 DEF BelowCapacity, SlotInUse, Intact, Queue!NextSlot
    <3>9. SlotBeingFilled'
      BY <1>b, <2>1, <2>2 DEF BelowCapacity, SlotBeingFilled
    <3> QED
      BY <3>6, <3>7, <3>8, <3>9 DEF BelowCapacity
  <2> QED
    BY <2>3, <2>4
<1> QED
  BY <1>1, <1>2, <1>3, <1>4, <1>5, <1>6, <1>7, <1>8, <1>9
     DEF Next, ProducerSteps, ConsumerSteps

\* The whole invariant holds at the start and is kept by every step.
LEMMA PoolInvariant == Spec => []PoolInv
<1>1. Init => PoolInv
  <2> SUFFICES ASSUME Init PROVE PoolInv
    OBVIOUS
  <2>1. TypeOK
    BY InitType
  <2>2. InStep /\ WaitsInQueue
    BY DEF Init, Queue!Init, InStep, WaitsInQueue
  <2>3. Queue!Pending = 0 /\ ~Copying /\ ~Taken /\ consumer # "processing"
    BY DEF Init, Queue!Init, Queue!Pending, Copying, Taken
  <2>4. BelowCapacity
    BY <2>3 DEF Init, BelowCapacity, Room, Counted, QueueInOrder, SlotInUse,
                SlotBeingFilled, TakenCount, CopyingCount, Copying
  <2> QED
    BY <2>1, <2>2, <2>4 DEF PoolInv
<1>2. PoolInv /\ [Next]_vars => PoolInv'
  BY TypeInductive, StructureInductive, BelowCapacityInductive DEF PoolInv
<1> QED
  BY <1>1, <1>2, PTL DEF Spec

\* Below capacity no accepted block is lost: it is being copied, waits in the
\* queue, has just been taken, or has been handed over.
THEOREM NothingIsLost == Spec => []NoLossBelowCapacity
<1>1. PoolInv => NoLossBelowCapacity
  <2> SUFFICES ASSUME PoolInv, ~everFull PROVE NothingLost
    BY DEF NoLossBelowCapacity
  <2>1. Counted
    BY DEF PoolInv, BelowCapacity
  <2>2. Queue!Pending \in Nat /\ accepted \in Nat /\ delivered \in Nat
    BY TypeGivesQueueOK, PendingRange, MaxBlocksAssumption DEF PoolInv, TypeOK
  <2>3. UnderWay = Queue!Pending + CopyingCount + TakenCount
    BY DEF UnderWay, CopyingCount, TakenCount, Copying, Taken
  <2>4. CopyingCount \in Nat /\ TakenCount \in Nat
    BY DEF CopyingCount, TakenCount
  <2> QED
    BY <2>1, <2>2, <2>3, <2>4 DEF Counted, NothingLost
<1> QED
  BY <1>1, PoolInvariant, PTL

\* Below capacity acceptData never writes into the slot the data processor works
\* on, and that slot was complete when it was handed over.
THEOREM SlotInUseIsKept == Spec => []NoOverwriteInUse
<1>1. PoolInv => NoOverwriteInUse
  BY DEF PoolInv, BelowCapacity, SlotInUse, Intact, NoOverwriteInUse
<1> QED
  BY <1>1, PoolInvariant, PTL

\* Below capacity the blocks are handed over once each and in order.
THEOREM BlocksInOrder == Spec => DeliveredExactlyOnce
<1>1. PoolInv /\ [Next]_vars =>
        [~everFull /\ consumer = "dispatch" /\ consumer' = "processing"
           => delivered' = delivered + 1]_vars
  <2> SUFFICES ASSUME PoolInv, Next, ~everFull,
                      consumer = "dispatch", consumer' = "processing"
               PROVE  delivered' = delivered + 1
    OBVIOUS
  <2>1. dispatch
    BY DEF Next, acceptData, ProducerSteps, copyDone, enqueue, signalAndAdvance,
           ConsumerSteps, consumerStarts, testTimeToExit, dequeue, waitTimesOut,
           dequeueAfterWait, processed, start, stop, destroy, joined, Terminated
  <2>2. returned[Reader] # NoMessage /\ delivered' = message[returned[Reader]].block
    BY <2>1 DEF dispatch
  <2> QED
    BY <2>2 DEF PoolInv, BelowCapacity, SlotInUse, Intact, Taken
<1> QED
  BY <1>1, PoolInvariant, PTL DEF Spec, DeliveredExactlyOnce
=============================================================================
