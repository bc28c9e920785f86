------------------------- MODULE MessageQueue_proofs -------------------------
(***************************************************************************)
(* Proofs about MessageQueue, for a ring of any size and any finite sets of *)
(* producers and consumers.                                                 *)
(***************************************************************************)
EXTENDS MessageQueue, SequenceTheorems, FiniteSetTheorems, TLAPS

(***************************************************************************)
(* Type correctness.                                                        *)
(***************************************************************************)

\* NextSlot stays in the ring.
LEMMA NextSlotInRing == ASSUME NEW i \in Slots PROVE NextSlot(i) \in Slots
BY NumberOfEntriesAssumption DEF Slots, NextSlot

\* Every step of the queue keeps its two pointers in the ring, its slots typed
\* and a consumer in at most one of the two wait sets.
LEMMA TypeInductive == TypeOK /\ [Next]_vars => TypeOK'
<1> SUFFICES ASSUME TypeOK, [Next]_vars PROVE TypeOK'
  OBVIOUS
<1> USE DEF TypeOK
<1>1. ASSUME NEW p \in Producers, NEW e \in Entries, enqueueEntry(p, e)
      PROVE  TypeOK'
  BY <1>1, NextSlotInRing DEF enqueueEntry, Store
<1>2. ASSUME NEW p \in Producers, signal(p) PROVE TypeOK'
  BY <1>2 DEF signal
<1>3. ASSUME NEW c \in Consumers, dequeueEntry(c) PROVE TypeOK'
  BY <1>3, NextSlotInRing DEF dequeueEntry, Take
<1>4. ASSUME NEW c \in Consumers, timedwaitReturns(c) PROVE TypeOK'
  BY <1>4 DEF timedwaitReturns
<1>5. ASSUME NEW c \in Consumers, dequeueAfterWait(c) PROVE TypeOK'
  BY <1>5, NextSlotInRing DEF dequeueAfterWait, Take
<1>6. CASE UNCHANGED vars
  BY <1>6 DEF vars
<1> QED
  BY <1>1, <1>2, <1>3, <1>4, <1>5, <1>6 DEF Next

\* The state of the queue always has its type.
THEOREM TypeCorrect == Spec => []TypeOK
<1>1. Init => TypeOK
  BY NumberOfEntriesAssumption DEF Init, TypeOK, Slots
<1> QED
  BY <1>1, TypeInductive, PTL DEF Spec

(***************************************************************************)
(* The number of entries between head and tail.                             *)
(***************************************************************************)

\* It never reaches the size of the ring, and it is 0 exactly for an empty ring.
LEMMA PendingRange ==
  ASSUME TypeOK
  PROVE  /\ Pending \in 0 .. numberOfEntries - 1
         /\ IsEmpty <=> Pending = 0
BY NumberOfEntriesAssumption DEF TypeOK, Slots, Pending, IsEmpty

\* Storing an entry adds one to it, or empties the ring that was one short of
\* its size.
LEMMA PendingAfterStore ==
  ASSUME TypeOK, NEW e, Store(e)
  PROVE  Pending' = IF Pending < numberOfEntries - 1 THEN Pending + 1 ELSE 0
BY NumberOfEntriesAssumption DEF TypeOK, Slots, Store, Pending, NextSlot

\* Taking an entry removes one.
LEMMA PendingAfterTake ==
  ASSUME TypeOK, NEW c, Take(c)
  PROVE  Pending' = Pending - 1
BY NumberOfEntriesAssumption DEF TypeOK, Slots, Take, Pending, NextSlot, IsEmpty

(***************************************************************************)
(* No lost wakeup.  The invariant counts: while a consumer sleeps, every    *)
(* entry in the ring is matched by a producer still to signal or by a       *)
(* consumer on its way back to the ring.                                    *)
(***************************************************************************)
WakeupCount ==
  waiting # {} => Pending <= Cardinality(signalling) + Cardinality(woken)

WakeupInv == TypeOK /\ WakeupCount

\* The sets the invariant counts are finite.
LEMMA WaitSetsFinite ==
  ASSUME TypeOK
  PROVE  /\ IsFiniteSet(signalling) /\ Cardinality(signalling) \in Nat
         /\ IsFiniteSet(woken) /\ Cardinality(woken) \in Nat
<1>1. IsFiniteSet(signalling) /\ IsFiniteSet(woken)
  <2>1. signalling \in SUBSET Producers /\ woken \in SUBSET Consumers
    BY DEF TypeOK
  <2> QED
    BY <2>1, ThreadsAssumption, FS_Subset
<1> QED
  BY <1>1, FS_CardinalityType

\* No step leaves a sleeping consumer with more entries than wakeups under way.
LEMMA WakeupCountInductive == WakeupInv /\ [Next]_vars => WakeupCount'
<1> SUFFICES ASSUME WakeupInv, [Next]_vars PROVE WakeupCount'
  OBVIOUS
<1>a. TypeOK /\ WakeupCount
  BY DEF WakeupInv
<1>b. /\ IsFiniteSet(signalling) /\ Cardinality(signalling) \in Nat
      /\ IsFiniteSet(woken) /\ Cardinality(woken) \in Nat
  BY <1>a, WaitSetsFinite
<1>c. Pending \in Nat /\ (IsEmpty <=> Pending = 0)
  BY <1>a, PendingRange, NumberOfEntriesAssumption
<1>1. ASSUME NEW p \in Producers, NEW e \in Entries, enqueueEntry(p, e)
      PROVE  WakeupCount'
  <2>1. Cardinality(signalling') = Cardinality(signalling) + 1
    BY <1>1, <1>b, FS_AddElement DEF enqueueEntry
  <2>2. Pending' <= Pending + 1
    BY <1>1, <1>a, <1>c, PendingAfterStore DEF enqueueEntry
  <2>3. Pending' \in Nat
    BY <1>1, <1>a, <1>c, PendingAfterStore DEF enqueueEntry
  <2> QED
    BY <1>1, <1>a, <1>b, <1>c, <2>1, <2>2, <2>3 DEF enqueueEntry, WakeupCount
<1>2. ASSUME NEW p \in Producers, signal(p) PROVE WakeupCount'
  <2>1. Pending' = Pending
    BY <1>2 DEF signal, Pending
  <2>2. CASE waiting = {}
    BY <1>2, <2>2 DEF signal, WakeupCount
  <2>3. CASE waiting # {}
    <3>1. PICK c \in waiting : woken' = woken \union {c}
      BY <1>2, <2>3 DEF signal
    <3>2. c \notin woken
      BY <1>a, <3>1 DEF TypeOK
    <3>3. Cardinality(woken') = Cardinality(woken) + 1
      BY <1>b, <3>1, <3>2, FS_AddElement
    <3>4. Cardinality(signalling') = Cardinality(signalling) - 1
      BY <1>2, <1>b, FS_RemoveElement DEF signal
    <3> QED
      BY <1>a, <1>b, <1>c, <2>1, <2>3, <3>3, <3>4 DEF WakeupCount
  <2> QED
    BY <2>2, <2>3
<1>3. ASSUME NEW c \in Consumers, dequeueEntry(c) PROVE WakeupCount'
  <2>1. CASE Take(c)
    <3>1. waiting' = waiting /\ woken' = woken /\ signalling' = signalling
      BY <1>3, <2>1 DEF dequeueEntry, Take
    <3>2. Pending' = Pending - 1
      BY <1>a, <2>1, PendingAfterTake
    <3> QED
      BY <1>a, <1>b, <1>c, <3>1, <3>2 DEF WakeupCount
  <2>2. CASE IsEmpty
    <3>1. Pending' = 0 /\ woken' = woken /\ signalling' = signalling
      BY <1>3, <1>c, <2>2 DEF dequeueEntry, Take, Pending
    <3> QED
      BY <1>b, <3>1 DEF WakeupCount
  <2> QED
    BY <1>3, <2>1, <2>2 DEF dequeueEntry
<1>4. ASSUME NEW c \in Consumers, timedwaitReturns(c) PROVE WakeupCount'
  <2>1. c \notin woken
    BY <1>4, <1>a DEF timedwaitReturns, TypeOK
  <2>2. Cardinality(woken') = Cardinality(woken) + 1
    BY <1>4, <1>b, <2>1, FS_AddElement DEF timedwaitReturns
  <2>3. Pending' = Pending /\ signalling' = signalling /\ waiting # {}
    BY <1>4 DEF timedwaitReturns, Pending
  <2> QED
    BY <1>a, <1>b, <1>c, <2>2, <2>3 DEF WakeupCount
<1>5. ASSUME NEW c \in Consumers, dequeueAfterWait(c) PROVE WakeupCount'
  <2>1. Cardinality(woken') = Cardinality(woken) - 1
    BY <1>5, <1>b, FS_RemoveElement DEF dequeueAfterWait
  <2>2. waiting' = waiting /\ signalling' = signalling /\ c \in woken
    BY <1>5 DEF dequeueAfterWait
  <2>3. Cardinality(woken) # 0
    BY <1>b, <2>2, FS_EmptySet
  <2>4. CASE Take(c)
    <3>1. Pending' = Pending - 1
      BY <1>a, <2>4, PendingAfterTake
    <3> QED
      BY <1>a, <1>b, <1>c, <2>1, <2>2, <2>3, <3>1 DEF WakeupCount
  <2>5. CASE IsEmpty
    <3>1. Pending' = 0
      BY <1>5, <1>c, <2>5 DEF dequeueAfterWait, Take, Pending
    <3> QED
      BY <1>b, <2>1, <2>2, <2>3, <3>1 DEF WakeupCount
  <2> QED
    BY <1>5, <2>4, <2>5 DEF dequeueAfterWait
<1>6. CASE UNCHANGED vars
  BY <1>6, <1>a DEF vars, WakeupCount, Pending
<1> QED
  BY <1>1, <1>2, <1>3, <1>4, <1>5, <1>6 DEF Next

\* A consumer never sleeps beside an entry with nobody about to act on it: the
\* unlock before pthread_cond_signal in enqueueEntry costs no wakeup.
THEOREM NoWakeupIsLost == Spec => []NoLostWakeup
<1>1. Init => WakeupInv
  <2> SUFFICES ASSUME Init PROVE WakeupInv
    OBVIOUS
  <2>1. TypeOK
    BY NumberOfEntriesAssumption DEF Init, TypeOK, Slots
  <2> QED
    BY <2>1 DEF Init, WakeupInv, WakeupCount
<1>2. WakeupInv /\ [Next]_vars => WakeupInv'
  BY TypeInductive, WakeupCountInductive DEF WakeupInv
<1>3. WakeupInv => NoLostWakeup
  <2> SUFFICES ASSUME WakeupInv, ~IsEmpty, waiting # {},
                      signalling = {}, woken = {}
               PROVE  FALSE
    BY DEF NoLostWakeup
  <2>1. Pending <= Cardinality({}) + Cardinality({})
    BY DEF WakeupInv, WakeupCount
  <2>2. Pending \in Nat /\ Pending # 0
    BY PendingRange, NumberOfEntriesAssumption DEF WakeupInv
  <2> QED
    BY <2>1, <2>2, FS_EmptySet
<1> QED
  BY <1>1, <1>2, <1>3, PTL DEF Spec

(***************************************************************************)
(* The ring implements the abstract FIFO.                                   *)
(***************************************************************************)

\* The slots between head and tail are slots of the ring, all different from
\* the one tail stands at, and the last of them is the one before it.
LEMMA PendingSlotInRing ==
  ASSUME TypeOK, NEW k \in 1 .. Pending
  PROVE  PendingSlot(k) \in Slots /\ PendingSlot(k) # tail
BY NumberOfEntriesAssumption DEF TypeOK, Slots, Pending, PendingSlot

\* What the ring holds is a sequence, as long as Pending.
LEMMA ContentsIsSeq ==
  ASSUME TypeOK
  PROVE  /\ Contents \in Seq(Entries \union {NULL})
         /\ Len(Contents) = Pending
         /\ \A k \in 1 .. Pending : Contents[k] = queuePtr[PendingSlot(k)]
<1>1. Pending \in Nat
  BY PendingRange, NumberOfEntriesAssumption
<1>2. \A k \in 1 .. Pending : queuePtr[PendingSlot(k)] \in Entries \union {NULL}
  BY PendingSlotInRing DEF TypeOK
<1> QED
  BY <1>1, <1>2 DEF Contents

\* Storing appends, or flushes a ring that was one entry short of full.
LEMMA StoreIsPut ==
  ASSUME TypeOK, TypeOK', NEW e \in Entries, Store(e)
  PROVE  Contents' = IF Len(Contents) < numberOfEntries - 1
                     THEN Append(Contents, e) ELSE << >>
<1>1. /\ Contents \in Seq(Entries \union {NULL})
      /\ Len(Contents) = Pending
      /\ \A k \in 1 .. Pending : Contents[k] = queuePtr[PendingSlot(k)]
  BY ContentsIsSeq
<1>2. Pending \in Nat
  BY PendingRange, NumberOfEntriesAssumption
<1>3. CASE Pending < numberOfEntries - 1
  <2>1. Pending' = Pending + 1
    BY <1>3, PendingAfterStore
  <2>2. Contents' = [k \in 1 .. Pending + 1 |-> queuePtr'[PendingSlot(k)']]
    BY <2>1 DEF Contents
  <2>3. ASSUME NEW k \in 1 .. Pending
        PROVE  queuePtr'[PendingSlot(k)'] = Contents[k]
    <3>1. PendingSlot(k)' = PendingSlot(k)
      BY DEF Store, PendingSlot
    <3>2. PendingSlot(k) \in Slots /\ PendingSlot(k) # tail
      BY PendingSlotInRing
    <3> QED
      BY <1>1, <3>1, <3>2 DEF Store, TypeOK
  <2>4. ASSUME NEW k \in Nat, k = Pending + 1
        PROVE  queuePtr'[PendingSlot(k)'] = e
    <3>1. PendingSlot(k) = tail
      BY <1>3, <2>4, NumberOfEntriesAssumption
         DEF PendingSlot, Pending, TypeOK, Slots
    <3>2. PendingSlot(k)' = PendingSlot(k)
      BY DEF Store, PendingSlot
    <3> QED
      BY <3>1, <3>2 DEF Store, TypeOK
  <2> DEFINE new == Append(Contents, e)
  <2>5. /\ new \in [1 .. Pending + 1 -> Entries \union {NULL}]
        /\ \A k \in 1 .. Pending : new[k] = Contents[k]
        /\ new[Pending + 1] = e
    <3>1. e \in Entries \union {NULL}
      OBVIOUS
    <3>2. /\ new \in Seq(Entries \union {NULL})
          /\ Len(new) = Len(Contents) + 1
          /\ \A k \in 1 .. Len(Contents) : new[k] = Contents[k]
          /\ new[Len(Contents) + 1] = e
      BY <1>1, <3>1, AppendProperties
    <3> HIDE DEF new
    <3>3. new \in [1 .. Len(new) -> Entries \union {NULL}]
      BY <3>2, LenProperties
    <3> QED
      BY <1>1, <3>2, <3>3
  <2> HIDE DEF new
  <2>6. ASSUME NEW k \in 1 .. Pending + 1
        PROVE  queuePtr'[PendingSlot(k)'] = new[k]
    <3>1. CASE k \in 1 .. Pending
      BY <2>3, <2>5, <3>1
    <3>2. CASE k = Pending + 1
      BY <2>4, <2>5, <3>2
    <3> QED
      BY <1>2, <3>1, <3>2
  <2>7. Contents' = new
    BY <2>2, <2>5, <2>6
  <2> QED
    BY <1>1, <1>3, <2>7 DEF new
<1>4. CASE ~(Pending < numberOfEntries - 1)
  <2>1. Pending' = 0
    BY <1>4, PendingAfterStore
  <2>2. Contents' = << >>
    BY <2>1 DEF Contents
  <2> QED
    BY <1>1, <1>4, <2>2
<1> QED
  BY <1>3, <1>4

\* Taking removes the head and hands it to the consumer.
LEMMA TakeIsGet ==
  ASSUME TypeOK, TypeOK', NEW c \in Consumers, Take(c)
  PROVE  Abstract!Get(c)
<1>1. /\ Contents \in Seq(Entries \union {NULL})
      /\ Len(Contents) = Pending
      /\ \A k \in 1 .. Pending : Contents[k] = queuePtr[PendingSlot(k)]
  BY ContentsIsSeq
<1>2. Pending \in Nat /\ Pending >= 1
  BY PendingRange, NumberOfEntriesAssumption DEF Take
<1>3. Contents # << >>
  BY <1>1, <1>2
<1>4. Head(Contents) = queuePtr[head]
  <2>1. PendingSlot(1) = head
    BY NumberOfEntriesAssumption DEF PendingSlot, TypeOK, Slots
  <2> QED
    BY <1>1, <1>2, <1>3, <2>1
<1>5. Contents' = Tail(Contents)
  <2>1. Contents' = [k \in 1 .. Pending - 1 |-> queuePtr[PendingSlot(k)']]
    BY <1>2, PendingAfterTake DEF Contents, Take
  <2>2. ASSUME NEW k \in 1 .. Pending - 1
        PROVE  PendingSlot(k)' = PendingSlot(k + 1)
    BY <1>2, NumberOfEntriesAssumption
       DEF Take, PendingSlot, Pending, NextSlot, TypeOK, Slots
  <2>3. ASSUME NEW k \in 1 .. Pending - 1
        PROVE  queuePtr[PendingSlot(k)'] = Contents[k + 1]
    BY <1>1, <1>2, <2>2
  <2>4. /\ Tail(Contents) \in [1 .. Pending - 1 -> Entries \union {NULL}]
        /\ \A k \in 1 .. Pending - 1 : Tail(Contents)[k] = Contents[k + 1]
    BY <1>1, <1>3, HeadTailProperties, LenProperties
  <2> QED
    BY <2>1, <2>3, <2>4
<1>6. returned' = [returned EXCEPT ![c] = Head(Contents)]
  BY <1>4 DEF Take
<1> QED
  BY <1>3, <1>5, <1>6 DEF Abstract!Get

\* An empty ring is an empty FIFO.
LEMMA EmptyIsEmpty ==
  ASSUME TypeOK, IsEmpty
  PROVE  Contents = << >>
<1>1. Pending = 0
  BY PendingRange
<1> QED
  BY <1>1 DEF Contents

\* A step that moves neither the ring nor its pointers leaves the FIFO as it is.
LEMMA ContentsUnchanged ==
  ASSUME UNCHANGED <<queuePtr, head, tail>>
  PROVE  Contents' = Contents
BY DEF Contents, Pending, PendingSlot

\* Every step of the ring is a step of the FIFO or changes nothing it shows.
LEMMA StepImplements == TypeOK /\ [Next]_vars => [Abstract!Next]_(Abstract!vars)
<1> SUFFICES ASSUME TypeOK, [Next]_vars
             PROVE  Abstract!Next \/ UNCHANGED <<Contents, returned>>
  BY DEF Abstract!vars
<1>t. TypeOK'
  BY TypeInductive
<1>1. ASSUME NEW p \in Producers, NEW e \in Entries, enqueueEntry(p, e)
      PROVE  Abstract!Next
  <2>1. Contents' = IF Len(Contents) < numberOfEntries - 1
                    THEN Append(Contents, e) ELSE << >>
    BY <1>1, <1>t, StoreIsPut DEF enqueueEntry
  <2>2. Abstract!Put(e)
    BY <1>1, <2>1 DEF enqueueEntry, Abstract!Put
  <2> QED
    BY <2>2 DEF Abstract!Next
<1>2. ASSUME NEW p \in Producers, signal(p) PROVE UNCHANGED <<Contents, returned>>
  BY <1>2, ContentsUnchanged DEF signal
<1>3. ASSUME NEW c \in Consumers, dequeueEntry(c)
      PROVE  Abstract!Next \/ UNCHANGED <<Contents, returned>>
  <2>1. CASE Take(c)
    BY <2>1, <1>t, TakeIsGet DEF Abstract!Next
  <2>2. CASE UNCHANGED <<queuePtr, head, tail, returned>>
    BY <2>2, ContentsUnchanged
  <2> QED
    BY <1>3, <2>1, <2>2 DEF dequeueEntry
<1>4. ASSUME NEW c \in Consumers, timedwaitReturns(c)
      PROVE  UNCHANGED <<Contents, returned>>
  BY <1>4, ContentsUnchanged DEF timedwaitReturns
<1>5. ASSUME NEW c \in Consumers, dequeueAfterWait(c)
      PROVE  Abstract!Next
  <2>1. CASE Take(c)
    BY <2>1, <1>t, TakeIsGet DEF Abstract!Next
  <2>2. CASE /\ IsEmpty
             /\ returned' = [returned EXCEPT ![c] = NULL]
             /\ UNCHANGED <<queuePtr, head, tail>>
    <3>1. Contents = << >> /\ Contents' = Contents
      BY <2>2, EmptyIsEmpty, ContentsUnchanged
    <3>2. Abstract!GetNothing(c)
      BY <2>2, <3>1 DEF Abstract!GetNothing
    <3> QED
      BY <3>2 DEF Abstract!Next
  <2> QED
    BY <1>5, <2>1, <2>2 DEF dequeueAfterWait
<1>6. CASE UNCHANGED vars
  BY <1>6, ContentsUnchanged DEF vars
<1> QED
  BY <1>1, <1>2, <1>3, <1>4, <1>5, <1>6 DEF Next

\* The ring queue implements FlushFifo for every ring size and any threads:
\* entries leave once each, in the order they were stored, and are lost only all
\* together when an entry is stored beside numberOfEntries - 1 others.
THEOREM RingImplementsFifo == Spec => ImplementsFlushFifo
<1>1. Init => TypeOK
  BY NumberOfEntriesAssumption DEF Init, TypeOK, Slots
<1>2. Init => Abstract!Init
  BY DEF Init, Abstract!Init, Contents, Pending
<1> QED
  BY <1>1, <1>2, TypeInductive, StepImplements, PTL
     DEF Spec, ImplementsFlushFifo, Abstract!Spec
=============================================================================
