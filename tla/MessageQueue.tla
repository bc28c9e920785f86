---------------------------- MODULE MessageQueue ----------------------------
(***************************************************************************)
(* The message queue of src/radioDiags/src_diags/MessageQueue.cc: a ring of *)
(* entry pointers, a mutex and the condition variable dataAvailable.        *)
(*                                                                          *)
(* queueLock is held from the first to the last access of the ring in both  *)
(* operations, except inside pthread_cond_timedwait, so each critical       *)
(* section is one action and dequeueEntry is cut where the wait gives the   *)
(* lock up.  enqueueEntry calls signal after it has released the lock: that *)
(* is an action of its own.                                                 *)
(***************************************************************************)
EXTENDS Naturals, FiniteSets

CONSTANTS numberOfEntries,  \* slots of the ring
          Producers,        \* threads that call enqueueEntry
          Consumers,        \* threads that call dequeueEntry
          Entries,          \* pointers that can be queued
          NULL              \* the NULL pointer; also a slot never written

ASSUME NumberOfEntriesAssumption == numberOfEntries \in Nat \ {0}
ASSUME NullAssumption == NULL \notin Entries
ASSUME ThreadsAssumption == IsFiniteSet(Producers) /\ IsFiniteSet(Consumers)

VARIABLES queuePtr,    \* the ring: slot -> entry
          head,        \* slot of the next entry to take
          tail,        \* slot of the next entry to store
          signalling,  \* producers between the unlock and pthread_cond_signal
          waiting,     \* consumers blocked in pthread_cond_timedwait
          woken,       \* consumers the wait let go, yet to get queueLock back
          returned     \* consumer -> result of its last dequeueEntry

vars == <<queuePtr, head, tail, signalling, waiting, woken, returned>>

Slots == 0 .. numberOfEntries - 1

\* Faulty variant: the wrap to the beginning is forgotten.
NextSlotWithoutWrap(i) == i + 1

\* tail++ and head++, each with its wrap to the beginning.
NextSlot(i) == IF i + 1 = numberOfEntries THEN 0 ELSE i + 1

Init == /\ queuePtr = [i \in Slots |-> NULL]
        /\ head = 0
        /\ tail = 0
        /\ signalling = {}
        /\ waiting = {}
        /\ woken = {}
        /\ returned = [c \in Consumers |-> NULL]

\* The queue takes head = tail for "empty" and nothing for "full".
IsEmpty == head = tail

Store(e) == /\ queuePtr' = [queuePtr EXCEPT ![tail] = e]
            /\ tail' = NextSlot(tail)
            /\ UNCHANGED head

Take(c) == /\ ~IsEmpty
           /\ returned' = [returned EXCEPT ![c] = queuePtr[head]]
           /\ head' = NextSlot(head)
           /\ UNCHANGED <<queuePtr, tail>>

\* Faulty variant: only an entry put into an empty ring is signalled.
enqueueEntrySignallingOnce(p, e) ==
  /\ p \notin signalling
  /\ Store(e)
  /\ signalling' = IF IsEmpty THEN signalling \union {p} ELSE signalling
  /\ UNCHANGED <<waiting, woken, returned>>

enqueueEntry(p, e) == /\ p \notin signalling
                      /\ Store(e)
                      /\ signalling' = signalling \union {p}
                      /\ UNCHANGED <<waiting, woken, returned>>

\* pthread_cond_signal lets one blocked consumer go, if there is one.
signal(p) == /\ p \in signalling
             /\ signalling' = signalling \ {p}
             /\ \/ \E c \in waiting : /\ waiting' = waiting \ {c}
                                      /\ woken' = woken \union {c}
                \/ waiting = {} /\ UNCHANGED <<waiting, woken>>
             /\ UNCHANGED <<queuePtr, head, tail, returned>>

dequeueEntry(c) == /\ c \notin waiting \union woken
                   /\ \/ Take(c) /\ UNCHANGED waiting
                      \/ /\ IsEmpty
                         /\ waiting' = waiting \union {c}
                         /\ UNCHANGED <<queuePtr, head, tail, returned>>
                   /\ UNCHANGED <<signalling, woken>>

\* Faulty variant: pthread_cond_wait in the place of pthread_cond_timedwait.
waitForever(c) == FALSE

\* The second is over, or the wait ends for no reason: pthread_cond_timedwait
\* may return at any time.
timedwaitReturns(c) == /\ c \in waiting
                       /\ waiting' = waiting \ {c}
                       /\ woken' = woken \union {c}
                       /\ UNCHANGED <<queuePtr, head, tail, signalling, returned>>

\* Faulty variant: an entry is taken to be there because the wait has returned.
dequeueWithoutSecondLook(c) ==
  /\ c \in woken
  /\ woken' = woken \ {c}
  /\ returned' = [returned EXCEPT ![c] = queuePtr[head]]
  /\ head' = NextSlot(head)
  /\ UNCHANGED <<queuePtr, tail, signalling, waiting>>

\* The rest of dequeueEntry, once the wait holds queueLock again: one more look
\* at the ring, and NULL when there is still nothing in it.
dequeueAfterWait(c) == /\ c \in woken
                       /\ woken' = woken \ {c}
                       /\ \/ Take(c)
                          \/ /\ IsEmpty
                             /\ returned' = [returned EXCEPT ![c] = NULL]
                             /\ UNCHANGED <<queuePtr, head, tail>>
                       /\ UNCHANGED <<signalling, waiting>>

Next == \/ \E p \in Producers : signal(p) \/ \E e \in Entries : enqueueEntry(p, e)
        \/ \E c \in Consumers : \/ dequeueEntry(c)
                                \/ timedwaitReturns(c)
                                \/ dequeueAfterWait(c)

\* The system runs a thread that can run, and a second does pass.
Fairness == /\ \A p \in Producers : WF_vars(signal(p))
            /\ \A c \in Consumers : /\ WF_vars(timedwaitReturns(c))
                                    /\ WF_vars(dequeueAfterWait(c))

Spec == Init /\ [][Next]_vars

FairSpec == Spec /\ Fairness
----------------------------------------------------------------------------
TypeOK == /\ queuePtr \in [Slots -> Entries \union {NULL}]
          /\ head \in Slots
          /\ tail \in Slots
          /\ signalling \subseteq Producers
          /\ waiting \subseteq Consumers
          /\ woken \subseteq Consumers \ waiting
          /\ returned \in [Consumers -> Entries \union {NULL}]

\* Entries between head and tail, and the slot of the k-th of them.
Pending == IF tail >= head THEN tail - head ELSE tail - head + numberOfEntries

PendingSlot(k) == IF head + k - 1 < numberOfEntries
                  THEN head + k - 1
                  ELSE head + k - 1 - numberOfEntries

Contents == [k \in 1 .. Pending |-> queuePtr[PendingSlot(k)]]

\* The ring with its wraps, its two pointers and its wait is the FIFO a caller
\* thinks of: entries come out once each, in the order they went in, and never
\* from a slot nobody wrote; only the one that fills the ring empties it.
Abstract == INSTANCE FlushFifo
              WITH Capacity <- numberOfEntries - 1, fifo <- Contents

ImplementsFlushFifo == Abstract!Spec

\* No wakeup is lost although signal is called without the lock: while an entry
\* is in the ring and a consumer sleeps, somebody is on the way to take the
\* entry or to wake a sleeper.  The one-second timeout is then a safety net and
\* never what delivers a block.
NoLostWakeup == ~IsEmpty /\ waiting # {} => signalling # {} \/ woken # {}

\* dequeueEntry always returns, with an entry or with NULL: the consumer gets to
\* look at timeToExit again even when nothing is ever queued.
DequeueReturns ==
  \A c \in Consumers : c \in waiting ~> c \notin waiting \union woken
=============================================================================
